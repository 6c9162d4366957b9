--------------------------- MODULE MemPoolProofs ----------------------------
(***************************************************************************)
(* Proofs about the allocator of MemPool, for every size of the pool,      *)
(* place of base and sequence of requests and releases.                    *)
(***************************************************************************)
EXTENDS MemPool, FiniteSetTheorems, NaturalsInduction, WellFoundedInduction, TLAPS

-----------------------------------------------------------------------------
(* The invariant.  It is stated of a list record h, as the operations are, with
   the address B of base, the set L of linked headers and the set O of blocks
   in use. *)

Headers(B) == Pool \cup {B}

\* The link nx[a] of every header leads to the next one in address order, and
\* that of the highest to the lowest.
Circle(nx, S) ==
  \A a \in S :
    /\ nx[a] \in S
    /\ \A c \in S : IF a < nx[a] THEN c <= a \/ nx[a] <= c
                                  ELSE nx[a] <= c /\ c <= a

\* base is linked, and the search begins at a linked header.
ListOK(B, h, L) ==
  /\ h \in [next : [Headers(B) -> Headers(B) \cup {NULL}],
            size : [Headers(B) -> 0 .. PoolSize],
            freep : Headers(B)]
  /\ L \subseteq Headers(B) /\ B \in L /\ h.freep \in L
  /\ Circle(h.next, L)

\* Blocks lie in the part of the pool below pos, apart from one another.
Apart(S, sz, pos) ==
  /\ S \subseteq Pool
  /\ \A b \in S : sz[b] >= 1 /\ b + sz[b] <= pos
  /\ \A b, c \in S : b < c => b + sz[b] <= c

\* ... and leave nothing out.
Covered(S, sz, pos) ==
  \A q \in Pool : q < pos => \E b \in S : b <= q /\ q < b + sz[b]

HeapOK(B, h, L, O, pos) ==
  /\ ListOK(B, h, L)
  /\ h.size[B] = 0
  /\ L \cap O = {}
  /\ pos \in 0 .. PoolSize
  /\ Apart((L \ {B}) \cup O, h.size, pos)
  /\ Covered((L \ {B}) \cup O, h.size, pos)
  /\ \A a, c \in L \ {B} : a + h.size[a] # c

Now == [next |-> next, size |-> size, freep |-> freep]

FreeSet == {a \in Header : next[a] # NULL}

(* The inductive invariant. *)
Inv ==
  /\ base \in Bases
  /\ exited \in BOOLEAN
  /\ \A b \in DOMAIN owned : owned[b] \in Sizes /\ size[b] = Quantas(owned[b])
  /\ \/ /\ freep = NULL
        /\ next = [a \in Header |-> NULL]
        /\ size = [a \in Header |-> 0]
        /\ pool_free_pos = 0
        /\ DOMAIN owned = {}
     \/ /\ freep # NULL
        /\ HeapOK(base, Now, FreeSet, DOMAIN owned, pool_free_pos)
-----------------------------------------------------------------------------
(* Least and greatest elements. *)

(* A set of natural numbers that is not empty has a least element. *)
LEMMA LeastExists ==
  ASSUME NEW T \in SUBSET Nat, T # {}
  PROVE  \E n \in T : \A m \in T : n <= m
<1> DEFINE Below == {p \in Nat \X Nat : p[1] < p[2]}
<1>1. IsWellFoundedOn(Below, Nat)
  BY NatLessThanWellFounded DEF OpToRel
<1>2. PICK n \in T : \A m \in T : ~(<<m, n>> \in Below)
  <2> HIDE DEF Below
  <2> QED BY <1>1, WFMin
<1>3. ASSUME NEW m \in T PROVE n <= m
  <2>1. m \in Nat /\ n \in Nat /\ <<m, n>> \notin Below
    BY <1>2
  <2> QED BY <2>1
<1> QED BY <1>3

(* Least, by which the model finds the first place at which a loop stops,
   returns an element of the set, and none is smaller. *)
LEMMA LeastIn ==
  ASSUME NEW T \in SUBSET Nat, T # {}
  PROVE  Least(T) \in T /\ \A m \in T : Least(T) <= m
BY LeastExists DEF Least

(* A set of integers with an upper bound has a greatest element. *)
LEMMA GreatestExists ==
  ASSUME NEW T \in SUBSET Int, T # {}, NEW M \in Int, \A t \in T : t <= M
  PROVE  \E n \in T : \A m \in T : m <= n
<1> DEFINE D == {M - t : t \in T}
<1>1. D \in SUBSET Nat /\ D # {}
  <2>1. \A t \in T : M - t \in Nat
    OBVIOUS
  <2>2. PICK t \in T : TRUE
    OBVIOUS
  <2>3. M - t \in D
    OBVIOUS
  <2> QED BY <2>1, <2>3
<1>2. PICK d \in D : \A e \in D : d <= e
  <2> HIDE DEF D
  <2> QED BY <1>1, LeastExists
<1>3. PICK n \in T : d = M - n
  OBVIOUS
<1>4. ASSUME NEW m \in T PROVE m <= n
  <2>1. M - m \in D
    OBVIOUS
  <2> HIDE DEF D
  <2> QED BY <1>2, <1>3, <2>1
<1> QED BY <1>4

-----------------------------------------------------------------------------
(* Walks along the list. *)

\* f satisfies the recursive equation in the definition of At.
AtOf(h, f, n) == f = [k \in 0 .. n |-> IF k = 0 THEN h.freep ELSE h.next[f[k - 1]]]

(* The recursion in At is well defined. *)
LEMMA AtExists ==
  ASSUME NEW h
  PROVE  \E f : AtOf(h, f, PoolSize + 1)
<1> DEFINE Bad == {n \in 0 .. PoolSize + 1 : ~ \E f : AtOf(h, f, n)}
<1>1. PoolSize \in Nat
  BY PoolAssumption
<1>2. SUFFICES ASSUME Bad # {} PROVE FALSE
  BY <1>1
<1>3. PICK n \in Bad : \A m \in Bad : n <= m
  <2>1. Bad \in SUBSET Nat
    BY <1>1
  <2> HIDE DEF Bad
  <2> QED BY <1>2, <2>1, LeastExists
<1>4. n \in Nat /\ n <= PoolSize + 1
  BY <1>1
<1>5. CASE n = 0
  <2> DEFINE f == [k \in 0 .. 0 |-> h.freep]
  <2>1. AtOf(h, f, 0)
    BY DEF AtOf
  <2> QED BY <2>1, <1>5
<1>6. CASE n # 0
  <2>1. n - 1 \in 0 .. PoolSize + 1 /\ n - 1 \notin Bad
    <3> HIDE DEF Bad
    <3> QED BY <1>1, <1>3, <1>4, <1>6
  <2>2. PICK f : AtOf(h, f, n - 1)
    BY <2>1
  <2> DEFINE g == [k \in 0 .. n |-> IF k < n THEN f[k] ELSE h.next[f[n - 1]]]
  <2>3. \A j \in 0 .. n - 1 : f[j] = IF j = 0 THEN h.freep ELSE h.next[f[j - 1]]
    BY <2>2, Zenon DEF AtOf
  <2>4. ASSUME NEW k \in 0 .. n
        PROVE  g[k] = IF k = 0 THEN h.freep ELSE h.next[g[k - 1]]
    <3>1. CASE k < n
      <4>1. k \in 0 .. n - 1 /\ g[k] = f[k] /\ (k # 0 => g[k - 1] = f[k - 1])
        BY <3>1, <1>4
      <4> HIDE DEF g
      <4> QED BY <4>1, <2>3
    <3>2. CASE k = n
      <4>1. g[k] = h.next[f[n - 1]] /\ g[k - 1] = f[n - 1] /\ k # 0
        BY <3>2, <1>4, <1>6
      <4> HIDE DEF g
      <4> QED BY <4>1
    <3> QED BY <3>1, <3>2, <1>4
  <2>5. AtOf(h, g, n)
    BY <2>4 DEF AtOf
  <2> QED BY <2>5
<1> QED BY <1>5, <1>6

(* A walk starts at freep, follows the links, and stays on the list. *)
LEMMA AtValues ==
  ASSUME NEW B, NEW h, NEW L, ListOK(B, h, L)
  PROVE  /\ DOMAIN At(h) = 0 .. PoolSize + 1
         /\ At(h)[0] = h.freep
         /\ \A k \in 1 .. PoolSize + 1 : At(h)[k] = h.next[At(h)[k - 1]]
         /\ \A k \in 0 .. PoolSize + 1 : At(h)[k] \in L
<1> DEFINE f == CHOOSE f : AtOf(h, f, PoolSize + 1)
<1>1. AtOf(h, f, PoolSize + 1)
  BY AtExists
<1>2. At(h) = f
  BY DEF At, AtOf
<1> HIDE DEF f
<1>3. PoolSize \in Nat
  BY PoolAssumption
<1>4. /\ DOMAIN f = 0 .. PoolSize + 1
      /\ f[0] = h.freep
      /\ \A k \in 1 .. PoolSize + 1 : f[k] = h.next[f[k - 1]]
  BY <1>1, <1>3 DEF AtOf
<1> DEFINE Bad == {n \in 0 .. PoolSize + 1 : f[n] \notin L}
<1>5. ASSUME Bad # {} PROVE FALSE
  <2>1. PICK n \in Bad : \A m \in Bad : n <= m
    <3>1. Bad \in SUBSET Nat
      BY <1>3
    <3> HIDE DEF Bad
    <3> QED BY <1>5, <3>1, LeastExists
  <2>2. n \in 1 .. PoolSize + 1
    BY <1>3, <1>4 DEF ListOK, Circle
  <2>3. n - 1 \in 0 .. PoolSize + 1 /\ n - 1 \notin Bad
    <3> HIDE DEF Bad
    <3> QED BY <1>3, <2>1, <2>2
  <2> QED BY <2>2, <2>3, <1>4 DEF ListOK, Circle
<1> QED BY <1>2, <1>4, <1>5

(* Headers are integers, and there are PoolSize + 1 of them. *)
LEMMA HeaderCount ==
  ASSUME NEW B \in Bases
  PROVE  /\ Headers(B) \subseteq Int /\ NULL \notin Headers(B)
         /\ B \notin Pool
         /\ \E M \in Int : \A a \in Headers(B) : a <= M
         /\ IsFiniteSet(Headers(B)) /\ Cardinality(Headers(B)) = PoolSize + 1
<1>1. B \in Int /\ PoolSize \in Nat /\ B \notin Pool /\ Pool \subseteq Int
  BY PoolAssumption DEF Pool
<1>2. Headers(B) \subseteq Int /\ NULL \notin Headers(B)
  BY <1>1, PoolAssumption DEF Headers
<1>3. \E M \in Int : \A a \in Headers(B) : a <= M
  <2>1. CASE B < PoolSize
    <3>1. \A a \in Headers(B) : a <= PoolSize
      BY <1>1, <2>1 DEF Headers, Pool
    <3> QED BY <3>1, <1>1
  <2>2. CASE ~(B < PoolSize)
    <3>1. \A a \in Headers(B) : a <= B
      BY <1>1, <2>2 DEF Headers, Pool
    <3> QED BY <3>1, <1>1
  <2> QED BY <2>1, <2>2
<1>4. IsFiniteSet(Pool) /\ Cardinality(Pool) = PoolSize
  <2>1. 0 \in Int /\ PoolSize - 1 \in Int /\ ~(0 > PoolSize - 1) /\ (PoolSize - 1) - 0 + 1 = PoolSize
    BY PoolAssumption
  <2> QED BY <2>1, FS_Interval DEF Pool
<1>5. IsFiniteSet(Headers(B)) /\ Cardinality(Headers(B)) = PoolSize + 1
  BY <1>1, <1>4, FS_AddElement DEF Headers
<1> QED BY <1>1, <1>2, <1>3, <1>5

(* A link leads to the next header, or from the highest to the lowest. *)
LEMMA Order ==
  ASSUME NEW B \in Bases, NEW h, NEW L, ListOK(B, h, L), NEW a \in L, NEW c \in L
  PROVE  /\ a \in Int /\ c \in Int /\ h.next[a] \in L /\ h.next[a] \in Int
         /\ a < h.next[a] => c <= a \/ h.next[a] <= c
         /\ h.next[a] <= a => h.next[a] <= c /\ c <= a
<1>1. a \in Int /\ c \in Int /\ h.next[a] \in L /\ h.next[a] \in Int
  BY HeaderCount DEF ListOK, Circle
<1>2. IF a < h.next[a] THEN c <= a \/ h.next[a] <= c ELSE h.next[a] <= c /\ c <= a
  BY DEF ListOK, Circle
<1> QED BY <1>1, <1>2

(* No two links lead to the same header. *)
LEMMA LinksDiffer ==
  ASSUME NEW B \in Bases, NEW h, NEW L, ListOK(B, h, L),
         NEW a \in L, NEW c \in L, h.next[a] = h.next[c]
  PROVE  a = c
<1>1. /\ a \in Int /\ c \in Int /\ h.next[a] \in Int
      /\ a < h.next[a] => c <= a \/ h.next[a] <= c
      /\ h.next[a] <= a => h.next[a] <= c /\ c <= a
  BY Order
<1>2. /\ c < h.next[c] => a <= c \/ h.next[c] <= a
      /\ h.next[c] <= c => h.next[c] <= a /\ a <= c
  BY Order
<1> QED BY <1>1, <1>2

(* Links go all the way round: a part of the list that they do not leave is all
   of it. *)
LEMMA Closed ==
  ASSUME NEW B \in Bases, NEW h, NEW L, ListOK(B, h, L),
         NEW R \in SUBSET L, R # {}, \A a \in R : h.next[a] \in R
  PROVE  R = L
<1>1. SUFFICES ASSUME NEW c \in L, c \notin R PROVE FALSE
  OBVIOUS
<1>2. L \subseteq Int /\ R \subseteq Int
  BY HeaderCount DEF ListOK, Circle
<1>3. PICK M \in Int : \A a \in L : a <= M
  BY HeaderCount DEF ListOK, Circle
<1> DEFINE Low == {a \in R : a <= c}
<1>4. CASE Low = {}
  <2>1. PICK m \in R : \A a \in R : a <= m
    BY <1>2, <1>3, GreatestExists
  <2>2. h.next[m] \in R /\ h.next[m] <= m /\ m \in L
    BY <2>1
  <2>3. h.next[m] <= c
    BY <2>2, Order
  <2> QED BY <2>2, <2>3, <1>4
<1>5. CASE Low # {}
  <2>1. PICK m \in Low : \A a \in Low : a <= m
    <3>1. Low \in SUBSET Int /\ \A a \in Low : a <= M
      BY <1>2, <1>3
    <3> HIDE DEF Low
    <3> QED BY <1>5, <1>3, <3>1, GreatestExists
  <2>2. m \in L /\ h.next[m] \in R /\ m <= c /\ m # c
    BY <1>1
  <2>3. h.next[m] <= c => h.next[m] <= m
    BY <2>1, <2>2
  <2>4. /\ m \in Int /\ c \in Int /\ h.next[m] \in Int
        /\ m < h.next[m] => c <= m \/ h.next[m] <= c
        /\ h.next[m] <= m => h.next[m] <= c /\ c <= m
    BY <2>2, Order
  <2> QED BY <2>2, <2>3, <2>4
<1> QED BY <1>4, <1>5

(* A walk from freep comes back to it within PoolSize + 1 links. *)
LEMMA Returns ==
  ASSUME NEW B \in Bases, NEW h, NEW L, ListOK(B, h, L)
  PROVE  \E k \in 1 .. PoolSize + 1 : At(h)[k] = h.freep
<1> DEFINE N == PoolSize + 1
           at == At(h)
<1>1. /\ at[0] = h.freep
      /\ \A k \in 1 .. N : at[k] = h.next[at[k - 1]]
      /\ \A k \in 0 .. N : at[k] \in L
  BY AtValues
<1>2. N \in Nat /\ PoolSize \in Nat
  BY PoolAssumption
<1> DEFINE f == [k \in 0 .. N |-> at[k]]
<1>3. \E x, y \in 0 .. N : x # y /\ f[x] = f[y]
  <2>1. IsFiniteSet(0 .. N) /\ Cardinality(0 .. N) = N + 1
    <3>1. 0 \in Int /\ N \in Int /\ ~(0 > N)
      BY <1>2
    <3> HIDE DEF N
    <3> QED BY <3>1, <1>2, FS_Interval
  <2>2. IsFiniteSet(Headers(B)) /\ Cardinality(Headers(B)) = N
    BY HeaderCount
  <2>3. f \in [0 .. N -> Headers(B)]
    BY <1>1 DEF ListOK, Circle
  <2>4. Cardinality(Headers(B)) < Cardinality(0 .. N)
    BY <2>1, <2>2, <1>2
  <2> DEFINE D == 0 .. N
  <2>5. /\ IsFiniteSet(D) /\ f \in [D -> Headers(B)]
        /\ Cardinality(Headers(B)) < Cardinality(D)
    BY <2>1, <2>3, <2>4
  <2> HIDE DEF f, N, D
  <2>6. \E x, y \in D : x # y /\ f[x] = f[y]
    BY <2>2, <2>5, FS_PigeonHole
  <2> QED BY <2>6 DEF D
<1> HIDE DEF at, N
<1> DEFINE T == {x \in 0 .. N : \E y \in 0 .. N : x < y /\ at[x] = at[y]}
<1>4. T \in SUBSET Nat /\ T # {}
  BY <1>2, <1>3
<1>5. PICK x \in T : \A z \in T : x <= z
  <2> HIDE DEF T
  <2> QED BY <1>4, LeastExists
<1>6. PICK y \in 0 .. N : x < y /\ at[x] = at[y]
  OBVIOUS
<1>7. x = 0
  <2>1. SUFFICES ASSUME x # 0 PROVE FALSE
    OBVIOUS
  <2>2. x \in 1 .. N /\ y \in 1 .. N /\ x - 1 \in 0 .. N /\ y - 1 \in 0 .. N /\ x - 1 < y - 1
    BY <1>2, <1>6, <2>1
  <2>3. at[x - 1] = at[y - 1]
    <3>1. h.next[at[x - 1]] = h.next[at[y - 1]]
      BY <1>1, <1>6, <2>2
    <3> QED BY <3>1, <1>1, <2>2, LinksDiffer
  <2>4. x - 1 \in T
    BY <2>2, <2>3
  <2> HIDE DEF T
  <2> QED BY <1>2, <1>5, <2>2, <2>4
<1>8. y \in 1 .. N /\ at[y] = h.freep
  BY <1>1, <1>2, <1>6, <1>7
<1> QED BY <1>8 DEF at, N

(* The loop of s16mem_alloc, which goes from the successor of freep to freep
   itself, and the walk that defines LinkedIn, both see all of the list. *)
LEMMA Walk ==
  ASSUME NEW B \in Bases, NEW h, NEW L, ListOK(B, h, L),
         NEW e, e = Least({k \in DOMAIN At(h) : k > 0 /\ At(h)[k] = h.freep})
  PROVE  /\ e \in 1 .. PoolSize + 1
         /\ {At(h)[k] : k \in 1 .. e} = L
         /\ LinkedIn(h) = L
<1> DEFINE N == PoolSize + 1
           at == At(h)
           E == {k \in DOMAIN At(h) : k > 0 /\ At(h)[k] = h.freep}
<1>1. /\ DOMAIN at = 0 .. N
      /\ at[0] = h.freep
      /\ \A k \in 1 .. N : at[k] = h.next[at[k - 1]]
      /\ \A k \in 0 .. N : at[k] \in L
  BY AtValues
<1>2. N \in Nat
  BY PoolAssumption
<1>3. E \in SUBSET Nat /\ E # {}
  BY <1>1, <1>2, Returns
<1>4. e \in E
  <2> HIDE DEF E
  <2> QED BY <1>3, LeastIn DEF E
<1>5. e \in 1 .. N /\ at[e] = h.freep
  BY <1>1, <1>2, <1>4
<1> HIDE DEF E, at, N
<1> DEFINE R == {at[k] : k \in 1 .. e}
<1>6. R \in SUBSET L /\ R # {}
  <2>1. at[e] \in R
    BY <1>2, <1>5
  <2>2. R \in SUBSET L
    BY <1>1, <1>2, <1>5
  <2> QED BY <2>1, <2>2
<1>7. ASSUME NEW a \in R PROVE h.next[a] \in R
  <2>1. PICK k \in 1 .. e : a = at[k]
    OBVIOUS
  <2>2. CASE k = e
    <3>1. 1 \in 1 .. N /\ 1 \in 1 .. e /\ at[1] = h.next[at[1 - 1]] /\ 1 - 1 = 0
      BY <1>1, <1>2, <1>5
    <3>2. h.next[a] = at[1]
      BY <3>1, <2>1, <2>2, <1>1, <1>5
    <3> QED BY <3>1, <3>2
  <2>3. CASE k # e
    <3>1. k + 1 \in 1 .. N /\ k + 1 \in 1 .. e /\ at[k + 1] = h.next[at[(k + 1) - 1]] /\ (k + 1) - 1 = k
      BY <1>1, <1>2, <1>5, <2>3
    <3> QED BY <3>1, <2>1
  <2> QED BY <2>2, <2>3
<1>8. R = L
  <2> HIDE DEF R
  <2> QED BY <1>6, <1>7, Closed
<1>9. LinkedIn(h) = L
  <2>1. h.freep # NULL
    BY HeaderCount DEF ListOK, Circle
  <2>2. LinkedIn(h) = {at[k] : k \in 0 .. N}
    BY <1>1, <2>1 DEF LinkedIn, at
  <2>3. R \subseteq {at[k] : k \in 0 .. N}
    BY <1>2, <1>5
  <2>4. {at[k] : k \in 0 .. N} \subseteq L
    BY <1>1
  <2> QED BY <2>2, <2>3, <2>4, <1>8
<1> QED BY <1>5, <1>8, <1>9 DEF at, N

(* In particular, LinkedIn is all of the list. *)
LEMMA LinkedAll ==
  ASSUME NEW B \in Bases, NEW h, NEW L, ListOK(B, h, L)
  PROVE  LinkedIn(h) = L
<1> DEFINE e == Least({k \in DOMAIN At(h) : k > 0 /\ At(h)[k] = h.freep})
<1>1. e = Least({k \in DOMAIN At(h) : k > 0 /\ At(h)[k] = h.freep})
  OBVIOUS
<1> HIDE DEF e
<1> QED BY <1>1, Walk

-----------------------------------------------------------------------------
(* Links and blocks under insertion, removal, merging and splitting. *)

(* A header that is linked in where Between holds leaves the list in order. *)
LEMMA InsertCircle ==
  ASSUME NEW S \in SUBSET Int, NEW nx, Circle(nx, S), NEW p \in S, NEW b \in Int \ S,
         \/ b > p /\ b < nx[p]
         \/ p >= nx[p] /\ (b > p \/ b < nx[p]),
         NEW ny, ny[p] = b, ny[b] = nx[p], \A a \in S \ {p} : ny[a] = nx[a]
  PROVE  Circle(ny, S \cup {b})
<1>1. \A a \in S : nx[a] \in S /\ nx[a] \in Int /\ a \in Int
  BY DEF Circle
<1>2. \A a, c \in S : /\ a < nx[a] => c <= a \/ nx[a] <= c
                      /\ nx[a] <= a => nx[a] <= c /\ c <= a
  BY <1>1 DEF Circle
<1>3. SUFFICES ASSUME NEW a \in S \cup {b}, NEW c \in S \cup {b}
               PROVE  /\ ny[a] \in S \cup {b}
                      /\ IF a < ny[a] THEN c <= a \/ ny[a] <= c
                                      ELSE ny[a] <= c /\ c <= a
  BY DEF Circle
<1>4. CASE a = b
  BY <1>1, <1>2, <1>4
<1>5. CASE a = p
  BY <1>1, <1>2, <1>5
<1>6. CASE a \in S \ {p}
  <2>1. ny[a] = nx[a] /\ nx[a] \in S
    BY <1>1, <1>6
  <2>2. CASE c \in S
    BY <1>1, <1>2, <1>6, <2>1, <2>2
  <2>3. CASE c = b
    <3>1. /\ a < nx[a] => p <= a \/ nx[a] <= p
          /\ a < nx[a] => nx[p] <= a \/ nx[a] <= nx[p]
          /\ nx[a] <= a => nx[a] <= p /\ p <= a
          /\ nx[a] <= a => nx[a] <= nx[p] /\ nx[p] <= a
          /\ p < nx[p] => a <= p \/ nx[p] <= a
          /\ nx[p] <= p => nx[p] <= a /\ a <= p
          /\ p < nx[p] => nx[a] <= p \/ nx[p] <= nx[a]
          /\ nx[p] <= p => nx[p] <= nx[a] /\ nx[a] <= p
      BY <1>1, <1>2, <1>6
    <3>2. nx[a] # nx[p]
      BY <3>1, <1>1, <1>6
    <3> QED BY <1>1, <1>6, <2>1, <2>3, <3>1, <3>2
  <2> QED BY <2>2, <2>3
<1> QED BY <1>4, <1>5, <1>6

(* So does the removal of the successor of a header. *)
LEMMA RemoveCircle ==
  ASSUME NEW S \in SUBSET Int, NEW nx, Circle(nx, S), NEW p \in S, nx[p] # p,
         NEW ny, ny[p] = nx[nx[p]], \A a \in S \ {p, nx[p]} : ny[a] = nx[a]
  PROVE  Circle(ny, S \ {nx[p]})
<1> DEFINE u == nx[p]
<1>1. \A a \in S : nx[a] \in S /\ nx[a] \in Int /\ a \in Int
  BY DEF Circle
<1>2. \A a, c \in S : /\ a < nx[a] => c <= a \/ nx[a] <= c
                      /\ nx[a] <= a => nx[a] <= c /\ c <= a
  BY <1>1 DEF Circle
<1>3. SUFFICES ASSUME NEW a \in S \ {u}, NEW c \in S \ {u}
               PROVE  /\ ny[a] \in S \ {u}
                      /\ IF a < ny[a] THEN c <= a \/ ny[a] <= c
                                      ELSE ny[a] <= c /\ c <= a
  BY DEF Circle
<1>4. u \in S /\ u # p
  BY <1>1
<1>5. CASE a = p
  <2>1. ny[a] = nx[u] /\ nx[u] \in S
    BY <1>1, <1>4, <1>5
  <2>2. /\ u < nx[u] => p <= u \/ nx[u] <= p
        /\ nx[u] <= u => nx[u] <= p /\ p <= u
        /\ p < u => nx[u] <= p \/ u <= nx[u]
        /\ u <= p => u <= nx[u] /\ nx[u] <= p
        /\ u < nx[u] => c <= u \/ nx[u] <= c
        /\ nx[u] <= u => nx[u] <= c /\ c <= u
        /\ p < u => c <= p \/ u <= c
        /\ u <= p => u <= c /\ c <= p
    BY <1>1, <1>2, <1>4
  <2> QED BY <1>1, <1>4, <1>5, <2>1, <2>2
<1>6. CASE a # p
  <2>1. ny[a] = nx[a] /\ nx[a] \in S
    BY <1>1, <1>6
  <2>2. /\ a < nx[a] => p <= a \/ nx[a] <= p
        /\ nx[a] <= a => nx[a] <= p /\ p <= a
        /\ p < u => a <= p \/ u <= a
        /\ u <= p => u <= a /\ a <= p
    BY <1>1, <1>2, <1>4
  <2>3. nx[a] # u
    BY <1>1, <1>4, <1>6, <2>2
  <2> QED BY <1>1, <1>2, <2>1, <2>3
<1> QED BY <1>5, <1>6

(* Two blocks that touch make one. *)
LEMMA Merge ==
  ASSUME NEW S, NEW sz, NEW pos \in 0 .. PoolSize, Apart(S, sz, pos), Covered(S, sz, pos),
         \A s \in S : sz[s] \in Int,
         NEW x \in S, NEW y \in S, x + sz[x] = y,
         NEW sy, sy[x] = sz[x] + sz[y], \A s \in S \ {x, y} : sy[s] = sz[s]
  PROVE  /\ Apart(S \ {y}, sy, pos) /\ Covered(S \ {y}, sy, pos)
         /\ y # x /\ sy[x] \in 0 .. PoolSize
<1>1. PoolSize \in Nat /\ S \subseteq Pool /\ S \subseteq Int /\ pos \in Int /\ pos <= PoolSize
  BY PoolAssumption DEF Apart, Pool
<1>2. /\ \A b \in S : sz[b] >= 1 /\ b + sz[b] <= pos /\ sz[b] \in Int /\ b \in Int /\ b >= 0
      /\ \A b, c \in S : b < c => b + sz[b] <= c
  BY <1>1 DEF Apart, Pool
<1>3. x < y /\ sy[x] \in Int /\ x + sy[x] = y + sz[y] /\ sy[x] \in 0 .. PoolSize
  BY <1>1, <1>2
<1>4. ASSUME NEW b \in S \ {y} PROVE sy[b] >= 1 /\ b + sy[b] <= pos
  <2>1. CASE b = x
    BY <1>1, <1>2, <1>3, <2>1
  <2>2. CASE b # x
    BY <1>2, <2>2
  <2> QED BY <2>1, <2>2
<1>5. ASSUME NEW b \in S \ {y}, NEW c \in S \ {y}, b < c PROVE b + sy[b] <= c
  <2>1. CASE b = x
    <3>1. c \in Int /\ y \in Int /\ sz[c] >= 1 /\ sz[c] \in Int /\ x + sz[x] <= c /\ c # y
      BY <1>2, <1>5, <2>1
    <3>2. y < c
      BY <3>1
    <3>3. y + sz[y] <= c
      BY <1>2, <3>2
    <3> QED BY <1>3, <2>1, <3>3
  <2>2. CASE b # x
    BY <1>2, <1>5, <2>2
  <2> QED BY <2>1, <2>2
<1>6. ASSUME NEW q \in Pool, q < pos
      PROVE  \E b \in S \ {y} : b <= q /\ q < b + sy[b]
  <2>1. PICK b \in S : b <= q /\ q < b + sz[b]
    BY <1>6 DEF Covered
  <2>2. q \in Int
    BY DEF Pool
  <2>3. CASE b = y
    <3>1. x <= q /\ q < x + sy[x] /\ x \in S \ {y}
      BY <1>2, <1>3, <2>1, <2>2, <2>3
    <3> QED BY <3>1
  <2>4. CASE b = x
    <3>1. x <= q /\ q < x + sy[x] /\ x \in S \ {y}
      BY <1>2, <1>3, <2>1, <2>2, <2>4
    <3> QED BY <3>1
  <2>5. CASE b # x /\ b # y
    BY <2>1, <2>5
  <2> QED BY <2>3, <2>4, <2>5
<1>7. y # x
  BY <1>2, <1>3
<1> QED BY <1>1, <1>3, <1>4, <1>5, <1>6, <1>7 DEF Apart, Covered

(* A block that is cut makes two. *)
LEMMA Split ==
  ASSUME NEW S, NEW sz, NEW pos \in 0 .. PoolSize, Apart(S, sz, pos), Covered(S, sz, pos),
         \A s \in S : sz[s] \in Int,
         NEW x \in S, NEW y \in Int, NEW sy,
         sy[x] \in Int, sy[y] \in Int, sy[x] >= 1, sy[y] >= 1,
         x + sy[x] = y, y + sy[y] = x + sz[x],
         \A s \in S \ {x} : sy[s] = sz[s]
  PROVE  /\ Apart(S \cup {y}, sy, pos) /\ Covered(S \cup {y}, sy, pos)
         /\ y \notin S
<1>1. PoolSize \in Nat /\ S \subseteq Pool /\ S \subseteq Int /\ pos \in Int /\ pos <= PoolSize
  BY PoolAssumption DEF Apart, Pool
<1>2. /\ \A b \in S : sz[b] >= 1 /\ b + sz[b] <= pos /\ sz[b] \in Int /\ b \in Int /\ b >= 0
      /\ \A b, c \in S : b < c => b + sz[b] <= c
  BY <1>1 DEF Apart, Pool
<1>3. /\ y \in Int /\ x < y /\ y < x + sz[x] /\ sy[x] \in Int /\ sy[y] \in Int
      /\ x + sy[x] = y /\ y + sy[y] = x + sz[x] /\ sy[x] >= 1 /\ sy[y] >= 1
  BY <1>2
<1>4. y \in Pool
  <2>1. y + sy[y] <= pos
    BY <1>2, <1>3
  <2> QED BY <2>1, <1>1, <1>2, <1>3 DEF Pool
<1>5. y \notin S
  BY <1>2, <1>3
<1>6. ASSUME NEW b \in S \cup {y} PROVE sy[b] >= 1 /\ b + sy[b] <= pos
  <2>1. CASE b \in S \ {x}
    BY <1>2, <2>1
  <2>2. CASE b = x \/ b = y
    BY <1>1, <1>2, <1>3, <2>2
  <2> QED BY <2>1, <2>2
<1>7. ASSUME NEW b \in S \cup {y}, NEW c \in S \cup {y}, b < c PROVE b + sy[b] <= c
  <2>1. CASE b \in S \ {x} /\ c \in S
    BY <1>2, <1>7, <2>1
  <2>2. CASE b \in S \ {x} /\ c = y
    <3>1. b < x
      <4>1. b \in Int /\ sz[b] \in Int /\ sz[b] >= 1 /\ b # x /\ (x < b => x + sz[x] <= b)
        BY <1>2, <2>2
      <4> QED BY <1>2, <1>3, <1>7, <2>2, <4>1
    <3>2. b + sz[b] <= x /\ sy[b] = sz[b] /\ sz[b] \in Int /\ b \in Int /\ x \in Int
      BY <1>2, <2>2, <3>1
    <3> QED BY <1>3, <2>2, <3>2
  <2>3. CASE b = x /\ c = y
    BY <1>2, <1>3, <2>3
  <2>4. CASE (b = x \/ b = y) /\ c \in S
    <3>1. x < c /\ c \in Int /\ x \in Int
      BY <1>2, <1>3, <1>7, <2>4
    <3>2. x + sz[x] <= c
      BY <1>2, <2>4, <3>1
    <3> QED BY <1>2, <1>3, <2>4, <3>1, <3>2
  <2> QED BY <1>3, <1>7, <2>1, <2>2, <2>3, <2>4
<1>8. ASSUME NEW q \in Pool, q < pos
      PROVE  \E b \in S \cup {y} : b <= q /\ q < b + sy[b]
  <2>1. PICK b \in S : b <= q /\ q < b + sz[b]
    BY <1>8 DEF Covered
  <2>2. q \in Int
    BY DEF Pool
  <2>3. CASE b = x /\ q < y
    <3>1. x <= q /\ q < x + sy[x]
      BY <1>3, <2>1, <2>3
    <3> QED BY <3>1
  <2>4. CASE b = x /\ ~(q < y)
    <3>1. y <= q /\ q < y + sy[y]
      BY <1>3, <2>1, <2>2, <2>4
    <3> QED BY <3>1
  <2>5. CASE b # x
    BY <2>1, <2>5
  <2> QED BY <2>3, <2>4, <2>5
<1> QED BY <1>1, <1>4, <1>5, <1>6, <1>7, <1>8 DEF Apart, Covered

-----------------------------------------------------------------------------
(* s16mem_free *)

(* There is a place for a block on the list. *)
LEMMA Place ==
  ASSUME NEW B \in Bases, NEW h, NEW L, ListOK(B, h, L), NEW b \in Int, b \notin L
  PROVE  \E p \in L : Between(h, p, b)
<1>1. L \subseteq Int /\ B \in L
  BY HeaderCount DEF ListOK
<1>2. PICK M \in Int : \A a \in L : a <= M
  BY HeaderCount DEF ListOK
<1> DEFINE Low == {a \in L : a <= b}
<1>3. CASE Low = {}
  <2>1. PICK m \in L : \A a \in L : a <= m
    BY <1>1, <1>2, GreatestExists
  <2>2. h.next[m] \in L /\ h.next[m] \in Int
    BY Order
  <2>3. h.next[m] <= m /\ b < h.next[m]
    BY <2>1, <2>2, <1>1, <1>3
  <2> QED BY <1>1, <2>1, <2>2, <2>3 DEF Between
<1>4. CASE Low # {}
  <2>1. PICK m \in Low : \A a \in Low : a <= m
    <3>1. Low \in SUBSET Int /\ \A a \in Low : a <= M
      BY <1>1, <1>2
    <3> HIDE DEF Low
    <3> QED BY <1>2, <1>4, <3>1, GreatestExists
  <2>2. m \in L /\ m \in Int /\ m < b
    BY <1>1
  <2>3. h.next[m] \in L /\ h.next[m] \in Int
    BY <2>2, Order
  <2>4. h.next[m] <= b => h.next[m] <= m
    BY <2>1, <2>3
  <2>5. Between(h, m, b)
    <3>1. h.next[m] # b
      BY <2>3
    <3> QED BY <2>2, <2>3, <2>4, <3>1 DEF Between
  <2> QED BY <2>2, <2>5
<1> QED BY <1>3, <1>4

(* The loop of s16mem_free ends, at such a place. *)
LEMMA PlaceFound ==
  ASSUME NEW B \in Bases, NEW h, NEW L, ListOK(B, h, L), NEW b \in Int, b \notin L,
         NEW p, p = At(h)[Least({k \in DOMAIN At(h) : Between(h, At(h)[k], b)})]
  PROVE  p \in L /\ Between(h, p, b)
<1> DEFINE K == {k \in DOMAIN At(h) : Between(h, At(h)[k], b)}
<1>1. /\ DOMAIN At(h) = 0 .. PoolSize + 1
      /\ \A k \in 0 .. PoolSize + 1 : At(h)[k] \in L
  BY AtValues
<1>2. K # {}
  <2>1. PICK a \in L : Between(h, a, b)
    BY Place
  <2>2. a \in LinkedIn(h)
    BY LinkedAll
  <2>3. h.freep # NULL
    BY HeaderCount DEF ListOK
  <2>4. PICK k \in DOMAIN At(h) : a = At(h)[k]
    BY <2>2, <2>3 DEF LinkedIn
  <2> QED BY <2>1, <2>4
<1>3. Least(K) \in K
  <2>1. K \in SUBSET Nat
    BY <1>1, PoolAssumption
  <2> HIDE DEF K
  <2> QED BY <1>2, <2>1, LeastIn
<1> QED BY <1>1, <1>3

(* The only blocks of the list that can touch b are its neighbours there. *)
LEMMA Neighbours ==
  ASSUME NEW B \in Bases, NEW h, NEW L, NEW O, NEW pos, HeapOK(B, h, L, O, pos),
         NEW b \in O, NEW p \in L, Between(h, p, b), NEW a \in L \ {B}
  PROVE  /\ a + h.size[a] = b => a = p
         /\ b + h.size[b] = a => a = h.next[p]
<1> DEFINE S == (L \ {B}) \cup O
           u == h.next[p]
<1>1. ListOK(B, h, L)
  BY DEF HeapOK
<1>2. /\ p \in Int /\ a \in Int /\ u \in L /\ u \in Int
      /\ p < u => a <= p \/ u <= a
      /\ u <= p => u <= a /\ a <= p
  BY <1>1, Order
<1>3. /\ S \subseteq Pool
      /\ \A s \in S : h.size[s] >= 1 /\ s + h.size[s] <= pos
      /\ \A s, t \in S : s < t => s + h.size[s] <= t
      /\ pos \in 0 .. PoolSize
  BY DEF HeapOK, Apart
<1>4. /\ a \in S /\ b \in S /\ (p = B \/ p \in S) /\ (u = B \/ u \in S)
      /\ b \in 0 .. PoolSize - 1 /\ a \in 0 .. PoolSize - 1
      /\ PoolSize \in Nat /\ B \in Int /\ B \notin 0 .. PoolSize
  BY <1>2, <1>3, PoolAssumption DEF Pool
<1>5. h.size[a] \in Int /\ h.size[b] \in Int
  <2>1. h.size \in [Headers(B) -> 0 .. PoolSize] /\ a \in Headers(B) /\ b \in Headers(B)
    BY <1>1, <1>3, <1>4 DEF ListOK, Headers
  <2> QED BY <2>1, <1>4
<1>6. b # u /\ b # p
  BY <1>2 DEF HeapOK
<1>7. \/ b > p /\ b < u
      \/ p >= u /\ (b > p \/ b < u)
  BY DEF Between
<1>8. /\ p \in S => (a < p => a + h.size[a] <= p)
      /\ u \in S => (b < u => b + h.size[b] <= u)
      /\ h.size[a] >= 1 /\ h.size[b] >= 1
      /\ b + h.size[b] <= pos /\ a + h.size[a] <= pos
  BY <1>3, <1>4
<1> HIDE DEF S, u
<1>9. ASSUME a + h.size[a] = b PROVE a = p
  BY <1>2, <1>4, <1>5, <1>6, <1>7, <1>8, <1>9
<1>10. ASSUME b + h.size[b] = a PROVE a = u
  BY <1>2, <1>4, <1>5, <1>6, <1>7, <1>8, <1>10
<1> QED BY <1>9, <1>10 DEF u

\* g is a list that is left when b has been given back.
Released(B, h, O, pos, b, g) ==
  \E M : /\ HeapOK(B, g, M, O \ {b}, pos)
         /\ \A c \in O \ {b} : g.size[c] = h.size[c]
         /\ \E a \in M : g.size[a] >= h.size[b]

(* s16mem_free of a block in use moves it to the list, combined with its
   neighbours: no quantum is lost, no other block is touched, and the list is
   in order again. *)
LEMMA ReleaseOK ==
  ASSUME NEW B \in Bases, NEW h, NEW L, NEW O, NEW pos, HeapOK(B, h, L, O, pos), NEW b \in O
  PROVE  Released(B, h, O, pos, b, s16mem_free(h, b))
<1> DEFINE g == s16mem_free(h, b)
<1> SUFFICES \E M : /\ HeapOK(B, g, M, O \ {b}, pos)
                    /\ \A c \in O \ {b} : g.size[c] = h.size[c]
                    /\ \E a \in M : g.size[a] >= h.size[b]
  BY DEF Released
<1> DEFINE p == At(h)[Least({k \in DOMAIN At(h) : Between(h, At(h)[k], b)})]
           up == h.next[p]
           upper == b + h.size[b] = up
           bsize == IF upper THEN h.size[b] + h.size[up] ELSE h.size[b]
           bnext == IF upper THEN h.next[up] ELSE up
           lower == p + h.size[p] = b
           S == (L \ {B}) \cup O
           n1 == [h.next EXCEPT ![b] = up, ![p] = b]
           n2 == [h.next EXCEPT ![b] = bnext, ![p] = b]
           n3 == [h.next EXCEPT ![b] = bnext, ![p] = bnext]
           s2 == [h.size EXCEPT ![b] = bsize]
           s3 == [h.size EXCEPT ![b] = bsize, ![p] = h.size[p] + bsize]
           L1 == L \cup {b}
           L2 == IF upper THEN L1 \ {up} ELSE L1
           L3 == L2 \ {b}
<1>1. /\ g.next = IF lower THEN n3 ELSE n2
      /\ g.size = IF lower THEN s3 ELSE s2
      /\ g.freep = p
      /\ g = [next |-> g.next, size |-> g.size, freep |-> g.freep]
  BY Zenon DEF s16mem_free
<1> HIDE DEF g
<1>2. /\ ListOK(B, h, L)
      /\ h.next \in [Headers(B) -> Headers(B) \cup {NULL}]
      /\ h.size \in [Headers(B) -> 0 .. PoolSize]
      /\ L \subseteq Headers(B) /\ B \in L /\ Circle(h.next, L)
      /\ h.size[B] = 0 /\ L \cap O = {} /\ pos \in 0 .. PoolSize
      /\ Apart(S, h.size, pos) /\ Covered(S, h.size, pos)
      /\ \A a, c \in L \ {B} : a + h.size[a] # c
  BY DEF HeapOK, ListOK
<1>3. /\ PoolSize \in Nat /\ B \in Int /\ B \notin 0 .. PoolSize /\ B \notin Pool
      /\ L \subseteq Int /\ S \subseteq Pool /\ Pool \subseteq Int /\ Pool = 0 .. PoolSize - 1
      /\ b \in Pool /\ b \in Int /\ b \notin L /\ b \in S /\ b # B
      /\ Headers(B) = Pool \cup {B}
  BY <1>2, HeaderCount, PoolAssumption DEF Apart, Pool, Headers
<1>4. p \in L /\ Between(h, p, b)
  BY <1>2, <1>3, PlaceFound
<1> HIDE DEF p
<1>5. /\ p \in Int /\ up \in L /\ up \in Int /\ p # b /\ up # b
      /\ \A c \in L : /\ p < up => c <= p \/ up <= c
                      /\ up <= p => up <= c /\ c <= p
  BY <1>2, <1>3, <1>4, Order
<1>6. /\ \A a \in L \ {B} : a + h.size[a] = b => a = p
      /\ \A a \in L \ {B} : b + h.size[b] = a => a = up
  BY <1>4, Neighbours
<1>7. /\ \A s \in S : h.size[s] \in Int /\ h.size[s] >= 1 /\ s + h.size[s] <= pos /\ s \in Int /\ s >= 0
      /\ \A s, t \in S : s < t => s + h.size[s] <= t
      /\ \A a \in Headers(B) : h.size[a] \in 0 .. PoolSize
      /\ pos \in Int /\ pos <= PoolSize
  <2>1. \A a \in Headers(B) : h.size[a] \in 0 .. PoolSize
    BY <1>2
  <2>2. \A s \in S : s \in Pool /\ s \in Headers(B) /\ s \in Int /\ s >= 0
    <3> HIDE DEF S
    <3> QED BY <1>3
  <2>3. /\ \A s \in S : h.size[s] >= 1 /\ s + h.size[s] <= pos
        /\ \A s, t \in S : s < t => s + h.size[s] <= t
    <3> HIDE DEF S
    <3> QED BY <1>2 DEF Apart
  <2>4. \A s \in S : h.size[s] \in Int
    <3> HIDE DEF S
    <3> QED BY <2>1, <2>2
  <2>5. pos \in Int /\ pos <= PoolSize
    BY <1>2, <1>3
  <2> HIDE DEF S
  <2> QED BY <2>1, <2>2, <2>3, <2>4, <2>5
<1>8. upper => up # B /\ up # p /\ up \in S /\ up > b
  <2>1. ASSUME upper PROVE up # B /\ up \in S /\ up > b
    <3>1. /\ h.size[b] \in Int /\ h.size[b] >= 1 /\ b + h.size[b] <= pos /\ b >= 0
          /\ pos \in Int /\ pos <= PoolSize /\ b + h.size[b] = up
      BY <2>1, <1>3, <1>7
    <3> HIDE DEF up
    <3>2. up # B /\ up > b
      BY <3>1, <1>3, <1>5
    <3> QED BY <3>2, <1>5
  <2>2. ASSUME up = p PROVE up = B
    <3>1. up <= B /\ B <= p
      BY <2>2, <1>2, <1>5
    <3> QED BY <2>2, <3>1, <1>3, <1>5
  <2> QED BY <2>1, <2>2
<1>9. bsize \in Int /\ h.size[b] \in Int /\ bsize >= h.size[b]
  <2>1. h.size[b] \in Int
    BY <1>3, <1>7
  <2>2. CASE upper
    <3>1. bsize = h.size[b] + h.size[up] /\ h.size[up] \in Int /\ h.size[up] >= 1
      BY <2>2, <1>7, <1>8
    <3> HIDE DEF bsize, up
    <3> QED BY <2>1, <3>1
  <2>3. CASE ~upper
    BY <2>1, <2>3
  <2> QED BY <2>2, <2>3
<1>10. lower => p # B /\ p \in S /\ p < b
  <2>1. SUFFICES ASSUME lower PROVE p # B /\ p \in S /\ p < b
    OBVIOUS
  <2>2. p # B
    BY <2>1, <1>2, <1>3
  <2>3. p \in S
    BY <2>2, <1>4
  <2>4. h.size[p] \in Int /\ h.size[p] >= 1 /\ p \in Int
    BY <2>3, <1>7
  <2> QED BY <2>1, <2>2, <2>3, <2>4, <1>3
<1>11. /\ n1[p] = b /\ n1[b] = up /\ \A a \in L \ {p} : n1[a] = h.next[a]
       /\ n2[p] = b /\ n2[b] = bnext /\ \A a \in L \ {p} : n2[a] = h.next[a]
       /\ n3[p] = bnext /\ \A a \in L \ {p} : n3[a] = h.next[a]
       /\ bnext \in L
       /\ n2 \in [Headers(B) -> Headers(B) \cup {NULL}]
       /\ n3 \in [Headers(B) -> Headers(B) \cup {NULL}]
  <2>1. bnext \in L /\ bnext \in Headers(B)
    BY <1>2, <1>5 DEF Circle
  <2>2. b \in Headers(B) /\ p \in Headers(B) /\ up \in Headers(B)
    BY <1>2, <1>3, <1>4, <1>5
  <2> HIDE DEF up, bnext, upper
  <2> QED BY <1>2, <1>3, <1>4, <1>5, <2>1, <2>2
<1>12. Circle(n1, L1)
  <2>1. \/ b > p /\ b < h.next[p]
        \/ p >= h.next[p] /\ (b > p \/ b < h.next[p])
    BY <1>4 DEF Between
  <2>2. L \in SUBSET Int /\ b \in Int \ L
    BY <1>3
  <2>3. n1[p] = b /\ n1[b] = h.next[p] /\ \A a \in L \ {p} : n1[a] = h.next[a]
    BY <1>11
  <2>4. Circle(n1, L \cup {b})
    <3> HIDE DEF n1
    <3> QED BY <1>2, <1>4, <2>1, <2>2, <2>3, InsertCircle
  <2> QED BY <2>4
<1>13. Circle(n2, L2)
  <2>1. CASE upper
    <3>1. L1 \in SUBSET Int /\ b \in L1 /\ n1[b] # b /\ n2[b] = n1[n1[b]]
      BY <1>3, <1>5, <1>8, <1>11, <2>1
    <3>2. \A a \in L1 \ {b, n1[b]} : n2[a] = n1[a]
      BY <1>11
    <3>3. Circle(n2, L1 \ {n1[b]})
      <4> HIDE DEF n1, n2, L1
      <4> QED BY <1>12, <3>1, <3>2, RemoveCircle
    <3> QED BY <2>1, <3>3, <1>11
  <2>2. CASE ~upper
    <3>1. \A a \in L1 : n2[a] = n1[a]
      BY <1>11, <2>2
    <3> HIDE DEF n1, n2
    <3> QED BY <1>12, <2>2, <3>1 DEF Circle
  <2> QED BY <2>1, <2>2
<1>14. Circle(n3, L3)
  <2>1. L2 \in SUBSET Int /\ p \in L2 /\ n2[p] # p /\ n3[p] = n2[n2[p]]
    <3>1. L2 \in SUBSET Int
      BY <1>3
    <3>2. p \in L2
      BY <1>4, <1>5, <1>8
    <3>3. n2[p] = b /\ n2[b] = bnext /\ n3[p] = bnext /\ b # p
      BY <1>5, <1>11
    <3> HIDE DEF n2, n3, L2, bnext
    <3> QED BY <3>1, <3>2, <3>3
  <2>2. \A a \in L2 \ {p, n2[p]} : n3[a] = n2[a]
    BY <1>11
  <2>3. Circle(n3, L2 \ {n2[p]})
    <3> HIDE DEF n3, n2, L2
    <3> QED BY <1>13, <2>1, <2>2, RemoveCircle
  <2> QED BY <2>3, <1>11
<1> DEFINE S2 == IF upper THEN S \ {up} ELSE S
           S3 == S2 \ {b}
<1>15. /\ s2[b] = bsize /\ \A a \in Headers(B) \ {b} : s2[a] = h.size[a]
       /\ s3[p] = h.size[p] + bsize /\ \A a \in Headers(B) \ {b, p} : s3[a] = h.size[a]
       /\ s3[b] = bsize
  <2>1. b \in Headers(B) /\ p \in Headers(B) /\ p # b
    BY <1>2, <1>3, <1>4, <1>5
  <2> HIDE DEF bsize
  <2> QED BY <1>2, <2>1
<1>16. S \subseteq Headers(B)
  BY <1>3
<1>17. Apart(S2, s2, pos) /\ Covered(S2, s2, pos) /\ bsize \in 0 .. PoolSize
  <2>1. CASE upper
    <3>1. /\ up \in S /\ s2[b] = h.size[b] + h.size[up]
          /\ \A s \in S \ {b, up} : s2[s] = h.size[s]
          /\ \A s \in S : h.size[s] \in Int
      BY <2>1, <1>7, <1>8, <1>15, <1>16
    <3>2. Apart(S \ {up}, s2, pos) /\ Covered(S \ {up}, s2, pos) /\ s2[b] \in 0 .. PoolSize
      <4>1. /\ b + h.size[b] = up /\ b \in S
            /\ pos \in 0 .. PoolSize /\ Apart(S, h.size, pos) /\ Covered(S, h.size, pos)
        BY <2>1, <1>2, <1>3
      <4> HIDE DEF S, s2, up, upper
      <4> QED BY <4>1, <3>1, Merge
    <3> QED BY <2>1, <3>2, <1>15
  <2>2. CASE ~upper
    <3>1. \A s \in S : s2[s] = h.size[s]
      BY <2>2, <1>15, <1>16
    <3>2. S2 = S /\ bsize = h.size[b]
      BY <2>2
    <3>3. h.size[b] \in 0 .. PoolSize
      BY <1>3, <1>7
    <3> HIDE DEF S, s2, S2, bsize
    <3> QED BY <1>2, <3>1, <3>2, <3>3 DEF Apart, Covered
  <2> QED BY <2>1, <2>2
<1>18. ASSUME lower
       PROVE  Apart(S3, s3, pos) /\ Covered(S3, s3, pos) /\ s3[p] \in 0 .. PoolSize
  <2>1. p \in S2 /\ b \in S2 /\ s2[p] = h.size[p]
    BY <1>3, <1>5, <1>8, <1>10, <1>15, <1>16, <1>18
  <2>2. p + s2[p] = b /\ s3[p] = s2[p] + s2[b]
    BY <2>1, <1>15, <1>18
  <2>3. \A s \in S2 \ {p, b} : s3[s] = s2[s]
    BY <1>15, <1>16
  <2>4. \A s \in S2 : s2[s] \in Int
    <3>1. bsize \in Int
      BY <1>17
    <3> HIDE DEF bsize, s2
    <3> QED BY <3>1, <1>7, <1>15, <1>16
  <2>5. pos \in 0 .. PoolSize /\ Apart(S2, s2, pos) /\ Covered(S2, s2, pos)
    BY <1>2, <1>17
  <2> HIDE DEF S2, s2, s3
  <2> QED BY <2>1, <2>2, <2>3, <2>4, <2>5, Merge
<1>19. CASE lower
  <2>1. /\ g.next = n3 /\ g.size = s3 /\ g.freep = p
        /\ g = [next |-> g.next, size |-> g.size, freep |-> g.freep]
    BY <1>1, <1>19
  <2>2. s3 \in [Headers(B) -> 0 .. PoolSize]
    <3>1. s3[p] \in 0 .. PoolSize /\ s3[b] \in 0 .. PoolSize
      BY <1>15, <1>17, <1>18, <1>19
    <3>2. s3 = [a \in Headers(B) |-> s3[a]]
      BY <1>2
    <3> HIDE DEF s3, bsize
    <3>3. \A a \in Headers(B) : s3[a] \in 0 .. PoolSize
      BY <3>1, <1>7, <1>15
    <3> QED BY <3>2, <3>3
  <2>3. ListOK(B, g, L3)
    <3>1. L3 \subseteq Headers(B) /\ B \in L3 /\ p \in L3 /\ p \in Headers(B)
      BY <1>2, <1>3, <1>4, <1>5, <1>8
    <3> HIDE DEF n3, s3, L3
    <3> QED BY <2>1, <2>2, <3>1, <1>11, <1>14 DEF ListOK
  <2>4. s3[B] = 0 /\ L3 \cap (O \ {b}) = {}
    BY <1>2, <1>3, <1>10, <1>15, <1>19
  <2>5. (L3 \ {B}) \cup (O \ {b}) = S3
    <3>1. up \in L /\ up \notin O /\ b \notin L /\ b \in O /\ b # B /\ b # up
      BY <1>2, <1>3, <1>5
    <3> HIDE DEF up, upper
    <3>2. CASE upper
      BY <3>1, <3>2
    <3>3. CASE ~upper
      BY <3>1, <3>3
    <3> QED BY <3>2, <3>3
  <2>6. ASSUME NEW a \in L3 \ {B}, NEW c \in L3 \ {B} PROVE a + s3[a] # c
    <3>1. /\ a \in L \ {B} /\ c \in L \ {B} /\ a # b /\ c # b /\ a \in Int /\ c \in Int
          /\ a \in S /\ c \in S /\ a \in Headers(B)
      BY <1>2, <1>3, <1>16
    <3>2. CASE a = p
      <4>1. CASE upper
        <5>1. a + s3[a] = up + h.size[up]
          <6>1. h.size[p] \in Int /\ h.size[b] \in Int /\ h.size[up] \in Int
            BY <1>3, <1>7, <1>8, <1>10, <1>19, <4>1
          <6>2. bsize = h.size[b] + h.size[up] /\ b + h.size[b] = up /\ p + h.size[p] = b
            BY <4>1, <1>19
          <6>3. s3[p] = h.size[p] + bsize
            BY <1>15
          <6>4. p \in Int /\ b \in Int /\ up \in Int
            BY <1>3, <1>5
          <6> HIDE DEF up, bsize, s3, upper, lower
          <6>5. a + s3[a] = p + (h.size[p] + (h.size[b] + h.size[up]))
            BY <6>2, <6>3, <3>2
          <6> QED BY <6>1, <6>2, <6>4, <6>5
        <5> QED BY <5>1, <4>1, <1>2, <1>5, <1>8, <3>1
      <4>2. CASE ~upper
        <5>1. a + s3[a] = b + h.size[b]
          BY <3>1, <3>2, <4>2, <1>7, <1>15, <1>19, <1>3
        <5> QED BY <5>1, <4>2, <1>6, <3>1
      <4> QED BY <4>1, <4>2
    <3>3. CASE a # p
      <4>1. s3[a] = h.size[a]
        BY <1>15, <3>1, <3>3
      <4> QED BY <4>1, <3>1, <1>2
    <3> QED BY <3>2, <3>3
  <2>7. \A c \in O \ {b} : s3[c] = h.size[c]
    BY <1>2, <1>4, <1>15, <1>16
  <2>8. p \in L3 /\ s3[p] >= h.size[b]
    <3>1. s3[p] = h.size[p] + bsize /\ h.size[p] \in Int /\ h.size[p] >= 1
      BY <1>7, <1>10, <1>15, <1>19
    <3>2. bsize \in Int /\ h.size[b] \in Int /\ bsize >= h.size[b]
      BY <1>9
    <3>3. p \in L3
      BY <1>4, <1>5, <1>8
    <3> HIDE DEF bsize, s3
    <3> QED BY <3>1, <3>2, <3>3
  <2>9. HeapOK(B, g, L3, O \ {b}, pos)
    <3>1. Apart(S3, s3, pos) /\ Covered(S3, s3, pos)
      BY <1>18, <1>19
    <3> HIDE DEF n3, s3, L3, S3
    <3> QED BY <2>1, <2>3, <2>4, <2>5, <2>6, <3>1, <1>2 DEF HeapOK
  <2> HIDE DEF s3, L3
  <2> QED BY <2>1, <2>7, <2>8, <2>9
<1>20. CASE ~lower
  <2>1. /\ g.next = n2 /\ g.size = s2 /\ g.freep = p
        /\ g = [next |-> g.next, size |-> g.size, freep |-> g.freep]
    BY <1>1, <1>20
  <2>2. s2 \in [Headers(B) -> 0 .. PoolSize]
    <3>1. s2 = [a \in Headers(B) |-> s2[a]]
      BY <1>2
    <3> HIDE DEF s2, bsize
    <3> QED BY <3>1, <1>7, <1>15, <1>17
  <2>3. ListOK(B, g, L2)
    <3>1. L2 \subseteq Headers(B) /\ B \in L2 /\ p \in L2 /\ p \in Headers(B)
      BY <1>2, <1>3, <1>4, <1>5, <1>8
    <3> HIDE DEF n2, s2, L2
    <3> QED BY <2>1, <2>2, <3>1, <1>11, <1>13 DEF ListOK
  <2>4. s2[B] = 0 /\ L2 \cap (O \ {b}) = {}
    BY <1>2, <1>3, <1>15
  <2>5. (L2 \ {B}) \cup (O \ {b}) = S2
    <3>1. up \in L /\ up \notin O /\ b \notin L /\ b \in O /\ b # B /\ b # up
      BY <1>2, <1>3, <1>5
    <3> HIDE DEF up, upper
    <3>2. CASE upper
      BY <3>1, <3>2
    <3>3. CASE ~upper
      BY <3>1, <3>3
    <3> QED BY <3>2, <3>3
  <2>6. ASSUME NEW a \in L2 \ {B}, NEW c \in L2 \ {B} PROVE a + s2[a] # c
    <3>1. /\ a \in (L \ {B}) \cup {b} /\ c \in (L \ {B}) \cup {b} /\ a \in Int /\ c \in Int
          /\ a \in S /\ c \in S /\ a \in Headers(B)
      BY <1>2, <1>3, <1>16
    <3>2. CASE a = b
      <4>1. CASE upper
        <5>1. a + s2[a] = up + h.size[up] /\ up + h.size[up] > b
          <6>1. h.size[b] \in Int /\ h.size[up] \in Int /\ h.size[up] >= 1 /\ up > b
            BY <1>3, <1>7, <1>8, <4>1
          <6>2. bsize = h.size[b] + h.size[up] /\ b + h.size[b] = up
            BY <4>1
          <6>3. s2[b] = bsize
            BY <1>15
          <6>4. b \in Int /\ up \in Int
            BY <1>3, <1>5
          <6> HIDE DEF up, bsize, s2, upper, lower
          <6>5. a + s2[a] = b + (h.size[b] + h.size[up])
            BY <6>2, <6>3, <3>2
          <6> QED BY <6>1, <6>2, <6>4, <6>5
        <5>2. CASE c = b
          <6> HIDE DEF up, s2
          <6> QED BY <5>1, <5>2, <1>3
        <5>3. CASE c # b
          <6>1. c \in L \ {B} /\ up \in L \ {B}
            BY <5>3, <3>1, <4>1, <1>5, <1>8
          <6> HIDE DEF up, s2
          <6> QED BY <5>1, <6>1, <1>2
        <5> QED BY <5>2, <5>3
      <4>2. CASE ~upper
        <5>1. a + s2[a] = b + h.size[b] /\ b + h.size[b] > b
          BY <3>1, <3>2, <4>2, <1>7, <1>15, <1>3
        <5>2. c # b => c \in L \ {B}
          BY <3>1
        <5> QED BY <5>1, <5>2, <4>2, <1>6, <3>1, <1>3
      <4> QED BY <4>1, <4>2
    <3>3. CASE a # b
      <4>1. s2[a] = h.size[a] /\ a \in L \ {B}
        BY <1>15, <3>1, <3>3
      <4>2. CASE c = b
        BY <4>1, <4>2, <1>6, <1>20
      <4>3. CASE c # b
        BY <4>1, <4>3, <3>1, <1>2
      <4> QED BY <4>2, <4>3
    <3> QED BY <3>2, <3>3
  <2>7. \A c \in O \ {b} : s2[c] = h.size[c]
    BY <1>15, <1>16
  <2>8. b \in L2 /\ s2[b] >= h.size[b]
    <3>1. bsize \in Int /\ h.size[b] \in Int /\ bsize >= h.size[b]
      BY <1>9
    <3>2. b \in L2 /\ s2[b] = bsize
      BY <1>5, <1>15
    <3> HIDE DEF bsize, s2
    <3> QED BY <3>1, <3>2
  <2>9. HeapOK(B, g, L2, O \ {b}, pos)
    <3> HIDE DEF n2, s2, L2, S2
    <3> QED BY <2>1, <2>3, <2>4, <2>5, <2>6, <1>2, <1>17 DEF HeapOK
  <2> HIDE DEF s2, L2
  <2> QED BY <2>1, <2>7, <2>8, <2>9
<1> QED BY <1>19, <1>20

-----------------------------------------------------------------------------
(* s16mem_alloc *)

(* A request is at least two headers and the pool below the greatest word. *)
LEMMA RoomInWord ==
  ASSUME NEW nbytes \in Sizes
  PROVE  /\ HeaderSize \in Nat /\ HeaderSize >= 1 /\ WordSize \in Nat /\ nbytes \in Nat
         /\ PoolSize * HeaderSize \in Nat
         /\ nbytes <= WordSize - HeaderSize
         /\ nbytes + 2 * HeaderSize + PoolSize * HeaderSize <= WordSize
<1> DEFINE bytes == PoolSize * HeaderSize
<1>1. HeaderSize \in Nat /\ HeaderSize >= 1 /\ WordSize \in Nat /\ nbytes \in Nat /\ PoolSize \in Nat
  BY PoolAssumption
<1>2. bytes \in Nat
  BY <1>1
<1>3. nbytes + 2 * HeaderSize + bytes <= WordSize
  BY WordAssumption
<1> HIDE DEF bytes
<1>4. nbytes <= WordSize - HeaderSize
  BY <1>1, <1>2, <1>3
<1> QED BY <1>1, <1>2, <1>3, <1>4 DEF bytes

(* A request gets at least a header, and room for its bytes behind it. *)
LEMMA QuantasOK ==
  ASSUME NEW nbytes \in Sizes
  PROVE  /\ Quantas(nbytes) \in Nat \ {0}
         /\ nbytes \in Nat /\ nbytes <= (Quantas(nbytes) - 1) * HeaderSize
<1>1. /\ HeaderSize \in Nat /\ HeaderSize >= 1 /\ WordSize \in Nat /\ nbytes \in Nat
      /\ nbytes <= WordSize - HeaderSize
  BY RoomInWord
<1> DEFINE x == nbytes + HeaderSize - 1
<1>2. x \in Nat /\ x < WordSize
  BY <1>1
<1>3. x % WordSize = x
  <2> HIDE DEF x
  <2> QED BY <1>1, <1>2
<1>4. Quantas(nbytes) = (x \div HeaderSize) + 1
  BY <1>3 DEF Quantas
<1>5. x \div HeaderSize \in Nat /\ x < (x \div HeaderSize) * HeaderSize + HeaderSize
  <2> HIDE DEF x
  <2> QED BY <1>1, <1>2
<1> DEFINE d == x \div HeaderSize
           e == d * HeaderSize
<1>6. d \in Nat /\ e \in Nat /\ x < e + HeaderSize
  <2>1. d \in Nat /\ x < e + HeaderSize
    BY <1>5
  <2> HIDE DEF d
  <2> QED BY <2>1, <1>1
<1>7. nbytes <= e
  <2> HIDE DEF e
  <2> QED BY <1>1, <1>6
<1>8. Quantas(nbytes) - 1 = d /\ Quantas(nbytes) \in Nat \ {0}
  <2>1. Quantas(nbytes) = d + 1
    BY <1>4
  <2> HIDE DEF d
  <2> QED BY <2>1, <1>6
<1> QED BY <1>1, <1>7, <1>8

(* The sums of get_mem_from_pool are below the greatest word, so that it makes
   no difference that the model has them in quanta and the code in bytes. *)
LEMMA SumsFit ==
  ASSUME NEW nbytes \in Sizes, NEW pos \in 0 .. PoolSize
  PROVE  pos * HeaderSize + Chunk(Quantas(nbytes)) * HeaderSize < WordSize
<1> DEFINE x == nbytes + HeaderSize - 1
           d == x \div HeaderSize
<1>1. /\ HeaderSize \in Nat /\ HeaderSize >= 1 /\ WordSize \in Nat /\ nbytes \in Nat
      /\ PoolSize * HeaderSize \in Nat
      /\ nbytes <= WordSize - HeaderSize
      /\ nbytes + 2 * HeaderSize + PoolSize * HeaderSize <= WordSize
  BY RoomInWord
<1>2. x \in Nat /\ x % WordSize = x
  <2>1. x \in Nat /\ x < WordSize
    BY <1>1
  <2> HIDE DEF x
  <2> QED BY <1>1, <2>1
<1>3. Quantas(nbytes) = d + 1
  BY <1>2 DEF Quantas
<1>4. d \in Nat /\ d * HeaderSize <= x
  <2> HIDE DEF x
  <2> QED BY <1>1, <1>2
<1>5. pos * HeaderSize \in Nat /\ pos * HeaderSize <= PoolSize * HeaderSize
  BY <1>1, PoolAssumption
<1>6. MinQuantas * HeaderSize \in Nat /\ PoolSize * HeaderSize + MinQuantas * HeaderSize < WordSize
  BY <1>1, PoolAssumption, WordAssumption
<1>7. CASE Quantas(nbytes) < MinQuantas
  <2>1. Chunk(Quantas(nbytes)) = MinQuantas
    BY <1>7 DEF Chunk
  <2> QED BY <1>1, <1>5, <1>6, <2>1
<1>8. CASE ~(Quantas(nbytes) < MinQuantas)
  <2>1. Chunk(Quantas(nbytes)) = d + 1
    BY <1>3, <1>8 DEF Chunk
  <2> HIDE DEF d
  <2>2. (d + 1) * HeaderSize = d * HeaderSize + HeaderSize /\ d * HeaderSize \in Nat
    BY <1>1, <1>4
  <2> QED BY <1>1, <1>4, <1>5, <2>1, <2>2
<1> QED BY <1>7, <1>8

(* The search of s16mem_alloc finds a block if one on the list is long
   enough. *)
LEMMA FitsFound ==
  ASSUME NEW B \in Bases, NEW h, NEW L, ListOK(B, h, L), NEW n \in Nat
  PROVE  /\ Fits(h, n) \in SUBSET (1 .. PoolSize + 1)
         /\ \A k \in Fits(h, n) : h.size[At(h)[k]] >= n
         /\ \A a \in L : h.size[a] >= n => Fits(h, n) # {}
<1> DEFINE e == Least({k \in DOMAIN At(h) : k > 0 /\ At(h)[k] = h.freep})
<1>1. e \in 1 .. PoolSize + 1 /\ {At(h)[k] : k \in 1 .. e} = L
  BY Walk
<1>2. Fits(h, n) = {k \in 1 .. e : h.size[At(h)[k]] >= n}
  BY DEF Fits
<1> HIDE DEF e
<1>3. 1 .. e \subseteq 1 .. PoolSize + 1
  BY <1>1, PoolAssumption
<1>4. ASSUME NEW a \in L, h.size[a] >= n PROVE Fits(h, n) # {}
  <2>1. PICK k \in 1 .. e : a = At(h)[k]
    BY <1>1
  <2> QED BY <2>1, <1>2, <1>4
<1> QED BY <1>2, <1>3, <1>4

(* What Take hands out leaves the list or is cut off one of its blocks, has
   the length that was asked for, and overlaps nothing. *)
LEMMA TakeOK ==
  ASSUME NEW B \in Bases, NEW h, NEW L, NEW O, NEW pos, HeapOK(B, h, L, O, pos),
         NEW n \in Nat \ {0}, Fits(h, n) # {}, NEW t, t = Take(h, n)
  PROVE  /\ t.block \in Pool \ O
         /\ t.list.size[t.block] = n
         /\ \A c \in O : t.list.size[c] = h.size[c]
         /\ \E M : HeapOK(B, t.list, M, O \cup {t.block}, pos)
<1> DEFINE k == Least(Fits(h, n))
           p == At(h)[k]
           prev == At(h)[k - 1]
           cut == p + h.size[p] - n
           S == (L \ {B}) \cup O
           ne == [h.next EXCEPT ![prev] = h.next[p]]
           sc == [h.size EXCEPT ![p] = @ - n, ![cut] = n]
<1>1. /\ h \in [next : [Headers(B) -> Headers(B) \cup {NULL}],
                size : [Headers(B) -> 0 .. PoolSize], freep : Headers(B)]
      /\ ListOK(B, h, L)
      /\ h.next \in [Headers(B) -> Headers(B) \cup {NULL}]
      /\ h.size \in [Headers(B) -> 0 .. PoolSize]
      /\ L \subseteq Headers(B) /\ B \in L /\ Circle(h.next, L)
      /\ h.size[B] = 0 /\ L \cap O = {} /\ pos \in 0 .. PoolSize
      /\ Apart(S, h.size, pos) /\ Covered(S, h.size, pos)
      /\ \A a, c \in L \ {B} : a + h.size[a] # c
  BY DEF HeapOK, ListOK
<1>2. /\ PoolSize \in Nat /\ B \in Int /\ B \notin Pool /\ L \subseteq Int
      /\ S \subseteq Pool /\ Pool \subseteq Int /\ Headers(B) = Pool \cup {B}
  BY <1>1, HeaderCount, PoolAssumption DEF Apart, Headers
<1>3. k \in 1 .. PoolSize + 1 /\ h.size[p] >= n
  <2>1. Fits(h, n) \in SUBSET (1 .. PoolSize + 1) /\ \A j \in Fits(h, n) : h.size[At(h)[j]] >= n
    BY <1>1, FitsFound
  <2>2. Fits(h, n) \in SUBSET Nat
    BY <2>1, <1>2
  <2>3. k \in Fits(h, n)
    BY <2>2, LeastIn
  <2> QED BY <2>1, <2>3
<1>4. p \in L /\ prev \in L /\ p = h.next[prev]
  <2> HIDE DEF k
  <2>1. k \in 0 .. PoolSize + 1 /\ k - 1 \in 0 .. PoolSize + 1
    BY <1>2, <1>3
  <2> QED BY <1>1, <1>3, <2>1, AtValues
<1>5. t = IF h.size[p] = n
          THEN [block |-> p, list |-> [next |-> ne, size |-> h.size, freep |-> prev]]
          ELSE [block |-> cut, list |-> [next |-> h.next, size |-> sc, freep |-> prev]]
  BY DEF Take
<1> HIDE DEF k, p, prev
<1>6. p # B /\ p \in S /\ p \in Pool /\ p \in Headers(B) /\ prev \in Headers(B)
  BY <1>1, <1>2, <1>3, <1>4
<1>7. prev # p
  <2>1. SUFFICES ASSUME prev = p PROVE FALSE
    OBVIOUS
  <2>2. p \in Int /\ h.next[p] = p
    BY <2>1, <1>2, <1>4
  <2>3. B = p
    <3>1. h.next[p] <= B /\ B <= p
      BY <1>1, <1>4, <2>2, Order
    <3> QED BY <3>1, <2>2, <1>2
  <2> QED BY <2>3, <1>6
<1>8. /\ \A s \in S : h.size[s] \in Int
      /\ \A a \in Headers(B) : h.size[a] \in 0 .. PoolSize
  <2>1. \A a \in Headers(B) : h.size[a] \in 0 .. PoolSize
    BY <1>1
  <2>2. \A s \in S : h.size[s] \in 0 .. PoolSize
    <3>1. S \subseteq Headers(B)
      BY <1>2
    <3> HIDE DEF S
    <3> QED BY <2>1, <3>1
  <2> HIDE DEF S
  <2> QED BY <2>1, <2>2
<1>9. CASE h.size[p] = n
  <2> DEFINE g == [next |-> ne, size |-> h.size, freep |-> prev]
             M == L \ {p}
  <2>1. t.block = p /\ t.list = g
    BY <1>5, <1>9
  <2>2. /\ g.next = ne /\ g.size = h.size /\ g.freep = prev
        /\ g = [next |-> ne, size |-> h.size, freep |-> prev]
    OBVIOUS
  <2> HIDE DEF g
  <2>3. /\ ne[prev] = h.next[h.next[prev]]
        /\ \A a \in L \ {prev, h.next[prev]} : ne[a] = h.next[a]
        /\ ne \in [Headers(B) -> Headers(B) \cup {NULL}]
    <3>1. h.next[p] \in Headers(B)
      BY <1>1, <1>4 DEF Circle
    <3> QED BY <3>1, <1>1, <1>4, <1>6
  <2>4. Circle(ne, M)
    <3>1. L \in SUBSET Int /\ h.next[prev] # prev /\ h.next[prev] = p
      BY <1>2, <1>4, <1>7
    <3>2. Circle(ne, L \ {h.next[prev]})
      <4> HIDE DEF ne
      <4> QED BY <3>1, <2>3, <1>1, <1>4, RemoveCircle
    <3> QED BY <3>1, <3>2
  <2>5. ListOK(B, g, M)
    <3>1. M \subseteq Headers(B) /\ B \in M /\ prev \in M
      BY <1>1, <1>4, <1>6, <1>7
    <3> HIDE DEF ne, M
    <3> QED BY <2>2, <2>3, <2>4, <3>1, <1>1, <1>6 DEF ListOK
  <2>6. (M \ {B}) \cup (O \cup {p}) = S /\ M \cap (O \cup {p}) = {} /\ p \notin O
    BY <1>1, <1>4, <1>6
  <2>7. HeapOK(B, g, M, O \cup {p}, pos)
    <3>1. \A a, c \in M \ {B} : a + h.size[a] # c
      BY <1>1
    <3> HIDE DEF M, S
    <3> QED BY <2>2, <2>5, <2>6, <3>1, <1>1 DEF HeapOK
  <2> QED BY <2>1, <2>2, <2>6, <2>7, <1>6, <1>9
<1>10. CASE h.size[p] # n
  <2> DEFINE g == [next |-> h.next, size |-> sc, freep |-> prev]
  <2>1. t.block = cut /\ t.list = g
    BY <1>5, <1>10
  <2>2. /\ g.next = h.next /\ g.size = sc /\ g.freep = prev
        /\ g = [next |-> h.next, size |-> sc, freep |-> prev]
    OBVIOUS
  <2> HIDE DEF g
  <2>3. h.size[p] \in Int /\ n \in Int /\ 1 <= n /\ n < h.size[p] /\ p \in Int /\ h.size[p] <= PoolSize
    BY <1>2, <1>3, <1>6, <1>8, <1>10
  <2>4. cut \in Pool /\ cut > p
    <3>1. p + h.size[p] <= pos
      BY <1>1, <1>6 DEF Apart
    <3>2. p >= 0 /\ pos \in Int /\ pos <= PoolSize
      BY <1>1, <1>2, <1>6 DEF Pool
    <3> QED BY <3>1, <3>2, <2>3, <1>2 DEF Pool
  <2>5. /\ cut \in Headers(B) /\ cut # p
        /\ sc[p] = h.size[p] - n /\ sc[cut] = n
        /\ \A a \in Headers(B) \ {p, cut} : sc[a] = h.size[a]
        /\ sc \in [Headers(B) -> 0 .. PoolSize]
    <3>1. cut \in Headers(B) /\ cut # p
      BY <2>3, <2>4, <1>2
    <3>2. h.size[p] - n \in 0 .. PoolSize /\ n \in 0 .. PoolSize
      BY <2>3, <1>2
    <3> HIDE DEF cut
    <3> QED BY <3>1, <3>2, <1>1, <1>6
  <2>6. Apart(S \cup {cut}, sc, pos) /\ Covered(S \cup {cut}, sc, pos) /\ cut \notin S
    <3>1. cut \notin S
      <4>1. \A b, c \in S : b < c => b + h.size[b] <= c
        BY <1>1 DEF Apart
      <4>2. cut < p + h.size[p] /\ cut \in Int
        BY <2>3
      <4> HIDE DEF S
      <4> QED BY <4>1, <4>2, <2>3, <2>4, <1>6
    <3>2. \A s \in S \ {p} : sc[s] = h.size[s]
      BY <3>1, <2>5, <1>2
    <3>3. /\ cut \in Int /\ p \in S /\ pos \in 0 .. PoolSize
          /\ Apart(S, h.size, pos) /\ Covered(S, h.size, pos)
          /\ \A s \in S : h.size[s] \in Int
      BY <2>3, <1>1, <1>6, <1>8
    <3>4. /\ sc[p] \in Int /\ sc[cut] \in Int /\ sc[p] >= 1 /\ sc[cut] >= 1
          /\ p + sc[p] = cut /\ cut + sc[cut] = p + h.size[p]
      <4>1. sc[p] = h.size[p] - n /\ sc[cut] = n
        BY <2>5
      <4> HIDE DEF sc
      <4> QED BY <4>1, <2>3
    <3> HIDE DEF S, sc, cut
    <3> QED BY <3>2, <3>3, <3>4, Split
  <2>7. ListOK(B, g, L)
    <3> HIDE DEF sc
    <3> QED BY <2>2, <2>5, <1>1, <1>4, <1>6 DEF ListOK
  <2>8. /\ (L \ {B}) \cup (O \cup {cut}) = S \cup {cut}
        /\ cut # B /\ cut \notin O /\ cut \notin L
    <3>1. cut # B
      BY <2>4, <1>2
    <3> HIDE DEF cut
    <3> QED BY <3>1, <2>6
  <2>9. ASSUME NEW a \in L \ {B}, NEW c \in L \ {B} PROVE a + sc[a] # c
    <3>1. a \in Headers(B) /\ a # cut
      BY <2>8, <1>1
    <3>2. CASE a = p
      <4>1. a + sc[a] = cut
        <5>1. a + sc[a] = p + (h.size[p] - n)
          BY <3>2, <2>5
        <5> HIDE DEF sc
        <5> QED BY <5>1, <2>3
      <4> HIDE DEF cut, sc
      <4> QED BY <4>1, <2>8
    <3>3. CASE a # p
      <4>1. sc[a] = h.size[a]
        BY <3>1, <3>3, <2>5
      <4> HIDE DEF sc
      <4> QED BY <4>1, <1>1
    <3> QED BY <3>2, <3>3
  <2>10. \A c \in O : sc[c] = h.size[c]
    <3>1. \A c \in O : c \in Headers(B) \ {p, cut}
      BY <2>8, <1>1, <1>2, <1>4
    <3> QED BY <3>1, <2>5
  <2>11. HeapOK(B, g, L, O \cup {cut}, pos)
    <3>1. sc[B] = 0
      BY <2>5, <2>8, <1>1, <1>2, <1>6
    <3>2. L \cap (O \cup {cut}) = {}
      BY <2>8, <1>1
    <3> HIDE DEF S, sc, cut
    <3> QED BY <2>2, <2>6, <2>7, <2>8, <2>9, <3>1, <3>2, <1>1 DEF HeapOK
  <2> HIDE DEF cut, sc
  <2> QED BY <2>1, <2>2, <2>4, <2>5, <2>8, <2>10, <2>11
<1> QED BY <1>9, <1>10

-----------------------------------------------------------------------------
(* The steps. *)

(* What a call leaves of the list is what the next call finds. *)
LEMMA SetListOK ==
  ASSUME NEW h, NEW L, NEW O, NEW pos, base \in Bases, HeapOK(base, h, L, O, pos),
         SetList(h), base' = base, DOMAIN owned' = O
  PROVE  /\ HeapOK(base', Now', FreeSet', O, pos)
         /\ freep' # NULL
         /\ \A b \in O : size'[b] = h.size[b]
<1>1. /\ ListOK(base, h, L)
      /\ h.next \in [Headers(base) -> Headers(base) \cup {NULL}]
      /\ h.size \in [Headers(base) -> 0 .. PoolSize]
      /\ L \subseteq Headers(base) /\ base \in L /\ Circle(h.next, L)
      /\ h.freep \in L
      /\ h.size[base] = 0 /\ L \cap O = {} /\ pos \in 0 .. PoolSize
      /\ Apart((L \ {base}) \cup O, h.size, pos) /\ Covered((L \ {base}) \cup O, h.size, pos)
      /\ \A a, c \in L \ {base} : a + h.size[a] # c
  BY DEF HeapOK, ListOK
<1>2. NULL \notin Headers(base) /\ Header = Headers(base) /\ Header' = Headers(base)
  BY HeaderCount DEF Header, Headers
<1>3. LinkedIn(h) = L
  BY <1>1, LinkedAll
<1>4. O \subseteq Headers(base) /\ (L \ {base}) \cup O \subseteq L \cup O
  BY <1>1 DEF Apart, Headers
<1>5. /\ next' = [a \in Headers(base) |-> IF a \in L THEN h.next[a] ELSE NULL]
      /\ size' = [a \in Headers(base) |-> IF a \in L \cup O THEN h.size[a] ELSE 0]
      /\ freep' = h.freep
  BY <1>2, <1>3 DEF SetList
<1>6. /\ next' \in [Headers(base) -> Headers(base) \cup {NULL}]
      /\ \A a \in L : next'[a] = h.next[a]
      /\ FreeSet' = L
  <2>1. \A a \in L : next'[a] = h.next[a] /\ h.next[a] \in L /\ h.next[a] \in Headers(base)
    BY <1>1, <1>5 DEF Circle
  <2>2. \A a \in Headers(base) \ L : next'[a] = NULL
    BY <1>5
  <2>3. FreeSet' = {a \in Headers(base) : next'[a] # NULL}
    BY <1>2 DEF FreeSet
  <2>4. FreeSet' = L
    BY <2>1, <2>2, <2>3, <1>1, <1>2
  <2> QED BY <2>1, <2>2, <2>4, <1>5
<1>7. /\ size' \in [Headers(base) -> 0 .. PoolSize]
      /\ \A a \in L \cup O : size'[a] = h.size[a]
  <2>1. \A a \in Headers(base) : h.size[a] \in 0 .. PoolSize
    BY <1>1
  <2>2. 0 \in 0 .. PoolSize
    BY PoolAssumption
  <2> QED BY <2>1, <2>2, <1>1, <1>4, <1>5
<1>8. /\ Now'.next = next' /\ Now'.size = size' /\ Now'.freep = freep'
      /\ Now' = [next |-> next', size |-> size', freep |-> freep']
  BY DEF Now
<1>9. Circle(next', L)
  BY <1>1, <1>6 DEF Circle
<1>10. ListOK(base, Now', L)
  <2>1. Now' \in [next : [Headers(base) -> Headers(base) \cup {NULL}],
                  size : [Headers(base) -> 0 .. PoolSize], freep : Headers(base)]
    BY <1>1, <1>5, <1>6, <1>7, <1>8
  <2> QED BY <2>1, <1>1, <1>5, <1>8, <1>9 DEF ListOK
<1> DEFINE S == (L \ {base}) \cup O
<1>11. Apart(S, size', pos) /\ Covered(S, size', pos)
  <2>1. \A s \in S : size'[s] = h.size[s]
    BY <1>7
  <2>2. Apart(S, h.size, pos) /\ Covered(S, h.size, pos)
    BY <1>1
  <2> HIDE DEF S
  <2> QED BY <2>1, <2>2 DEF Apart, Covered
<1>12. \A a, c \in L \ {base} : a + size'[a] # c
  BY <1>1, <1>7
<1>13. size'[base] = 0
  BY <1>1, <1>7
<1>14. HeapOK(base, Now', L, O, pos)
  BY <1>1, <1>8, <1>10, <1>11, <1>12, <1>13 DEF HeapOK
<1>15. freep' # NULL /\ \A b \in O : size'[b] = h.size[b]
  BY <1>1, <1>2, <1>5, <1>7
<1> QED BY <1>6, <1>14, <1>15

(* Every call finds a list that is in order; the first one makes it. *)
LEMMA ListFound ==
  ASSUME Inv
  PROVE  /\ \E L : HeapOK(base, List, L, DOMAIN owned, pool_free_pos)
         /\ \A b \in DOMAIN owned : List.size[b] = size[b]
<1>1. CASE freep = NULL
  <2> DEFINE nx == [next EXCEPT ![base] = base]
             sz == [size EXCEPT ![base] = 0]
             L == {base}
  <2>1. /\ next = [a \in Header |-> NULL] /\ size = [a \in Header |-> 0]
        /\ pool_free_pos = 0 /\ DOMAIN owned = {} /\ base \in Bases
    BY <1>1 DEF Inv
  <2>2. Header = Headers(base) /\ base \in Headers(base) /\ PoolSize \in Nat /\ base \in Int
    BY <2>1, PoolAssumption DEF Header, Headers
  <2>3. List = [next |-> nx, size |-> sz, freep |-> base]
    BY <1>1 DEF List
  <2>4. /\ nx \in [Headers(base) -> Headers(base) \cup {NULL}]
        /\ sz \in [Headers(base) -> 0 .. PoolSize]
        /\ nx[base] = base /\ sz[base] = 0
    BY <2>1, <2>2
  <2>5. Circle(nx, L)
    BY <2>2, <2>4 DEF Circle
  <2>6. ListOK(base, List, L)
    <3> HIDE DEF nx, sz
    <3> QED BY <2>2, <2>3, <2>4, <2>5 DEF ListOK
  <2>7. Apart((L \ {base}) \cup {}, sz, 0) /\ Covered((L \ {base}) \cup {}, sz, 0)
    <3>1. (L \ {base}) \cup {} = {}
      OBVIOUS
    <3>2. \A q \in Pool : ~(q < 0)
      BY <2>2 DEF Pool
    <3> QED BY <3>1, <3>2 DEF Apart, Covered
  <2>8. HeapOK(base, List, L, {}, 0)
    <3>1. 0 \in 0 .. PoolSize
      BY <2>2
    <3> HIDE DEF nx, sz
    <3> QED BY <2>3, <2>4, <2>6, <2>7, <3>1 DEF HeapOK
  <2> QED BY <2>1, <2>8
<1>2. CASE freep # NULL
  <2>1. HeapOK(base, Now, FreeSet, DOMAIN owned, pool_free_pos)
    BY <1>2 DEF Inv
  <2>2. List = Now
    BY <1>2 DEF List, Now
  <2>3. Now.size = size
    BY DEF Now
  <2> QED BY <2>1, <2>2, <2>3
<1> QED BY <1>1, <1>2

\* What a successful request does to the blocks in use.
Gives(nbytes) ==
  \E b \in Pool \ DOMAIN owned :
    /\ DOMAIN owned' = DOMAIN owned \cup {b}
    /\ owned'[b] = nbytes /\ size'[b] = Quantas(nbytes)
    /\ \A c \in DOMAIN owned : owned'[c] = owned[c] /\ size'[c] = size[c]

(* s16mem_alloc of a list with a block that is long enough. *)
LEMMA HandOK ==
  ASSUME Inv, NEW nbytes \in Sizes, NEW h, NEW L, NEW pos,
         HeapOK(base, h, L, DOMAIN owned, pos), Fits(h, Quantas(nbytes)) # {},
         \A b \in DOMAIN owned : h.size[b] = size[b],
         Hand(h, nbytes), base' = base, exited' = exited, pool_free_pos' = pos
  PROVE  Inv' /\ Gives(nbytes)
<1> DEFINE n == Quantas(nbytes)
           t == Take(h, n)
<1>1. n \in Nat \ {0} /\ base \in Bases
  BY QuantasOK DEF Inv
<1>2. /\ t.block \in Pool \ DOMAIN owned
      /\ t.list.size[t.block] = n
      /\ \A c \in DOMAIN owned : t.list.size[c] = h.size[c]
      /\ \E M : HeapOK(base, t.list, M, DOMAIN owned \cup {t.block}, pos)
  <2> HIDE DEF n
  <2> QED BY <1>1, TakeOK DEF n
<1>3. PICK M : HeapOK(base, t.list, M, DOMAIN owned \cup {t.block}, pos)
  BY <1>2
<1>4. /\ owned' = [b \in DOMAIN owned \cup {t.block} |-> IF b = t.block THEN nbytes ELSE owned[b]]
      /\ SetList(t.list)
  BY DEF Hand
<1> HIDE DEF t
<1>5. /\ DOMAIN owned' = DOMAIN owned \cup {t.block}
      /\ owned'[t.block] = nbytes
      /\ \A c \in DOMAIN owned : owned'[c] = owned[c]
  BY <1>2, <1>4
<1>6. /\ HeapOK(base', Now', FreeSet', DOMAIN owned', pos)
      /\ freep' # NULL
      /\ \A b \in DOMAIN owned' : size'[b] = t.list.size[b]
  BY <1>1, <1>3, <1>4, <1>5, SetListOK
<1>7. Gives(nbytes)
  <2>1. size'[t.block] = Quantas(nbytes)
    BY <1>2, <1>5, <1>6
  <2>2. \A c \in DOMAIN owned : size'[c] = size[c]
    BY <1>2, <1>5, <1>6
  <2> QED BY <1>2, <1>5, <2>1, <2>2 DEF Gives
<1>8. Inv'
  <2>1. \A b \in DOMAIN owned' : owned'[b] \in Sizes /\ size'[b] = Quantas(owned'[b])
    BY <1>2, <1>5, <1>6 DEF Inv
  <2>2. base' \in Bases /\ exited' \in BOOLEAN
    BY DEF Inv
  <2> QED BY <1>6, <2>1, <2>2 DEF Inv
<1> QED BY <1>7, <1>8

(* A request that the list can serve. *)
LEMMA FromListOK ==
  ASSUME Inv, NEW nbytes \in Sizes, AllocFromList(nbytes)
  PROVE  Inv' /\ Gives(nbytes)
<1>1. PICK L : HeapOK(base, List, L, DOMAIN owned, pool_free_pos)
  BY ListFound
<1>2. \A b \in DOMAIN owned : List.size[b] = size[b]
  BY ListFound
<1>3. /\ Fits(List, Quantas(nbytes)) # {} /\ Hand(List, nbytes)
      /\ base' = base /\ exited' = exited /\ pool_free_pos' = pool_free_pos
  BY DEF AllocFromList
<1> QED BY <1>1, <1>2, <1>3, HandOK

(* A request for which a fresh part of the pool is linked in first: the search
   that goes on finds it. *)
LEMMA FromPoolOK ==
  ASSUME Inv, NEW nbytes \in Sizes, AllocFromPool(nbytes)
  PROVE  Inv' /\ Gives(nbytes)
<1> DEFINE n == Quantas(nbytes)
           q == pool_free_pos
           ch == Chunk(n)
           O == DOMAIN owned
           h0 == List
           sz == [h0.size EXCEPT ![q] = ch]
           h == [next |-> h0.next, size |-> sz, freep |-> h0.freep]
           g == s16mem_free(h, q)
<1>1. PICK L : HeapOK(base, h0, L, O, q)
  BY ListFound
<1>2. \A b \in O : h0.size[b] = size[b]
  BY ListFound
<1>3. /\ q + ch <= PoolSize /\ base' = base /\ exited' = exited /\ pool_free_pos' = q + ch
      /\ Hand(g, nbytes)
  BY DEF AllocFromPool, get_mem_from_pool
<1> HIDE DEF h0
<1>4. n \in Nat \ {0} /\ ch \in Nat \ {0} /\ ch >= n /\ base \in Bases
  <2>1. n \in Nat \ {0} /\ base \in Bases
    BY QuantasOK DEF Inv
  <2> HIDE DEF n
  <2> QED BY <2>1, PoolAssumption DEF Chunk
<1> HIDE DEF n, ch
<1> DEFINE S == (L \ {base}) \cup O
<1>5. /\ ListOK(base, h0, L)
      /\ h0 \in [next : [Headers(base) -> Headers(base) \cup {NULL}],
                 size : [Headers(base) -> 0 .. PoolSize], freep : Headers(base)]
      /\ h0.next \in [Headers(base) -> Headers(base) \cup {NULL}]
      /\ h0.size \in [Headers(base) -> 0 .. PoolSize] /\ h0.freep \in Headers(base)
      /\ L \subseteq Headers(base) /\ base \in L /\ Circle(h0.next, L) /\ h0.freep \in L
      /\ h0.size[base] = 0 /\ L \cap O = {} /\ q \in 0 .. PoolSize
      /\ Apart(S, h0.size, q) /\ Covered(S, h0.size, q)
      /\ \A a, c \in L \ {base} : a + h0.size[a] # c
  BY <1>1 DEF HeapOK, ListOK
<1>6. /\ PoolSize \in Nat /\ q \in Int /\ q >= 0 /\ q \in Pool /\ base \notin Pool
      /\ q + ch \in 0 .. PoolSize /\ ch \in 0 .. PoolSize /\ ch \in Int
      /\ Headers(base) = Pool \cup {base} /\ Pool \subseteq Int
  BY <1>3, <1>4, <1>5, PoolAssumption, HeaderCount DEF Pool, Headers
<1>7. /\ \A s \in S : /\ h0.size[s] \in Int /\ s \in Int /\ s \in Pool
                      /\ h0.size[s] >= 1 /\ s + h0.size[s] <= q
      /\ \A s, t \in S : s < t => s + h0.size[s] <= t
  <2>1. \A a \in Headers(base) : h0.size[a] \in 0 .. PoolSize
    BY <1>5
  <2> HIDE DEF S
  <2> QED BY <2>1, <1>5, <1>6 DEF Apart
<1>8. q \notin S /\ \A s \in S : s < q
  <2> HIDE DEF S
  <2> QED BY <1>6, <1>7
<1>9. /\ sz[q] = ch /\ \A a \in Headers(base) \ {q} : sz[a] = h0.size[a]
      /\ sz \in [Headers(base) -> 0 .. PoolSize]
  BY <1>5, <1>6
<1>10. h.next = h0.next /\ h.size = sz /\ h.freep = h0.freep
  OBVIOUS
<1>11. ListOK(base, h, L)
  <2> HIDE DEF sz
  <2> QED BY <1>5, <1>9 DEF ListOK
<1>12. q \notin L /\ q # base
  BY <1>6, <1>8
<1>13. HeapOK(base, h, L, O \cup {q}, q + ch)
  <2>1. (L \ {base}) \cup (O \cup {q}) = S \cup {q} /\ L \cap (O \cup {q}) = {}
    BY <1>5, <1>12
  <2>2. \A s \in S : sz[s] = h0.size[s]
    <3>1. \A s \in S : s \in Headers(base) \ {q}
      <4> HIDE DEF S
      <4> QED BY <1>6, <1>7, <1>8
    <3> HIDE DEF S, sz
    <3> QED BY <3>1, <1>9
  <2>3. Apart(S \cup {q}, sz, q + ch)
    <3>1. ASSUME NEW b \in S \cup {q} PROVE b \in Pool /\ sz[b] >= 1 /\ b + sz[b] <= q + ch
      <4>1. CASE b = q
        <5> HIDE DEF sz
        <5> QED BY <4>1, <1>4, <1>6, <1>9
      <4>2. CASE b \in S
        <5> HIDE DEF sz, S
        <5> QED BY <4>2, <1>4, <1>6, <1>7, <2>2
      <4> QED BY <4>1, <4>2
    <3>2. ASSUME NEW b \in S \cup {q}, NEW c \in S \cup {q}, b < c PROVE b + sz[b] <= c
      <4> HIDE DEF sz, S
      <4>1. CASE b = q
        BY <4>1, <3>2, <1>6, <1>7, <1>8
      <4>2. CASE b \in S
        BY <4>2, <3>2, <1>6, <1>7, <1>8, <2>2
      <4> QED BY <4>1, <4>2
    <3> HIDE DEF S, sz
    <3> QED BY <3>1, <3>2 DEF Apart
  <2>4. Covered(S \cup {q}, sz, q + ch)
    <3>1. SUFFICES ASSUME NEW r \in Pool, r < q + ch
                   PROVE  \E b \in S \cup {q} : b <= r /\ r < b + sz[b]
      BY DEF Covered
    <3>2. r \in Int
      BY <1>6
    <3>3. CASE r < q
      <4>1. PICK b \in S : b <= r /\ r < b + h0.size[b]
        <5> HIDE DEF S
        <5> QED BY <3>3, <1>5 DEF Covered
      <4> HIDE DEF S, sz
      <4> QED BY <4>1, <2>2
    <3>4. CASE ~(r < q)
      <4>1. q <= r /\ r < q + sz[q]
        <5> HIDE DEF sz
        <5> QED BY <3>1, <3>2, <3>4, <1>6, <1>9
      <4> QED BY <4>1
    <3> QED BY <3>3, <3>4
  <2>5. \A a, c \in L \ {base} : a + sz[a] # c
    <3>1. \A a \in L \ {base} : sz[a] = h0.size[a]
      BY <2>2
    <3> HIDE DEF sz
    <3> QED BY <3>1, <1>5
  <2>6. sz[base] = 0
    BY <1>5, <1>9, <1>12
  <2> HIDE DEF sz, S, h
  <2> QED BY <2>1, <2>3, <2>4, <2>5, <2>6, <1>6, <1>10, <1>11 DEF HeapOK
<1>14. PICK M : /\ HeapOK(base, g, M, (O \cup {q}) \ {q}, q + ch)
                /\ \A c \in (O \cup {q}) \ {q} : g.size[c] = h.size[c]
                /\ \E a \in M : g.size[a] >= h.size[q]
  <2>1. Released(base, h, O \cup {q}, q + ch, q, g)
    <3>1. q \in O \cup {q}
      OBVIOUS
    <3> HIDE DEF h
    <3> QED BY <3>1, <1>4, <1>13, ReleaseOK
  <2> HIDE DEF g, h
  <2> QED BY <2>1 DEF Released
<1>15. (O \cup {q}) \ {q} = O
  BY <1>8
<1>16. \A b \in O : g.size[b] = size[b]
  <2>1. \A b \in O : h.size[b] = h0.size[b]
    BY <1>5, <1>6, <1>7, <1>8, <1>9, <1>10
  <2> HIDE DEF h, g
  <2> QED BY <2>1, <1>2, <1>14, <1>15
<1>17. Fits(g, n) # {}
  <2>1. PICK a \in M : g.size[a] >= h.size[q]
    BY <1>14
  <2>2. ListOK(base, g, M) /\ h.size[q] = ch
    BY <1>9, <1>14 DEF HeapOK
  <2>3. g.size[a] \in Int
    <3>1. g.size \in [Headers(base) -> 0 .. PoolSize] /\ a \in Headers(base)
      <4> HIDE DEF g
      <4> QED BY <2>2 DEF ListOK
    <3> HIDE DEF g
    <3> QED BY <3>1, <1>6
  <2>4. g.size[a] >= n
    <3> HIDE DEF g, h
    <3> QED BY <2>1, <2>2, <2>3, <1>4, <1>6
  <2> HIDE DEF g
  <2> QED BY <2>2, <2>4, <1>4, FitsFound
<1>18. HeapOK(base, g, M, O, q + ch)
  BY <1>14, <1>15
<1> HIDE DEF g
<1> QED BY <1>3, <1>16, <1>17, <1>18, HandOK DEF n

(* A request that ends the process. *)
LEMMA FailsOK ==
  ASSUME Inv, NEW nbytes \in Sizes, AllocFails(nbytes)
  PROVE  /\ Inv'
         /\ owned' = owned /\ \A c \in DOMAIN owned : size'[c] = size[c]
<1>1. PICK L : HeapOK(base, List, L, DOMAIN owned, pool_free_pos)
  BY ListFound
<1>2. \A b \in DOMAIN owned : List.size[b] = size[b]
  BY ListFound
<1>3. /\ base' = base /\ exited' = TRUE /\ pool_free_pos' = pool_free_pos
      /\ owned' = owned /\ SetList(List)
  BY DEF AllocFails
<1>4. base \in Bases
  BY DEF Inv
<1>5. /\ HeapOK(base', Now', FreeSet', DOMAIN owned', pool_free_pos')
      /\ freep' # NULL
      /\ \A b \in DOMAIN owned : size'[b] = List.size[b]
  BY <1>1, <1>3, <1>4, SetListOK
<1> QED BY <1>2, <1>3, <1>4, <1>5 DEF Inv

(* A block that is given back. *)
LEMMA FreeOK ==
  ASSUME Inv, NEW b \in DOMAIN owned, Free(b)
  PROVE  /\ Inv'
         /\ DOMAIN owned' = DOMAIN owned \ {b}
         /\ \A c \in DOMAIN owned' : owned'[c] = owned[c] /\ size'[c] = size[c]
<1>1. PICK L : HeapOK(base, List, L, DOMAIN owned, pool_free_pos)
  BY ListFound
<1>2. \A c \in DOMAIN owned : List.size[c] = size[c]
  BY ListFound
<1>3. /\ base' = base /\ exited' = exited /\ pool_free_pos' = pool_free_pos
      /\ owned' = [c \in DOMAIN owned \ {b} |-> owned[c]]
      /\ SetList(s16mem_free(List, b))
  BY DEF Free
<1>4. base \in Bases
  BY DEF Inv
<1> DEFINE g == s16mem_free(List, b)
<1>5. PICK M : /\ HeapOK(base, g, M, DOMAIN owned \ {b}, pool_free_pos)
               /\ \A c \in DOMAIN owned \ {b} : g.size[c] = List.size[c]
  <2>1. Released(base, List, DOMAIN owned, pool_free_pos, b, g)
    BY <1>1, <1>4, ReleaseOK
  <2> HIDE DEF g
  <2> QED BY <2>1 DEF Released
<1>6. DOMAIN owned' = DOMAIN owned \ {b} /\ \A c \in DOMAIN owned' : owned'[c] = owned[c]
  BY <1>3
<1> HIDE DEF g
<1>7. /\ HeapOK(base', Now', FreeSet', DOMAIN owned', pool_free_pos')
      /\ freep' # NULL
      /\ \A c \in DOMAIN owned' : size'[c] = g.size[c]
  BY <1>3, <1>4, <1>5, <1>6, SetListOK DEF g
<1>8. \A c \in DOMAIN owned' : size'[c] = size[c] /\ c \in DOMAIN owned
  BY <1>2, <1>5, <1>6, <1>7
<1>9. \A c \in DOMAIN owned' : owned'[c] \in Sizes /\ size'[c] = Quantas(owned'[c])
  BY <1>6, <1>8 DEF Inv
<1>10. base' \in Bases /\ exited' \in BOOLEAN
  BY <1>3 DEF Inv
<1> QED BY <1>6, <1>7, <1>8, <1>9, <1>10 DEF Inv

(* The invariant holds in every state. *)
THEOREM InvHolds == Spec => []Inv
<1>1. Init => Inv
  BY DEF Init, Inv
<1>2. Inv /\ [Next]_vars => Inv'
  <2>1. ASSUME Inv, Next PROVE Inv'
    BY <2>1, FromListOK, FromPoolOK, FailsOK, FreeOK DEF Next
  <2>2. ASSUME Inv, UNCHANGED vars PROVE Inv'
    BY <2>2 DEF Inv, vars, Now, FreeSet, Header, Pool
  <2> QED BY <2>1, <2>2
<1> QED BY <1>1, <1>2, PTL DEF Spec

-----------------------------------------------------------------------------
(* The theorems. *)

\* What HeapOK says of the blocks, in the terms of the properties: F are the
\* headers on the list, O the blocks in use, sz their lengths.
Facts(B, sz, F, O, pos) ==
  LET live == (F \ {B}) \cup O IN
  /\ PoolSize \in Nat /\ B \in Int /\ B \notin 0 .. PoolSize /\ B \in F
  /\ F \subseteq Int /\ F \cap O = {}
  /\ pos \in 0 .. PoolSize
  /\ live \subseteq Pool
  /\ \A b \in live : /\ sz[b] \in Int /\ b \in Int /\ b >= 0
                     /\ sz[b] >= 1 /\ b + sz[b] <= pos
  /\ \A b, c \in live : b < c => b + sz[b] <= c
  /\ \A q \in Pool : q < pos => \E b \in live : b <= q /\ q < b + sz[b]
  /\ \A a, c \in F \ {B} : a + sz[a] # c

(* It does say so. *)
LEMMA HeapFacts ==
  ASSUME NEW B \in Bases, NEW h, NEW L, NEW O, NEW pos, HeapOK(B, h, L, O, pos)
  PROVE  Facts(B, h.size, L, O, pos)
<1> DEFINE live == (L \ {B}) \cup O
<1>1. /\ PoolSize \in Nat /\ B \in Int /\ B \notin 0 .. PoolSize
      /\ Pool \subseteq Int /\ \A a \in Pool : a >= 0
  BY PoolAssumption DEF Pool
<1>2. L \subseteq Int /\ B \in L /\ h.size \in [Headers(B) -> 0 .. PoolSize]
  BY HeaderCount DEF HeapOK, ListOK
<1>3. /\ L \cap O = {} /\ pos \in 0 .. PoolSize
      /\ Apart(live, h.size, pos) /\ Covered(live, h.size, pos)
      /\ \A a, c \in L \ {B} : a + h.size[a] # c
  BY DEF HeapOK
<1>4. \A b \in live : h.size[b] \in Int /\ b \in Int /\ b >= 0 /\ b \in Pool
  <2> HIDE DEF live
  <2>1. live \subseteq Pool /\ live \subseteq Headers(B)
    BY <1>3 DEF Apart, Headers
  <2>2. ASSUME NEW b \in live
        PROVE  h.size[b] \in Int /\ b \in Int /\ b >= 0 /\ b \in Pool
    <3>1. b \in Pool /\ b \in Headers(B)
      BY <2>1
    <3>2. h.size[b] \in 0 .. PoolSize
      BY <3>1, <1>2
    <3> QED BY <3>1, <3>2, <1>1
  <2> QED BY <2>2
<1>5. /\ live \subseteq Pool
      /\ \A b \in live : h.size[b] >= 1 /\ b + h.size[b] <= pos
      /\ \A b, c \in live : b < c => b + h.size[b] <= c
  <2> HIDE DEF live
  <2> QED BY <1>3 DEF Apart
<1>6. \A q \in Pool : q < pos => \E b \in live : b <= q /\ q < b + h.size[b]
  <2> HIDE DEF live
  <2> QED BY <1>3 DEF Covered
<1> QED BY <1>1, <1>2, <1>3, <1>4, <1>5, <1>6 DEF Facts

(* The headers that a walk finds are the ones with a link. *)
LEMMA LinkedIs ==
  ASSUME Inv
  PROVE  /\ freep = NULL => Linked = {}
         /\ freep # NULL => /\ HeapOK(base, Now, FreeSet, DOMAIN owned, pool_free_pos)
                            /\ Facts(base, size, FreeSet, DOMAIN owned, pool_free_pos)
                            /\ Linked = FreeSet
<1>1. Linked = LinkedIn(Now) /\ Now.freep = freep /\ Now.size = size
  BY DEF Linked, Now
<1>2. CASE freep = NULL
  BY <1>1, <1>2 DEF LinkedIn
<1>3. CASE freep # NULL
  <2>1. HeapOK(base, Now, FreeSet, DOMAIN owned, pool_free_pos) /\ base \in Bases
    BY <1>3 DEF Inv
  <2>2. LinkedIn(Now) = FreeSet
    BY <2>1, LinkedAll DEF HeapOK
  <2>3. Facts(base, Now.size, FreeSet, DOMAIN owned, pool_free_pos)
    BY <2>1, HeapFacts
  <2> QED BY <1>1, <1>3, <2>1, <2>2, <2>3
<1> QED BY <1>2, <1>3

(* The types: no size or position leaves the pool. *)
THEOREM PoolTypes == Spec => []TypeOK
<1>1. ASSUME Inv PROVE TypeOK
  <2>1. CASE freep = NULL
    <3>1. 0 \in 0 .. PoolSize
      BY PoolAssumption
    <3> QED BY <1>1, <2>1, <3>1 DEF Inv, TypeOK, Header
  <2>2. CASE freep # NULL
    <3>1. /\ Now \in [next : [Headers(base) -> Headers(base) \cup {NULL}],
                      size : [Headers(base) -> 0 .. PoolSize], freep : Headers(base)]
          /\ pool_free_pos \in 0 .. PoolSize
      BY <1>1, <2>2 DEF Inv, HeapOK, ListOK
    <3>2. /\ next \in [Headers(base) -> Headers(base) \cup {NULL}]
          /\ size \in [Headers(base) -> 0 .. PoolSize] /\ freep \in Headers(base)
      BY <3>1 DEF Now
    <3>3. DOMAIN owned \subseteq Pool
      BY <1>1, <2>2, LinkedIs DEF Facts
    <3>4. Header = Headers(base)
      BY DEF Header, Headers
    <3> QED BY <1>1, <3>1, <3>2, <3>3, <3>4 DEF Inv, TypeOK
  <2> QED BY <2>1, <2>2
<1> QED BY <1>1, InvHolds, PTL

(* No sequence of requests and releases loses a quantum, has it in two blocks
   or leaves a block in use on the list. *)
THEOREM NothingLost == Spec => []Tiled
<1>1. ASSUME Inv PROVE Tiled
  <2> DEFINE live == (Linked \ {base}) \cup DOMAIN owned
             In(q) == {b \in live : q \in Quanta(b)}
  <2>1. CASE freep = NULL
    <3>1. Linked = {} /\ DOMAIN owned = {} /\ pool_free_pos = 0
      BY <1>1, <2>1, LinkedIs DEF Inv
    <3>2. \A q \in Pool : ~(q < pool_free_pos) /\ In(q) = {}
      BY <3>1, PoolAssumption DEF Pool
    <3>3. \A q \in Pool : Cardinality(In(q)) = 0
      <4> HIDE DEF In
      <4> QED BY <3>2, FS_EmptySet
    <3> HIDE DEF In
    <3> QED BY <3>1, <3>2, <3>3 DEF Tiled, In
  <2>2. CASE freep # NULL
    <3>1. Linked = FreeSet /\ Facts(base, size, FreeSet, DOMAIN owned, pool_free_pos)
      BY <1>1, <2>2, LinkedIs
    <3>2. /\ \A b \in live : /\ size[b] \in Int /\ b \in Int
                             /\ size[b] >= 1 /\ b + size[b] <= pool_free_pos
          /\ \A b, c \in live : b < c => b + size[b] <= c
          /\ \A q \in Pool : q < pool_free_pos => \E b \in live : b <= q /\ q < b + size[b]
          /\ pool_free_pos \in Int /\ Linked \cap DOMAIN owned = {}
          /\ Pool \subseteq Int
      BY <3>1 DEF Facts, Pool
    <3>3. ASSUME NEW q \in Pool
          PROVE  Cardinality(In(q)) = IF q < pool_free_pos THEN 1 ELSE 0
      <4> HIDE DEF live
      <4>1. q \in Int /\ In(q) = {b \in live : b <= q /\ q < b + size[b]}
        BY <3>2 DEF Quanta
      <4>2. CASE q < pool_free_pos
        <5>1. PICK b \in live : b <= q /\ q < b + size[b]
          BY <3>2, <4>2
        <5>2. ASSUME NEW c \in live, c <= q, q < c + size[c] PROVE c = b
          BY <3>2, <4>1, <5>1, <5>2
        <5>3. In(q) = {b}
          BY <4>1, <5>1, <5>2
        <5>4. Cardinality({b}) = 1
          BY FS_Singleton
        <5> QED BY <4>2, <5>3, <5>4
      <4>3. CASE ~(q < pool_free_pos)
        <5>1. In(q) = {}
          BY <3>2, <4>1, <4>3
        <5> QED BY <4>3, <5>1, FS_EmptySet
      <4> QED BY <4>2, <4>3
    <3> HIDE DEF In
    <3> QED BY <3>2, <3>3 DEF Tiled, In
  <2> QED BY <2>1, <2>2
<1> QED BY <1>1, InvHolds, PTL

(* The list has base on it, one link that leads down, and no two blocks that
   touch: every loop over it ends, and memory does not fall to pieces. *)
THEOREM ListInOrder == Spec => []Ordered
<1>1. ASSUME Inv PROVE Ordered
  <2>1. CASE freep = NULL
    BY <1>1, <2>1, LinkedIs DEF Ordered
  <2>2. CASE freep # NULL
    <3> DEFINE L == FreeSet
               Down == {a \in L : next[a] <= a}
    <3>1. /\ Linked = L /\ Facts(base, size, L, DOMAIN owned, pool_free_pos)
          /\ HeapOK(base, Now, L, DOMAIN owned, pool_free_pos) /\ base \in Bases
      BY <1>1, <2>2, LinkedIs DEF Inv
    <3>2. ListOK(base, Now, L) /\ Now.next = next
      BY <3>1 DEF HeapOK, Now
    <3> HIDE DEF L
    <3>3. \A a, c \in L : /\ a \in Int /\ c \in Int /\ next[a] \in L /\ next[a] \in Int
                          /\ a < next[a] => c <= a \/ next[a] <= c
                          /\ next[a] <= a => next[a] <= c /\ c <= a
      BY <3>1, <3>2, Order
    <3>4. PICK M \in Int : \A a \in L : a <= M
      BY <3>1, <3>2, HeaderCount DEF ListOK
    <3>5. PICK m \in L : \A a \in L : a <= m
      <4>1. L \in SUBSET Int /\ L # {}
        BY <3>2, <3>3 DEF ListOK
      <4> QED BY <4>1, <3>4, GreatestExists
    <3>6. Down = {m}
      BY <3>3, <3>5
    <3>7. Cardinality({m}) = 1
      BY FS_Singleton
    <3>8. base \in L
      BY <3>2 DEF ListOK
    <3>9. ASSUME NEW a \in L \ {base} PROVE a + size[a] # next[a] \/ next[a] = base
      <4>1. \A c \in L \ {base} : a + size[a] # c
        BY <3>1 DEF Facts
      <4> QED BY <4>1, <3>3
    <3>10. Cardinality({a \in Linked : next[a] <= a}) = 1
      BY <3>1, <3>6, <3>7
    <3> QED BY <3>1, <3>8, <3>9, <3>10 DEF Ordered
  <2> QED BY <2>1, <2>2
<1> QED BY <1>1, InvHolds, PTL

(* The process gives up at a request only when no gap between the blocks in use
   is long enough for it: gaps are whole, since no two blocks of the list touch, and the search
   has seen them all. *)
THEOREM GivesUp == Spec => GivesUpOnlyWhenFull
<1> DEFINE P == \A nbytes \in Sizes : AllocFails(nbytes) =>
       /\ \/ pool_free_pos + Quantas(nbytes) > PoolSize
          \/ pool_free_pos + MinQuantas > PoolSize
       /\ \A at \in 0 .. pool_free_pos - Quantas(nbytes) :
            \E b \in DOMAIN owned : (at .. at + Quantas(nbytes) - 1) \cap Quanta(b) # {}
<1>1. ASSUME Inv, NEW nbytes \in Sizes, AllocFails(nbytes)
      PROVE  /\ \/ pool_free_pos + Quantas(nbytes) > PoolSize
                \/ pool_free_pos + MinQuantas > PoolSize
             /\ \A at \in 0 .. pool_free_pos - Quantas(nbytes) :
                  \E b \in DOMAIN owned : (at .. at + Quantas(nbytes) - 1) \cap Quanta(b) # {}
  <2> DEFINE n == Quantas(nbytes)
  <2>1. n \in Nat \ {0}
    BY QuantasOK
  <2>2. Fits(List, n) = {} /\ pool_free_pos + Chunk(n) > PoolSize
    BY <1>1 DEF AllocFails
  <2> HIDE DEF n
  <2>3. \/ pool_free_pos + n > PoolSize
        \/ pool_free_pos + MinQuantas > PoolSize
    BY <2>2 DEF Chunk
  <2>4. ASSUME NEW at \in 0 .. pool_free_pos - n,
               \A b \in DOMAIN owned : (at .. at + n - 1) \cap Quanta(b) = {}
        PROVE  FALSE
    <3>1. freep # NULL
      <4>1. SUFFICES ASSUME freep = NULL PROVE FALSE
        OBVIOUS
      <4>2. pool_free_pos = 0
        BY <1>1, <4>1 DEF Inv
      <4> QED BY <4>2, <2>1, <2>4
    <3>2. /\ Facts(base, size, FreeSet, DOMAIN owned, pool_free_pos)
          /\ List = Now /\ ListOK(base, Now, FreeSet) /\ base \in Bases
      BY <1>1, <3>1, LinkedIs DEF List, Now, HeapOK, Inv
    <3> DEFINE live == (FreeSet \ {base}) \cup DOMAIN owned
               pos == pool_free_pos
    <3>3. /\ PoolSize \in Nat /\ pos \in Int /\ pos <= PoolSize
          /\ \A b \in live : /\ size[b] \in Int /\ b \in Int
                             /\ size[b] >= 1 /\ b + size[b] <= pos
          /\ \A b, c \in live : b < c => b + size[b] <= c
          /\ \A q \in Pool : q < pos => \E b \in live : b <= q /\ q < b + size[b]
          /\ \A a, c \in FreeSet \ {base} : a + size[a] # c
      BY <3>2 DEF Facts
    <3>4. \A a \in FreeSet \ {base} : size[a] < n
      <4>1. \A a \in FreeSet : ~(size[a] >= n)
        <5>1. Now.size = size
          BY DEF Now
        <5> QED BY <5>1, <3>2, <2>1, <2>2, FitsFound
      <4> QED BY <4>1, <3>3, <2>1
    <3>5. at \in Int /\ 0 <= at /\ at + n <= pos /\ n \in Int /\ n >= 1
      BY <2>1, <3>3
    <3>6. ASSUME NEW q \in Int, at <= q, q < at + n
          PROVE  \E b \in FreeSet \ {base} : b <= q /\ q < b + size[b]
      <4>1. q \in Pool /\ q < pos
        BY <3>3, <3>5, <3>6 DEF Pool
      <4>2. PICK b \in live : b <= q /\ q < b + size[b]
        <5> HIDE DEF live
        <5> QED BY <3>3, <4>1
      <4>3. b \notin DOMAIN owned
        <5>1. SUFFICES ASSUME b \in DOMAIN owned PROVE FALSE
          OBVIOUS
        <5>2. q \in at .. at + n - 1
          BY <3>5, <3>6
        <5>3. q \in Quanta(b)
          BY <3>3, <3>6, <4>2 DEF Quanta
        <5> QED BY <5>1, <5>2, <5>3, <2>4
      <4> QED BY <4>2, <4>3
    <3>7. PICK f \in FreeSet \ {base} : f <= at /\ at < f + size[f]
      BY <3>5, <3>6
    <3> DEFINE q == f + size[f]
    <3>8. /\ q \in Int /\ at <= q /\ q < at + n /\ f \in Int /\ f < q /\ f \in live
          /\ size[f] \in Int
      BY <3>3, <3>4, <3>5, <3>7
    <3>9. PICK c \in FreeSet \ {base} : c <= q /\ q < c + size[c]
      <4> HIDE DEF q
      <4> QED BY <3>6, <3>8
    <3>10. c = q
      <4>1. c \in live /\ c \in Int /\ size[c] \in Int
        BY <3>3
      <4>2. (f < c => q <= c) /\ (c < f => c + size[c] <= f)
        BY <3>3, <3>8, <4>1
      <4>3. c # f
        BY <3>9, <3>8
      <4> HIDE DEF q, live
      <4> QED BY <4>1, <4>2, <4>3, <3>8, <3>9
    <3> QED BY <3>3, <3>7, <3>9, <3>10
  <2> QED BY <2>3, <2>4 DEF n
<1>2. ASSUME Inv PROVE [P]_vars
  BY <1>1, <1>2
<1>3. Spec => [][P]_vars
  <2> HIDE DEF P
  <2> QED BY <1>2, InvHolds, PTL DEF Spec
<1> QED BY <1>3 DEF GivesUpOnlyWhenFull

\* A block in use, as Allocator sees it.
Block(b) == [at |-> b, len |-> size[b], bytes |-> owned[b]]

(* Every step of the pool is a step of the abstract allocator, or changes
   nothing that its callers can see. *)
LEMMA StepAllocates ==
  ASSUME Inv, [Next]_vars
  PROVE  [Pooled!Next]_(Pooled!vars)
<1> DEFINE blocks == {Block(b) : b \in DOMAIN owned}
<1>1. ASSUME NEW nbytes \in Sizes, Inv', Gives(nbytes), ~exited, exited' = exited
      PROVE  Pooled!Alloc
  <2>1. PICK b \in Pool \ DOMAIN owned :
          /\ DOMAIN owned' = DOMAIN owned \cup {b}
          /\ owned'[b] = nbytes /\ size'[b] = Quantas(nbytes)
          /\ \A c \in DOMAIN owned : owned'[c] = owned[c] /\ size'[c] = size[c]
    BY <1>1 DEF Gives
  <2>2. freep' # NULL
    BY <1>1, <2>1 DEF Inv
  <2>3. Facts(base', size', FreeSet', DOMAIN owned', pool_free_pos')
    <3>1. HeapOK(base', Now', FreeSet', DOMAIN owned', pool_free_pos') /\ base' \in Bases
      BY <1>1, <2>2 DEF Inv
    <3>2. Now'.size = size'
      BY DEF Now
    <3>3. Facts(base', Now'.size, FreeSet', DOMAIN owned', pool_free_pos')
      BY <3>1, HeapFacts
    <3> QED BY <3>2, <3>3
  <2> DEFINE n == Quantas(nbytes)
             new == [at |-> b, len |-> n, bytes |-> nbytes]
  <2>4. /\ n \in Nat \ {0} /\ nbytes \in Nat /\ nbytes <= (n - 1) * HeaderSize
    BY QuantasOK
  <2> HIDE DEF n
  <2>5. /\ \A c \in DOMAIN owned' : /\ size'[c] \in Int /\ c \in Int /\ c >= 0
                                    /\ size'[c] >= 1 /\ c + size'[c] <= pool_free_pos'
        /\ \A c, d \in DOMAIN owned' : c < d => c + size'[c] <= d
        /\ pool_free_pos' \in 0 .. PoolSize /\ PoolSize \in Nat
    BY <2>3 DEF Facts
  <2>6. b + n <= PoolSize /\ b \in 0 .. PoolSize - 1 /\ n \in 1 .. PoolSize
    <3>1. b \in DOMAIN owned' /\ size'[b] = n
      BY <2>1 DEF n
    <3>2. b \in Int /\ b >= 0 /\ b + n <= pool_free_pos'
      BY <3>1, <2>5
    <3> QED BY <3>2, <2>4, <2>5
  <2>7. ASSUME NEW c \in DOMAIN owned
        PROVE  (b .. b + n - 1) \cap (c .. c + size[c] - 1) = {}
    <3>1. /\ c \in DOMAIN owned' /\ b \in DOMAIN owned' /\ size'[c] = size[c] /\ size'[b] = n
          /\ c # b
      BY <2>1 DEF n
    <3>2. /\ c \in Int /\ size[c] \in Int /\ b \in Int
          /\ c < b => c + size[c] <= b
          /\ b < c => b + n <= c
      BY <3>1, <2>5
    <3> QED BY <3>1, <3>2, <2>4
  <2>8. blocks' = blocks \cup {new}
    <3>2. [at |-> b, len |-> size'[b], bytes |-> owned'[b]] = new
      BY <2>1 DEF n
    <3>3. blocks' = {[at |-> c, len |-> size'[c], bytes |-> owned'[c]] : c \in DOMAIN owned'}
      BY DEF Block
    <3>4. \A c \in DOMAIN owned :
            [at |-> c, len |-> size'[c], bytes |-> owned'[c]] = Block(c)
      BY <2>1 DEF Block
    <3>5. blocks' = {[at |-> c, len |-> size'[c], bytes |-> owned'[c]] : c \in DOMAIN owned}
                      \cup {[at |-> b, len |-> size'[b], bytes |-> owned'[b]]}
      BY <2>1, <3>3
    <3>6. {[at |-> c, len |-> size'[c], bytes |-> owned'[c]] : c \in DOMAIN owned} = blocks
      BY <3>4
    <3> HIDE DEF new, blocks
    <3> QED BY <3>2, <3>5, <3>6
  <2>9. \A x \in blocks : (b .. b + n - 1) \cap (x.at .. x.at + x.len - 1) = {}
    <3>1. SUFFICES ASSUME NEW c \in DOMAIN owned
                   PROVE  (b .. b + n - 1) \cap (Block(c).at .. Block(c).at + Block(c).len - 1) = {}
      OBVIOUS
    <3>2. Block(c).at = c /\ Block(c).len = size[c]
      BY DEF Block
    <3> QED BY <2>7, <3>2
  <2>10. new.at = b /\ new.len = n
    OBVIOUS
  <2>11. blocks = {[at |-> c, len |-> size[c], bytes |-> owned[c]] : c \in DOMAIN owned}
    BY DEF Block
  <2>12. blocks' = {[at |-> c, len |-> size[c], bytes |-> owned[c]] : c \in DOMAIN owned}'
    BY DEF Block
  <2> HIDE DEF blocks
  <2> QED BY <1>1, <2>4, <2>6, <2>8, <2>9, <2>10, <2>11, <2>12 DEF Pooled!Alloc, Pooled!Span
<1>2. ASSUME NEW b \in DOMAIN owned, Free(b) PROVE Pooled!Free
  <2>1. /\ DOMAIN owned' = DOMAIN owned \ {b}
        /\ \A c \in DOMAIN owned' : owned'[c] = owned[c] /\ size'[c] = size[c]
    BY <1>2, FreeOK
  <2>2. blocks' = {[at |-> c, len |-> size'[c], bytes |-> owned'[c]] : c \in DOMAIN owned'}
    BY DEF Block
  <2>3. \A c \in DOMAIN owned \ {b} :
          [at |-> c, len |-> size'[c], bytes |-> owned'[c]] = Block(c)
    BY <2>1 DEF Block
  <2>4. \A c \in DOMAIN owned : Block(c) = Block(b) => c = b
    BY DEF Block
  <2>5. blocks' = blocks \ {Block(b)} /\ Block(b) \in blocks
    <3>1. blocks' = {Block(c) : c \in DOMAIN owned \ {b}}
      <4>1. blocks' = {[at |-> c, len |-> size'[c], bytes |-> owned'[c]] : c \in DOMAIN owned \ {b}}
        BY <2>1, <2>2
      <4> HIDE DEF blocks
      <4> QED BY <4>1, <2>3
    <3>2. {Block(c) : c \in DOMAIN owned \ {b}} = blocks \ {Block(b)}
      BY <2>4
    <3>3. Block(b) \in blocks
      OBVIOUS
    <3> HIDE DEF blocks
    <3> QED BY <3>1, <3>2, <3>3
  <2>6. blocks = {[at |-> c, len |-> size[c], bytes |-> owned[c]] : c \in DOMAIN owned}
    BY DEF Block
  <2>7. ~exited /\ exited' = exited
    BY <1>2 DEF Free
  <2> HIDE DEF blocks
  <2> QED BY <2>2, <2>5, <2>6, <2>7 DEF Pooled!Free
<1>3. ASSUME NEW nbytes \in Sizes, AllocFails(nbytes) PROVE Pooled!Fail
  <2>1. owned' = owned /\ \A c \in DOMAIN owned : size'[c] = size[c]
    BY <1>3, FailsOK
  <2>2. {[at |-> c, len |-> size[c], bytes |-> owned[c]] : c \in DOMAIN owned}'
          = {[at |-> c, len |-> size[c], bytes |-> owned[c]] : c \in DOMAIN owned}
    BY <2>1
  <2>3. ~exited /\ exited' = TRUE
    BY <1>3 DEF AllocFails
  <2> QED BY <2>2, <2>3 DEF Pooled!Fail
<1>4. ASSUME NEW nbytes \in Sizes, AllocFromList(nbytes) \/ AllocFromPool(nbytes)
      PROVE  Pooled!Alloc
  <2>1. Inv' /\ Gives(nbytes)
    BY <1>4, FromListOK, FromPoolOK
  <2>2. ~exited /\ exited' = exited
    BY <1>4 DEF AllocFromList, AllocFromPool
  <2> QED BY <2>1, <2>2, <1>1
<1>5. CASE UNCHANGED vars
  BY <1>5 DEF vars, Pooled!vars
<1>6. CASE Next
  BY <1>2, <1>3, <1>4, <1>6 DEF Next, Pooled!Next
<1> QED BY <1>5, <1>6

(* The pool is an allocator, for every size of it and every sequence of calls:
   what is handed out lies in the pool, has room for the bytes behind its
   header, overlaps no other block in use, and stays until it is given back. *)
THEOREM PoolImplements == Spec => ImplementsAllocator
<1>1. Init => Pooled!Init
  BY DEF Init, Pooled!Init
<1>2. Inv /\ [Next]_vars => [Pooled!Next]_(Pooled!vars)
  BY StepAllocates
<1> QED BY <1>1, <1>2, InvHolds, PTL DEF Spec, Pooled!Spec, ImplementsAllocator

=============================================================================
