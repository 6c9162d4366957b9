-------------------------- MODULE ConfigdDataProofs --------------------------
(***************************************************************************)
(* Proofs about what module Configd stores and hands out: through every    *)
(* copy and conversion, the services a client holds are those of the       *)
(* manifests.                                                              *)
(***************************************************************************)
EXTENDS ConfigdProofs, FiniteSetTheorems, WellFoundedInduction

-----------------------------------------------------------------------------
(* Objects, texts and paths. *)

\* The keys of two objects in one
LEMMA Objects ==
  ASSUME NEW f, NEW g, NEW x
  PROVE  /\ Has(f ++ g, x) <=> Has(f, x) \/ Has(g, x)
         /\ Has(f, x) => (f ++ g)[x] = f[x]
         /\ Has(g, x) /\ ~Has(f, x) => (f ++ g)[x] = g[x]
BY DEF Has, ++

\* An object with one key
LEMMA Entries ==
  ASSUME NEW x, NEW v, NEW y
  PROVE  /\ Has(Entry(x, v), y) <=> x = y
         /\ Entry(x, v)[x] = v
BY DEF Has, Entry

\* An object without keys
LEMMA NoKeys == \A x : ~Has(<<>>, x)
BY DEF Has

\* Short texts
LEMMA Texts ==
  ASSUME NEW a, NEW b, NEW c, NEW d
  PROVE  /\ Len(<<a>>) = 1 /\ Len(<<a, b>>) = 2 /\ Len(<<a, b, c>>) = 3 /\ Len(<<a, b, c, d>>) = 4
         /\ Head(<<a>>) = a /\ Head(<<a, b>>) = a /\ Head(<<a, b, c>>) = a /\ Head(<<a, b, c, d>>) = a
         /\ Tail(<<a, b>>) = <<b>> /\ Tail(<<a, b, c, d>>) = <<b, c, d>>
         /\ <<a, b, c>>[3] = c
<1>1. Len(<<a>>) = 1 /\ Len(<<a, b>>) = 2 /\ Len(<<a, b, c>>) = 3 /\ Len(<<a, b, c, d>>) = 4
  OBVIOUS
<1>2. Head(<<a>>) = a /\ Head(<<a, b>>) = a /\ Head(<<a, b, c>>) = a /\ Head(<<a, b, c, d>>) = a
  OBVIOUS
<1>3. Tail(<<a, b>>) = <<b>>
  OBVIOUS
<1>4. Tail(<<a, b, c, d>>) = <<b, c, d>> /\ <<a, b, c>>[3] = c
  OBVIOUS
<1> QED BY <1>1, <1>2, <1>3, <1>4

\* Short texts put together
LEMMA JoinedEmpty ==
  ASSUME NEW a, NEW b
  PROVE  /\ <<>> \o <<a>> = <<a>> /\ <<a>> \o <<>> = <<a>> /\ <<a>> \o <<b>> = <<a, b>>
         /\ <<a, b>> \o <<>> = <<a, b>>
<1> DEFINE S == {a, b}
<1>1. <<a>> \in Seq(S) /\ <<a, b>> \in Seq(S)
  OBVIOUS
<1>2. <<>> \o <<a>> = <<a>> /\ <<a>> \o <<>> = <<a>> /\ <<a, b>> \o <<>> = <<a, b>>
  BY <1>1, ConcatEmptySeq
<1>3. Append(<<a>>, b) = <<a>> \o <<b>>
  BY <1>1, AppendIsConcat
<1> QED BY <1>2, <1>3, Short

LEMMA JoinedThree ==
  ASSUME NEW a, NEW b, NEW c
  PROVE  <<a>> \o <<b, c>> = <<a, b, c>>
<1> DEFINE S == {a, b, c}
<1>1. <<a>> \in Seq(S) /\ <<b, c>> \in Seq(S)
  OBVIOUS
<1> HIDE DEF S
<1>2. PICK r : r = <<a>> \o <<b, c>>
  OBVIOUS
<1>3. r \in Seq(S) /\ Len(r) = 3 /\ r[1] = a /\ r[2] = b /\ r[3] = c
  BY <1>1, <1>2, ConcatProperties
<1>4. r \in [1 .. 3 -> S]
  BY <1>3, LenProperties
<1>5. r = <<a, b, c>>
  BY <1>3, <1>4
<1> QED BY <1>2, <1>5

LEMMA JoinedFour ==
  ASSUME NEW a, NEW b, NEW c, NEW d
  PROVE  <<a, b>> \o <<c, d>> = <<a, b, c, d>>
<1> DEFINE S == {a, b, c, d}
<1>1. <<a, b>> \in Seq(S) /\ <<c, d>> \in Seq(S)
  OBVIOUS
<1> HIDE DEF S
<1>2. PICK r : r = <<a, b>> \o <<c, d>>
  OBVIOUS
<1>3. r \in Seq(S) /\ Len(r) = 4 /\ r[1] = a /\ r[2] = b /\ r[3] = c /\ r[4] = d
  BY <1>1, <1>2, ConcatProperties
<1>4. r \in [1 .. 4 -> S]
  BY <1>3, LenProperties
<1>5. r = <<a, b, c, d>>
  BY <1>3, <1>4
<1> QED BY <1>2, <1>5

\* What s16db_string_to_path makes of a text, given whether it is qualified
LEMMA Reads ==
  ASSUME NEW txt, NEW q \in BOOLEAN, (Len(txt) > 1 /\ Head(txt) = "svc:/") <=> q
  PROVE  s16db_string_to_path(txt) =
           LET rest == IF q THEN Tail(txt) ELSE txt
           IN  [full_qual |-> q, svc |-> Head(rest),
                inst |-> IF Len(rest) > 1 THEN rest[3] ELSE NULL]
<1> DEFINE x == Len(txt) > 1 /\ Head(txt) = "svc:/"
<1>1. x \in BOOLEAN /\ (x <=> q)
  BY Zenon
<1>2. s16db_string_to_path(txt) =
        LET rest == IF x THEN Tail(txt) ELSE txt
        IN  [full_qual |-> x, svc |-> Head(rest),
             inst |-> IF Len(rest) > 1 THEN rest[3] ELSE NULL]
  BY Zenon DEF s16db_string_to_path
<1> HIDE DEF x
<1>3. x = q
  BY <1>1
<1> QED BY <1>2, <1>3, Zenon

\* The four forms of a text, read ...
LEMMA Parsed ==
  ASSUME NEW a, NEW b
  PROVE  /\ s16db_string_to_path(<<a>>) = [full_qual |-> FALSE, svc |-> a, inst |-> NULL]
         /\ s16db_string_to_path(<<"svc:/", a>>) = [full_qual |-> TRUE, svc |-> a, inst |-> NULL]
         /\ a # "svc:/" =>
              s16db_string_to_path(<<a, ":", b>>) = [full_qual |-> FALSE, svc |-> a, inst |-> b]
         /\ s16db_string_to_path(<<"svc:/", a, ":", b>>) = [full_qual |-> TRUE, svc |-> a, inst |-> b]
<1>1. TRUE \in BOOLEAN /\ FALSE \in BOOLEAN
  BY Zenon
<1>2. s16db_string_to_path(<<a>>) = [full_qual |-> FALSE, svc |-> a, inst |-> NULL]
  <2>1. Head(<<a>>) = a /\ ~(Len(<<a>>) > 1)
    BY Texts
  <2> QED BY <1>1, <2>1, Reads, Zenon
<1>3. s16db_string_to_path(<<"svc:/", a>>) = [full_qual |-> TRUE, svc |-> a, inst |-> NULL]
  <2>1. /\ Len(<<"svc:/", a>>) > 1 /\ Head(<<"svc:/", a>>) = "svc:/"
        /\ Tail(<<"svc:/", a>>) = <<a>> /\ Head(<<a>>) = a /\ ~(Len(<<a>>) > 1)
    BY Texts
  <2>2. s16db_string_to_path(<<"svc:/", a>>) =
          LET rest == Tail(<<"svc:/", a>>)
          IN  [full_qual |-> TRUE, svc |-> Head(rest),
               inst |-> IF Len(rest) > 1 THEN rest[3] ELSE NULL]
    BY <1>1, <2>1, Reads
  <2> QED BY <2>1, <2>2, Zenon
<1>4. ASSUME a # "svc:/"
      PROVE  s16db_string_to_path(<<a, ":", b>>) = [full_qual |-> FALSE, svc |-> a, inst |-> b]
  <2>1. Head(<<a, ":", b>>) = a /\ Len(<<a, ":", b>>) > 1 /\ <<a, ":", b>>[3] = b
    BY Texts
  <2> QED BY <1>1, <1>4, <2>1, Reads, Zenon
<1>5. s16db_string_to_path(<<"svc:/", a, ":", b>>) = [full_qual |-> TRUE, svc |-> a, inst |-> b]
  <2>1. /\ Len(<<"svc:/", a, ":", b>>) > 1 /\ Head(<<"svc:/", a, ":", b>>) = "svc:/"
        /\ Tail(<<"svc:/", a, ":", b>>) = <<a, ":", b>>
        /\ Head(<<a, ":", b>>) = a /\ Len(<<a, ":", b>>) > 1 /\ <<a, ":", b>>[3] = b
    BY Texts
  <2>2. s16db_string_to_path(<<"svc:/", a, ":", b>>) =
          LET rest == Tail(<<"svc:/", a, ":", b>>)
          IN  [full_qual |-> TRUE, svc |-> Head(rest),
               inst |-> IF Len(rest) > 1 THEN rest[3] ELSE NULL]
    BY <1>1, <2>1, Reads
  <2> QED BY <2>1, <2>2, Zenon
<1> QED BY <1>2, <1>3, <1>4, <1>5

\* ... and written
LEMMA Written ==
  ASSUME NEW p
  PROVE  /\ p.full_qual /\ p.inst = NULL => S16PathToString(p) = <<"svc:/", p.svc>>
         /\ p.full_qual /\ p.inst # NULL => S16PathToString(p) = <<"svc:/", p.svc, ":", p.inst>>
         /\ ~p.full_qual /\ p.inst = NULL => S16PathToString(p) = <<p.svc>>
         /\ ~p.full_qual /\ p.inst # NULL => S16PathToString(p) = <<p.svc, ":", p.inst>>
<1>1. /\ <<"svc:/">> \o <<p.svc>> = <<"svc:/", p.svc>> /\ <<>> \o <<p.svc>> = <<p.svc>>
      /\ <<"svc:/", p.svc>> \o <<>> = <<"svc:/", p.svc>> /\ <<p.svc>> \o <<>> = <<p.svc>>
      /\ <<"svc:/", p.svc>> \o <<":", p.inst>> = <<"svc:/", p.svc, ":", p.inst>>
      /\ <<p.svc>> \o <<":", p.inst>> = <<p.svc, ":", p.inst>>
  BY JoinedEmpty, JoinedThree, JoinedFour
<1>2. ASSUME p.full_qual, p.inst = NULL
      PROVE  S16PathToString(p) = <<"svc:/", p.svc>>
  <2>1. S16PathToString(p) = <<"svc:/">> \o <<p.svc>> \o <<>>
    BY <1>2, Zenon DEF S16PathToString
  <2> QED BY <1>1, <2>1, Zenon
<1>3. ASSUME p.full_qual, p.inst # NULL
      PROVE  S16PathToString(p) = <<"svc:/", p.svc, ":", p.inst>>
  <2>1. S16PathToString(p) = <<"svc:/">> \o <<p.svc>> \o <<":", p.inst>>
    BY <1>3, Zenon DEF S16PathToString
  <2> QED BY <1>1, <2>1, Zenon
<1>4. ASSUME ~p.full_qual, p.inst = NULL
      PROVE  S16PathToString(p) = <<p.svc>>
  <2>1. S16PathToString(p) = <<>> \o <<p.svc>> \o <<>>
    BY <1>4, Zenon DEF S16PathToString
  <2> QED BY <1>1, <2>1, Zenon
<1>5. ASSUME ~p.full_qual, p.inst # NULL
      PROVE  S16PathToString(p) = <<p.svc, ":", p.inst>>
  <2>1. S16PathToString(p) = <<>> \o <<p.svc>> \o <<":", p.inst>>
    BY <1>5, Zenon DEF S16PathToString
  <2> QED BY <1>1, <2>1, Zenon
<1> QED BY <1>2, <1>3, <1>4, <1>5

\* A path whose text can be read back
PathOK(p) == p.full_qual \in BOOLEAN /\ p.svc # "svc:/"

\* A path made of its parts
LEMMA PathParts ==
  ASSUME NEW q \in BOOLEAN, NEW s, NEW i
  PROVE  LET p == [full_qual |-> q, svc |-> s, inst |-> i]
         IN  p.full_qual = q /\ p.svc = s /\ p.inst = i
OBVIOUS

\* The text of a path is read as a path to the same.
LEMMA PathArrives ==
  ASSUME NEW p, PathOK(p)
  PROVE  LET q == s16db_string_to_path(S16PathToString(p))
         IN  PathOK(q) /\ q.svc = p.svc /\ q.inst = p.inst
<1>1. TRUE \in BOOLEAN /\ FALSE \in BOOLEAN
  BY Zenon
<1>2. PICK q \in BOOLEAN : s16db_string_to_path(S16PathToString(p)) =
                             [full_qual |-> q, svc |-> p.svc, inst |-> p.inst]
  <2>1. CASE p.full_qual /\ p.inst = NULL
    BY <1>1, <2>1, Written, Parsed, Zenon
  <2>2. CASE p.full_qual /\ p.inst # NULL
    BY <1>1, <2>2, Written, Parsed, Zenon
  <2>3. CASE ~p.full_qual /\ p.inst = NULL
    BY <1>1, <2>3, Written, Parsed, Zenon
  <2>4. CASE ~p.full_qual /\ p.inst # NULL
    BY <1>1, <2>4, Written, Parsed, Zenon DEF PathOK
  <2> QED BY <2>1, <2>2, <2>3, <2>4
<1> QED BY <1>2 DEF PathOK

\* The copy of a path
LEMMA PathCopied ==
  ASSUME NEW p, PathOK(p)
  PROVE  /\ PathOK(S16PathCopy(p))
         /\ S16PathCopy(p).svc = p.svc /\ S16PathCopy(p).inst = p.inst
<1>1. TRUE \in BOOLEAN
  BY Zenon
<1> QED BY <1>1 DEF PathOK, S16PathCopy, S16PathNew

\* What a path tells
LEMMA SamePath ==
  ASSUME NEW p, NEW q, q.svc = p.svc, q.inst = p.inst
  PROVE  PathTold(q) = PathTold(p)
BY DEF PathTold, Key

-----------------------------------------------------------------------------
(* Lists, and what the add_* loops keep of one. *)

\* The least of some numbers
LEMMA Smallest ==
  ASSUME NEW T, T \subseteq Nat, T # {}
  PROVE  \E x \in T : \A y \in T : x <= y
<1> DEFINE R == OpToRel(<, Nat)
<1>1. IsWellFoundedOn(R, Nat)
  BY NatLessThanWellFounded
<1>2. \A x, y \in Nat : x < y => <<x, y>> \in R
  BY DEF OpToRel
<1> HIDE DEF R
<1>3. PICK x \in T : \A y \in T : ~(<<y, x>> \in R)
  BY <1>1, WFMin
<1>4. ASSUME NEW y \in T
      PROVE  x <= y
  <2>1. x \in Nat /\ y \in Nat
    OBVIOUS
  <2>2. ~(y < x)
    BY <1>2, <1>3, <2>1
  <2> QED BY <2>1, <2>2
<1> QED BY <1>4

\* A sequence is a list.
LEMMA SeqIsList ==
  ASSUME NEW S, NEW s \in Seq(S)
  PROVE  IsList(s)
<1>1. Len(s) \in Nat /\ s \in [1 .. Len(s) -> S]
  OBVIOUS
<1>2. s \in [1 .. Len(s) -> ToSet(s)]
  BY <1>1 DEF ToSet
<1> QED BY <1>1, <1>2 DEF IsList

\* A list with one more element
LEMMA LongerList ==
  ASSUME NEW s, IsList(s), NEW e
  PROVE  /\ IsList(Append(s, e)) /\ Len(s) \in Nat /\ Len(Append(s, e)) = Len(s) + 1
         /\ DOMAIN s = 1 .. Len(s) /\ DOMAIN Append(s, e) = 1 .. Len(s) + 1
         /\ \A k \in 1 .. Len(s) : Append(s, e)[k] = s[k]
         /\ Append(s, e)[Len(s) + 1] = e
<1> DEFINE S == ToSet(s) \cup {e}
<1>1. s \in Seq(S) /\ e \in S
  BY DEF IsList
<1>2. Append(s, e) \in Seq(S)
  BY <1>1
<1>3. IsList(Append(s, e))
  BY <1>2, SeqIsList
<1> HIDE DEF S
<1> QED BY <1>1, <1>3

\* A function on the positions of a list is a list.
LEMMA ListShape ==
  ASSUME NEW s, IsList(s), NEW t, t = [k \in DOMAIN s |-> t[k]]
  PROVE  /\ IsList(t) /\ Len(t) = Len(s) /\ DOMAIN t = 1 .. Len(t) /\ Len(t) \in Nat
         /\ t = <<>> <=> s = <<>>
<1>1. Len(s) \in Nat /\ DOMAIN s = 1 .. Len(s)
  BY DEF IsList
<1>2. t \in [1 .. Len(s) -> ToSet(t)]
  BY <1>1 DEF ToSet
<1>3. t \in Seq(ToSet(t)) /\ Len(t) = Len(s)
  BY <1>1, <1>2
<1>4. t = <<>> <=> s = <<>>
  BY <1>1, <1>3, EmptySeq DEF IsList
<1> QED BY <1>1, <1>3, <1>4 DEF IsList

\* f satisfies the recursive equation in the definition of Keep, up to n.
KeepTo(s, S, n, f) ==
  f = [k \in 0 .. n |->
        IF k = 0 THEN <<>>
        ELSE IF s[k] \in S THEN Append(f[k - 1], s[k]) ELSE f[k - 1]]

\* The recursion in Keep is well defined.
LEMMA KeepExists ==
  ASSUME NEW s, NEW S, NEW N \in Nat
  PROVE  \E f : KeepTo(s, S, N, f)
<1> DEFINE Bad == {n \in Nat : ~ \E f : KeepTo(s, S, n, f)}
<1>1. SUFFICES ASSUME Bad # {} PROVE FALSE
  OBVIOUS
<1>2. PICK n \in Bad : \A m \in Bad : n <= m
  <2>1. Bad \subseteq Nat
    OBVIOUS
  <2> HIDE DEF Bad
  <2> QED BY <1>1, <2>1, Smallest
<1>3. CASE n = 0
  <2>1. KeepTo(s, S, 0, [k \in 0 .. 0 |-> <<>>])
    BY DEF KeepTo
  <2> QED BY <1>3, <2>1
<1>4. CASE n # 0
  <2>1. n \in Nat /\ n - 1 \in Nat /\ n - 1 \notin Bad
    <3>1. n \in Nat
      OBVIOUS
    <3> HIDE DEF Bad
    <3> QED BY <1>2, <1>4, <3>1
  <2>2. PICK f : KeepTo(s, S, n - 1, f)
    BY <2>1
  <2> DEFINE g == [k \in 0 .. n |-> IF k < n THEN f[k]
                    ELSE IF s[n] \in S THEN Append(f[n - 1], s[n]) ELSE f[n - 1]]
  <2>3. ASSUME NEW k \in 0 .. n
        PROVE  g[k] = IF k = 0 THEN <<>>
                      ELSE IF s[k] \in S THEN Append(g[k - 1], s[k]) ELSE g[k - 1]
    <3>1. CASE k < n
      <4>1. k \in 0 .. n - 1 /\ g[k] = f[k] /\ (k # 0 => g[k - 1] = f[k - 1])
        BY <2>1, <3>1
      <4> QED BY <2>2, <4>1 DEF KeepTo
    <3>2. CASE k = n
      BY <1>4, <2>1, <3>2
    <3> QED BY <2>1, <3>1, <3>2
  <2>4. KeepTo(s, S, n, g)
    BY <2>3 DEF KeepTo
  <2> QED BY <2>4
<1> QED BY <1>3, <1>4

\* The first n elements of s that are in S, as a set and by number
Among(s, S, n, r) ==
  /\ r \in Seq({s[k] : k \in {j \in 1 .. n : s[j] \in S}})
  /\ \A k \in 1 .. n : s[k] \in S => s[k] \in ToSet(r)
  /\ IsFiniteSet({k \in 1 .. n : s[k] \in S})
  /\ Len(r) = Cardinality({k \in 1 .. n : s[k] \in S})

\* One element more
LEMMA AmongMore ==
  ASSUME NEW s, NEW S, NEW n \in Nat, NEW r, Among(s, S, n, r)
  PROVE  Among(s, S, n + 1, IF s[n + 1] \in S THEN Append(r, s[n + 1]) ELSE r)
<1> DEFINE hit == {k \in 1 .. n : s[k] \in S}
           now == {k \in 1 .. n + 1 : s[k] \in S}
           V == {s[k] : k \in hit}
           W == {s[k] : k \in now}
<1>1. r \in Seq(V) /\ IsFiniteSet(hit) /\ Len(r) = Cardinality(hit) /\ Len(r) \in Nat
  BY DEF Among
<1>2. hit \subseteq now /\ V \subseteq W
  OBVIOUS
<1>3. r \in Seq(W)
  <2> HIDE DEF V, W
  <2> QED BY <1>1, <1>2
<1>4. CASE s[n + 1] \notin S
  <2>1. now = hit
    BY <1>4
  <2>2. \A k \in 1 .. n + 1 : s[k] \in S => s[k] \in ToSet(r)
    BY <1>4 DEF Among
  <2>3. /\ IsFiniteSet(now) /\ Len(r) = Cardinality(now)
    BY <1>1, <2>1
  <2> QED BY <1>3, <1>4, <2>2, <2>3 DEF Among
<1>5. CASE s[n + 1] \in S
  <2> DEFINE q == Append(r, s[n + 1])
  <2>1. now = hit \cup {n + 1} /\ n + 1 \notin hit /\ s[n + 1] \in W
    BY <1>5
  <2>2. IsFiniteSet(now) /\ Cardinality(now) = Cardinality(hit) + 1
    <3> HIDE DEF hit, now
    <3> QED BY <1>1, <2>1, FS_AddElement
  <2>3. q \in Seq(W) /\ Len(q) = Len(r) + 1
    <3> HIDE DEF W, V
    <3> QED BY <1>1, <1>3, <2>1
  <2>4. \A k \in 1 .. n + 1 : s[k] \in S => s[k] \in ToSet(q)
    <3>1. q[Len(r) + 1] = s[n + 1] /\ \A j \in DOMAIN r : q[j] = r[j] /\ j \in DOMAIN q
      <4>1. IsList(r)
        BY <1>1, SeqIsList
      <4>2. PICK x : x = s[n + 1]
        OBVIOUS
      <4>3. /\ Append(r, x)[Len(r) + 1] = x /\ DOMAIN r = 1 .. Len(r)
            /\ DOMAIN Append(r, x) = 1 .. Len(r) + 1
            /\ \A j \in 1 .. Len(r) : Append(r, x)[j] = r[j]
        BY <4>1, LongerList
      <4>4. q = Append(r, x)
        BY <4>2
      <4> HIDE DEF q, hit, now, V, W
      <4> QED BY <1>1, <4>2, <4>3, <4>4
    <3>2. Len(r) + 1 \in DOMAIN q
      <4> HIDE DEF V, W, q
      <4> QED BY <1>1, <2>3
    <3> HIDE DEF q
    <3>3. ToSet(r) \subseteq ToSet(q) /\ s[n + 1] \in ToSet(q)
      BY <3>1, <3>2 DEF ToSet
    <3>4. \A k \in 1 .. n : s[k] \in S => s[k] \in ToSet(r)
      BY DEF Among
    <3>5. \A k \in 1 .. n + 1 : k \in 1 .. n \/ k = n + 1
      OBVIOUS
    <3> QED BY <3>3, <3>4, <3>5
  <2> HIDE DEF q
  <2>5. Among(s, S, n + 1, q)
    BY <1>1, <2>2, <2>3, <2>4 DEF Among
  <2> QED BY <1>5, <2>5 DEF q
<1> QED BY <1>4, <1>5

(* Keep returns the elements it was asked for, all of them. *)
LEMMA KeepList ==
  ASSUME NEW s, IsList(s), NEW S
  PROVE  /\ IsList(Keep(s, S)) /\ ToSet(Keep(s, S)) = ToSet(s) \cap S
         /\ IsFiniteSet({k \in DOMAIN s : s[k] \in S})
         /\ Len(Keep(s, S)) = Cardinality({k \in DOMAIN s : s[k] \in S})
<1>1. Len(s) \in Nat /\ DOMAIN s = 1 .. Len(s)
  BY DEF IsList
<1> DEFINE f == CHOOSE g : KeepTo(s, S, Len(s), g)
<1>2. KeepTo(s, S, Len(s), f)
  BY <1>1, KeepExists
<1>3. Keep(s, S) = f[Len(s)]
  BY DEF Keep, KeepTo
<1> HIDE DEF f
<1> DEFINE Bad == {n \in 0 .. Len(s) : ~Among(s, S, n, f[n])}
<1>4. Bad = {}
  <2> SUFFICES ASSUME Bad # {} PROVE FALSE
    OBVIOUS
  <2>1. PICK n \in Bad : \A m \in Bad : n <= m
    <3>1. Bad \subseteq Nat
      BY <1>1
    <3> HIDE DEF Bad
    <3> QED BY <3>1, Smallest
  <2>2. n \in 0 .. Len(s)
    OBVIOUS
  <2>3. CASE n = 0
    <3>1. f[0] = <<>>
      BY <1>1, <1>2 DEF KeepTo
    <3>2. {k \in 1 .. 0 : s[k] \in S} = {}
      OBVIOUS
    <3>3. Among(s, S, 0, <<>>)
      BY <3>2, FS_EmptySet DEF Among
    <3> QED BY <2>3, <3>1, <3>3
  <2>4. CASE n # 0
    <3> DEFINE m == n - 1
    <3>1. m \in 0 .. Len(s) /\ m \in Nat /\ m < n /\ m + 1 = n
      BY <1>1, <2>2, <2>4
    <3>2. Among(s, S, m, f[m])
      <4>1. m \notin Bad
        <5> HIDE DEF Bad
        <5> QED BY <1>1, <2>1, <2>2, <3>1
      <4> QED BY <3>1, <4>1
    <3>3. f[n] = IF s[n] \in S THEN Append(f[n - 1], s[n]) ELSE f[n - 1]
      BY <1>1, <1>2, <2>2, <2>4 DEF KeepTo
    <3> HIDE DEF m
    <3>4. Among(s, S, m + 1, IF s[m + 1] \in S THEN Append(f[m], s[m + 1]) ELSE f[m])
      BY <3>1, <3>2, AmongMore
    <3> QED BY <3>1, <3>3, <3>4 DEF m
  <2> QED BY <2>3, <2>4
<1>5. Among(s, S, Len(s), Keep(s, S))
  BY <1>1, <1>3, <1>4
<1> HIDE DEF Bad
<1> DEFINE r == Keep(s, S)
           V == {s[k] : k \in {j \in 1 .. Len(s) : s[j] \in S}}
<1>6. r \in Seq(V) /\ V \subseteq ToSet(r) /\ V = ToSet(s) \cap S
  BY <1>1, <1>5 DEF Among, ToSet
<1> HIDE DEF r, V
<1>7. IsList(r) /\ ToSet(r) = V
  <2>1. ToSet(r) \subseteq V
    BY <1>6 DEF ToSet
  <2> QED BY <1>6, <2>1, SeqIsList
<1> QED BY <1>1, <1>5, <1>6, <1>7 DEF Among, r

-----------------------------------------------------------------------------
(* Dependency groups. *)

GroupOK(g) ==
  /\ g.type \in GroupTypes \cup {"INVALID-TYPE"}
  /\ g.restart_on \in RestartWords \cup {"INVALID"}
  /\ \A k \in DOMAIN g.paths : PathOK(g.paths[k])

\* Two groups say the same.
LEMMA SameGroup ==
  ASSUME NEW g, NEW h, GroupOK(g), h.type = g.type, h.restart_on = g.restart_on,
         DOMAIN h.paths = DOMAIN g.paths,
         \A k \in DOMAIN g.paths :
           PathOK(h.paths[k]) /\ h.paths[k].svc = g.paths[k].svc /\ h.paths[k].inst = g.paths[k].inst
  PROVE  GroupOK(h) /\ GroupTold(h) = GroupTold(g)
<1>1. \A k \in DOMAIN g.paths : PathTold(h.paths[k]) = PathTold(g.paths[k])
  BY SamePath
<1>2. Map(PathTold, h.paths) = Map(PathTold, g.paths)
  BY <1>1 DEF Map
<1> QED BY <1>2 DEF GroupOK, GroupTold

\* The copy of a group
LEMMA GroupCopied ==
  ASSUME NEW g, GroupOK(g)
  PROVE  LET h == S16DependencyGroupCopy(g) IN GroupOK(h) /\ GroupTold(h) = GroupTold(g)
<1> DEFINE h == S16DependencyGroupCopy(g)
<1>1. /\ h.type = g.type /\ h.restart_on = g.restart_on /\ DOMAIN h.paths = DOMAIN g.paths
      /\ \A k \in DOMAIN g.paths : h.paths[k] = S16PathCopy(g.paths[k])
  BY DEF S16DependencyGroupCopy, Map
<1>2. \A k \in DOMAIN g.paths :
        /\ PathOK(h.paths[k])
        /\ h.paths[k].svc = g.paths[k].svc /\ h.paths[k].inst = g.paths[k].inst
  BY <1>1, PathCopied DEF GroupOK
<1> HIDE DEF h
<1>3. GroupOK(h) /\ GroupTold(h) = GroupTold(g)
  BY <1>1, <1>2, SameGroup
<1> QED BY <1>3 DEF h

\* A group sent and received
LEMMA GroupArrives ==
  ASSUME NEW g, GroupOK(g)
  PROVE  LET h == s16db_ucl_to_depgroup(s16db_S16DependencyGroupo_ucl(g))
         IN  GroupOK(h) /\ GroupTold(h) = GroupTold(g)
<1> DEFINE u == s16db_S16DependencyGroupo_ucl(g)
           h == s16db_ucl_to_depgroup(u)
<1>1. u["grouping"] = g.type /\ u["restart-on"] = g.restart_on
  BY Objects, Entries DEF s16db_S16DependencyGroupo_ucl
<1>2. u["paths"] = Map(S16PathToString, g.paths)
  BY Objects, Entries DEF s16db_S16DependencyGroupo_ucl
<1> HIDE DEF u
<1>3. /\ h.type = string_to_type(g.type) /\ h.restart_on = string_to_restarton(g.restart_on)
      /\ DOMAIN h.paths = DOMAIN g.paths
      /\ \A k \in DOMAIN g.paths : h.paths[k] = s16db_string_to_path(S16PathToString(g.paths[k]))
  BY <1>1, <1>2 DEF s16db_ucl_to_depgroup, Map
<1>4. h.type = g.type /\ h.restart_on = g.restart_on
  BY <1>3 DEF GroupOK, string_to_type, string_to_restarton
<1>5. \A k \in DOMAIN g.paths :
        /\ PathOK(h.paths[k])
        /\ h.paths[k].svc = g.paths[k].svc /\ h.paths[k].inst = g.paths[k].inst
  BY <1>3, PathArrives DEF GroupOK
<1> HIDE DEF h
<1>6. GroupOK(h) /\ GroupTold(h) = GroupTold(g)
  BY <1>3, <1>4, <1>5, SameGroup
<1> QED BY <1>6 DEF h, u

\* The text of a path in a manifest
LEMMA TextRead ==
  ASSUME NEW txt, IsText(txt)
  PROVE  LET p == s16db_string_to_path(txt) IN PathOK(p) /\ PathTold(p) = Names(txt)
<1>1. TRUE \in BOOLEAN /\ FALSE \in BOOLEAN
  BY Zenon
<1>2. CASE Len(txt) = 1 /\ txt = <<txt[1]>> /\ IsName(txt[1])
  <2>1. PICK a : txt = <<a>> /\ IsName(a)
    BY <1>2
  <2>2. Names(<<a>>) = <<a>>
    BY <2>1 DEF Names, IsName, ToSet, Last
  <2>3. PICK q \in BOOLEAN : s16db_string_to_path(<<a>>) = [full_qual |-> q, svc |-> a, inst |-> NULL]
    BY <1>1, <2>1, Parsed, Zenon DEF IsName
  <2> QED BY <2>1, <2>2, <2>3 DEF PathOK, PathTold, IsName
<1>3. CASE Len(txt) = 2 /\ txt = <<"svc:/", txt[2]>> /\ IsName(txt[2])
  <2>1. PICK a : txt = <<"svc:/", a>> /\ IsName(a)
    BY <1>3
  <2>2. Names(<<"svc:/", a>>) = <<a>>
    BY <2>1 DEF Names, IsName, ToSet, Last
  <2>3. PICK q \in BOOLEAN : s16db_string_to_path(<<"svc:/", a>>) = [full_qual |-> q, svc |-> a, inst |-> NULL]
    BY <1>1, <2>1, Parsed, Zenon DEF IsName
  <2> QED BY <2>1, <2>2, <2>3 DEF PathOK, PathTold, IsName
<1>4. CASE Len(txt) = 3 /\ txt = <<txt[1], ":", txt[3]>> /\ IsName(txt[1]) /\ IsName(txt[3])
  <2>1. PICK a, b : txt = <<a, ":", b>> /\ IsName(a) /\ IsName(b)
    BY <1>4
  <2>2. Names(<<a, ":", b>>) = <<a, b>>
    BY <2>1 DEF Names, IsName, ToSet, Last
  <2>3. PICK q \in BOOLEAN : s16db_string_to_path(<<a, ":", b>>) = [full_qual |-> q, svc |-> a, inst |-> b]
    BY <1>1, <2>1, Parsed, Zenon DEF IsName
  <2> QED BY <2>1, <2>2, <2>3 DEF PathOK, PathTold, IsName, Key
<1>5. CASE Len(txt) = 4 /\ txt = <<"svc:/", txt[2], ":", txt[4]>> /\ IsName(txt[2]) /\ IsName(txt[4])
  <2>1. PICK a, b : txt = <<"svc:/", a, ":", b>> /\ IsName(a) /\ IsName(b)
    BY <1>5
  <2>2. Names(<<"svc:/", a, ":", b>>) = <<a, b>>
    BY <2>1 DEF Names, IsName, ToSet, Last
  <2>3. PICK q \in BOOLEAN : s16db_string_to_path(<<"svc:/", a, ":", b>>) = [full_qual |-> q, svc |-> a, inst |-> b]
    BY <1>1, <2>1, Parsed, Zenon DEF IsName
  <2> QED BY <2>1, <2>2, <2>3 DEF PathOK, PathTold, IsName, Key
<1> QED BY <1>2, <1>3, <1>4, <1>5 DEF IsText

\* A group of a manifest
LEMMA GroupRead ==
  ASSUME NEW x, \A k \in DOMAIN x["paths"] : IsText(x["paths"][k])
  PROVE  LET h == s16db_ucl_to_depgroup(x) IN GroupOK(h) /\ GroupTold(h) = GroupSaid(x)
<1> DEFINE h == s16db_ucl_to_depgroup(x)
<1>1. /\ h.type = string_to_type(x["grouping"])
      /\ h.restart_on = string_to_restarton(x["restart-on"])
      /\ DOMAIN h.paths = DOMAIN x["paths"]
      /\ \A k \in DOMAIN x["paths"] : h.paths[k] = s16db_string_to_path(x["paths"][k])
  BY DEF s16db_ucl_to_depgroup, Map
<1>2. \A k \in DOMAIN x["paths"] : PathOK(h.paths[k]) /\ PathTold(h.paths[k]) = Names(x["paths"][k])
  BY <1>1, TextRead
<1> HIDE DEF h
<1>3. /\ h.type \in GroupTypes \cup {"INVALID-TYPE"}
      /\ h.restart_on \in RestartWords \cup {"INVALID"}
      /\ h.type = Word(x["grouping"], GroupTypes, "INVALID-TYPE")
      /\ h.restart_on = Word(x["restart-on"], RestartWords, "INVALID")
  BY <1>1 DEF string_to_type, string_to_restarton, Word
<1>4. Map(PathTold, h.paths) = Map(Names, x["paths"])
  BY <1>1, <1>2 DEF Map
<1>5. GroupOK(h) /\ GroupTold(h) = GroupSaid(x)
  BY <1>1, <1>2, <1>3, <1>4 DEF GroupOK, GroupTold, GroupSaid
<1> QED BY <1>5 DEF h

-----------------------------------------------------------------------------
(* Methods. *)

\* The methods of an instance x that have properties, with their number
MethodsHeld(x) ==
  {<<m.name, Len(m.props)>> : m \in {n \in ToSet(x.meths) : n.props # <<>>}}

\* The methods of a manifest's instance that have usable properties, likewise
MethodsOf(i) == Counted({m \in NamedIn(i) : UsableIn(m) # {}})

MethodsOK(x) == "meths" \in DOMAIN x /\ IsList(x.meths) /\ \A m \in ToSet(x.meths) : IsList(m.props)

\* What add_props makes of an object with properties
LEMMA PropsRead ==
  ASSUME NEW u, Has(u, "properties"), IsList(u["properties"])
  PROVE  /\ IsList(add_props(u)) /\ IsFiniteSet(UsableIn(u))
         /\ Len(add_props(u)) = Cardinality(UsableIn(u))
<1> DEFINE l == u["properties"]
           S == {x \in ToSet(l) : prop_converts(x)}
           r == Keep(l, S)
<1>1. add_props(u) = [k \in DOMAIN r |-> s16db_ucl_to_prop(r[k])]
  BY DEF add_props, AddGood, Map
<1>2. UsableIn(u) = {k \in DOMAIN l : l[k] \in S}
  BY DEF UsableIn, prop_converts, ToSet
<1>3. IsList(l)
  OBVIOUS
<1> HIDE DEF l, S
<1>0. /\ IsList(r) /\ IsFiniteSet({k \in DOMAIN l : l[k] \in S})
      /\ Len(r) = Cardinality({k \in DOMAIN l : l[k] \in S})
  BY <1>3, KeepList
<1> HIDE DEF r
<1>4. IsList(r) /\ IsFiniteSet(UsableIn(u)) /\ Len(r) = Cardinality(UsableIn(u))
  <2>1. PICK H : H = {k \in DOMAIN l : l[k] \in S}
    OBVIOUS
  <2>2. UsableIn(u) = H
    BY <1>2, <2>1
  <2> QED BY <1>0, <2>1, <2>2
<1> DEFINE t == add_props(u)
<1>5. t = [k \in DOMAIN r |-> t[k]]
  BY <1>1
<1> HIDE DEF t
<1>6. IsList(t) /\ Len(t) = Len(r)
  BY <1>4, <1>5, ListShape
<1> QED BY <1>4, <1>6 DEF t

\* A method sent and received
LEMMA MethodSent ==
  ASSUME NEW m, IsList(m.props)
  PROVE  LET v == s16db_meth_to_ucl(m)
             w == s16db_ucl_to_meth(v)
         IN  /\ meth_converts(v) <=> m.props # <<>>
             /\ m.props # <<>> =>
                  w.name = m.name /\ IsList(w.props) /\ Len(w.props) = Len(m.props) /\ w.props # <<>>
<1> DEFINE p == Map(s16db_prop_to_ucl, m.props)
           v == s16db_meth_to_ucl(m)
           w == s16db_ucl_to_meth(v)
<1>1. v = Entry("name", m.name) ++ (IF m.props # <<>> THEN Entry("properties", p) ELSE <<>>)
  BY Zenon DEF s16db_meth_to_ucl, KeyIf
<1>2. w.name = v["name"] /\ w.props = add_props(v)
  BY DEF s16db_ucl_to_meth
<1>3. p = [k \in DOMAIN m.props |-> p[k]] /\ \A k \in DOMAIN m.props : p[k] = s16db_prop_to_ucl(m.props[k])
  BY DEF Map
<1> HIDE DEF v, w, p
<1>4. Has(v, "name") /\ v["name"] = m.name
  BY <1>1, Objects, Entries
<1>5. Has(v, "properties") <=> m.props # <<>>
  BY <1>1, NoKeys, Objects, Entries
<1>6. m.props # <<>> => v["properties"] = p
  BY <1>1, Objects, Entries
<1>7. meth_converts(v) <=> m.props # <<>>
  BY <1>4, <1>5 DEF meth_converts
<1>8. ASSUME m.props # <<>>
      PROVE  w.name = m.name /\ IsList(w.props) /\ Len(w.props) = Len(m.props) /\ w.props # <<>>
  <2>1. IsList(p) /\ Len(p) = Len(m.props) /\ DOMAIN p = 1 .. Len(p) /\ Len(p) \in Nat /\ p # <<>>
    BY <1>3, <1>8, ListShape
  <2>2. \A k \in DOMAIN p : Has(p[k], "name") /\ Has(p[k], "value")
    BY <1>3, Objects, Entries DEF s16db_prop_to_ucl
  <2>3. UsableIn(v) = 1 .. Len(p)
    BY <1>5, <1>6, <1>8, <2>1, <2>2 DEF UsableIn
  <2>4. Cardinality(UsableIn(v)) = Len(p)
    BY <2>1, <2>3, FS_Interval
  <2>5. IsList(w.props) /\ Len(w.props) = Len(p)
    BY <1>2, <1>5, <1>6, <1>8, <2>1, <2>4, PropsRead
  <2>6. Len(p) # 0
    BY <2>1, EmptySeq DEF IsList
  <2>7. w.props # <<>>
    BY <2>5, <2>6
  <2> QED BY <1>2, <1>4, <2>1, <2>5, <2>7
<1> QED BY <1>7, <1>8 DEF v, w

\* The methods that two instances have are the same if each one of either has
\* its like in the other.
Like(m, n) == n.name = m.name /\ IsList(n.props) /\ Len(n.props) = Len(m.props) /\ n.props # <<>>

LEMMA SameMethods ==
  ASSUME NEW x, NEW y,
         \A m \in ToSet(x.meths) : m.props # <<>> => \E n \in ToSet(y.meths) : Like(m, n),
         \A n \in ToSet(y.meths) : n.props # <<>> =>
           \E m \in ToSet(x.meths) : m.props # <<>> /\ Like(m, n)
  PROVE  MethodsHeld(y) = MethodsHeld(x)
<1>1. ASSUME NEW e \in MethodsHeld(x) PROVE e \in MethodsHeld(y)
  <2>1. PICK m \in ToSet(x.meths) : m.props # <<>> /\ e = <<m.name, Len(m.props)>>
    BY <1>1 DEF MethodsHeld
  <2>2. PICK n \in ToSet(y.meths) : Like(m, n)
    BY <2>1
  <2> QED BY <2>1, <2>2 DEF Like, MethodsHeld
<1>2. ASSUME NEW e \in MethodsHeld(y) PROVE e \in MethodsHeld(x)
  <2>1. PICK n \in ToSet(y.meths) : n.props # <<>> /\ e = <<n.name, Len(n.props)>>
    BY <1>2 DEF MethodsHeld
  <2>2. PICK m \in ToSet(x.meths) : m.props # <<>> /\ Like(m, n)
    BY <2>1
  <2> QED BY <2>1, <2>2 DEF Like, MethodsHeld
<1> QED BY <1>1, <1>2

\* Methods copied ...
LEMMA MethodsCopied ==
  ASSUME NEW x, MethodsOK(x), NEW y, "meths" \in DOMAIN y, y.meths = Map(S16MethodCopy, x.meths)
  PROVE  MethodsOK(y) /\ MethodsHeld(y) = MethodsHeld(x)
<1> DEFINE s == x.meths
           t == y.meths
<1>1. t = [k \in DOMAIN s |-> S16MethodCopy(s[k])]
  BY DEF Map
<1>2. DOMAIN t = DOMAIN s /\ t = [k \in DOMAIN s |-> t[k]] /\ IsList(s)
  BY <1>1 DEF MethodsOK
<1> HIDE DEF s, t
<1>3. IsList(t)
  BY <1>2, ListShape
<1>4. ASSUME NEW k \in DOMAIN s
      PROVE  /\ IsList(t[k].props) /\ t[k].name = s[k].name /\ Len(t[k].props) = Len(s[k].props)
             /\ t[k].props # <<>> <=> s[k].props # <<>>
  <2> DEFINE a == s[k].props
             b == t[k].props
  <2>1. t[k] = S16MethodCopy(s[k])
    BY <1>1
  <2>2. t[k].name = s[k].name /\ b = [j \in DOMAIN a |-> a[j]]
    BY <2>1 DEF S16MethodCopy, Map, S16PropertyCopy
  <2>3. IsList(a)
    BY DEF MethodsOK, ToSet, s
  <2> HIDE DEF a, b
  <2>4. b = [j \in DOMAIN a |-> b[j]]
    BY <2>2
  <2>5. IsList(b) /\ Len(b) = Len(a) /\ (b = <<>> <=> a = <<>>)
    BY <2>3, <2>4, ListShape
  <2> QED BY <2>2, <2>5 DEF a, b
<1>5. \A m \in ToSet(s) : m.props # <<>> => \E n \in ToSet(t) : Like(m, n)
  BY <1>2, <1>4 DEF ToSet, Like
<1>6. \A n \in ToSet(t) : n.props # <<>> => \E m \in ToSet(s) : m.props # <<>> /\ Like(m, n)
  BY <1>2, <1>4 DEF ToSet, Like
<1>7. MethodsHeld(y) = MethodsHeld(x)
  BY <1>5, <1>6, SameMethods DEF s, t
<1>8. \A n \in ToSet(t) : IsList(n.props)
  BY <1>2, <1>4 DEF ToSet
<1> QED BY <1>3, <1>7, <1>8 DEF MethodsOK, t

\* What add_meths makes of an object with methods
LEMMA MethodsMade ==
  ASSUME NEW u, Has(u, "methods"), IsList(u["methods"]), NEW y, y.meths = add_meths(u)
  PROVE  /\ IsList(y.meths)
         /\ \A v \in ToSet(u["methods"]) :
              meth_converts(v) => s16db_ucl_to_meth(v) \in ToSet(y.meths)
         /\ \A n \in ToSet(y.meths) :
              \E v \in ToSet(u["methods"]) : meth_converts(v) /\ n = s16db_ucl_to_meth(v)
<1> DEFINE l == u["methods"]
           S == {x \in ToSet(l) : meth_converts(x)}
           r == Keep(l, S)
           t == y.meths
<1>1. t = [k \in DOMAIN r |-> s16db_ucl_to_meth(r[k])]
  BY DEF add_meths, AddGood, Map
<1>2. IsList(l) /\ ToSet(l) \cap S = S
  OBVIOUS
<1>3. IsList(r) /\ ToSet(r) = S
  <2> HIDE DEF l, S
  <2> QED BY <1>2, KeepList
<1> HIDE DEF t, r, l
<1>4. DOMAIN t = DOMAIN r /\ t = [k \in DOMAIN r |-> t[k]]
  BY <1>1
<1>5. IsList(t)
  BY <1>3, <1>4, ListShape
<1>6. ToSet(t) = {s16db_ucl_to_meth(v) : v \in ToSet(r)}
  BY <1>1, <1>4 DEF ToSet
<1> QED BY <1>3, <1>5, <1>6 DEF t, l

\* ... sent and received: those without properties are lost ...
LEMMA MethodsSent ==
  ASSUME NEW x, MethodsOK(x), NEW u, NEW y, "meths" \in DOMAIN y, y.meths = add_meths(u),
         Has(u, "methods") <=> x.meths # <<>>,
         x.meths # <<>> => u["methods"] = Map(s16db_meth_to_ucl, x.meths)
  PROVE  /\ MethodsOK(y) /\ MethodsHeld(y) = MethodsHeld(x)
         /\ \A n \in ToSet(y.meths) : n.props # <<>>
<1>1. CASE x.meths = <<>>
  <2>1. y.meths = <<>>
    BY <1>1 DEF add_meths, AddGood
  <2>2. ToSet(<<>>) = {} /\ IsList(<<>>)
    BY DEF ToSet, IsList
  <2> QED BY <1>1, <2>1, <2>2 DEF MethodsOK, MethodsHeld
<1>2. CASE x.meths # <<>>
  <2> DEFINE s == x.meths
             t == y.meths
             l == u["methods"]
  <2>1. l = [k \in DOMAIN s |-> s16db_meth_to_ucl(s[k])]
    BY <1>2 DEF Map
  <2>2. IsList(s) /\ \A m \in ToSet(s) : IsList(m.props)
    BY DEF MethodsOK
  <2> HIDE DEF s, l
  <2>3. DOMAIN l = DOMAIN s /\ l = [k \in DOMAIN s |-> l[k]]
    BY <2>1
  <2>4. IsList(l)
    BY <2>2, <2>3, ListShape
  <2>5. ToSet(l) = {s16db_meth_to_ucl(m) : m \in ToSet(s)}
    BY <2>1, <2>3 DEF ToSet
  <2>6. /\ IsList(t)
        /\ \A v \in ToSet(l) : meth_converts(v) => s16db_ucl_to_meth(v) \in ToSet(t)
        /\ \A n \in ToSet(t) : \E v \in ToSet(l) : meth_converts(v) /\ n = s16db_ucl_to_meth(v)
    BY <1>2, <2>4, MethodsMade DEF l
  <2> HIDE DEF t
  <2>7. \A m \in ToSet(s) :
          /\ meth_converts(s16db_meth_to_ucl(m)) <=> m.props # <<>>
          /\ m.props # <<>> => Like(m, s16db_ucl_to_meth(s16db_meth_to_ucl(m)))
    BY <2>2, MethodSent DEF Like
  <2>8. \A m \in ToSet(s) : m.props # <<>> => \E n \in ToSet(t) : Like(m, n)
    BY <2>5, <2>6, <2>7
  <2>9. \A n \in ToSet(t) : \E m \in ToSet(s) : m.props # <<>> /\ Like(m, n)
    BY <2>5, <2>6, <2>7
  <2>10. MethodsHeld(y) = MethodsHeld(x)
    BY <2>8, <2>9, SameMethods DEF s, t
  <2>11. \A n \in ToSet(t) : IsList(n.props) /\ n.props # <<>>
    BY <2>9 DEF Like
  <2> QED BY <2>6, <2>10, <2>11 DEF MethodsOK, t
<1> QED BY <1>1, <1>2

\* ... and read from a manifest
LEMMA MethodsRead ==
  ASSUME NEW i, ListsMethods(i), NEW u, NEW y, "meths" \in DOMAIN y, y.meths = add_meths(u),
         Has(u, "methods") <=> Has(i, "methods"),
         Has(i, "methods") => u["methods"] = i["methods"]
  PROVE  MethodsOK(y) /\ MethodsHeld(y) = MethodsOf(i)
<1>1. CASE ~Has(i, "methods")
  <2>1. y.meths = <<>>
    BY <1>1 DEF add_meths, AddGood
  <2>2. ToSet(<<>>) = {} /\ IsList(<<>>)
    BY DEF ToSet, IsList
  <2>3. MethodsHeld(y) = {} /\ NamedIn(i) = {}
    BY <1>1, <2>1, <2>2 DEF MethodsHeld, NamedIn
  <2>4. MethodsOf(i) = {}
    BY <2>3 DEF MethodsOf, Counted
  <2> QED BY <2>1, <2>2, <2>3, <2>4 DEF MethodsOK
<1>2. CASE Has(i, "methods")
  <2> DEFINE l == i["methods"]
             t == y.meths
             Good(v) == Has(v, "name") /\ Has(v, "properties") /\ UsableIn(v) # {}
  <2>1. IsList(l) /\ \A v \in ToSet(l) : Has(v, "properties") => IsList(v["properties"])
    BY <1>2 DEF ListsMethods
  <2>2. /\ IsList(t)
        /\ \A v \in ToSet(l) : meth_converts(v) => s16db_ucl_to_meth(v) \in ToSet(t)
        /\ \A n \in ToSet(t) : \E v \in ToSet(l) : meth_converts(v) /\ n = s16db_ucl_to_meth(v)
    BY <1>2, <2>1, MethodsMade
  <2>3. MethodsOf(i) = {<<v["name"], Cardinality(UsableIn(v))>> : v \in {w \in ToSet(l) : Good(w)}}
    <3>1. \A v : UsableIn(v) # {} => Has(v, "properties")
      BY DEF UsableIn
    <3>2. {m \in NamedIn(i) : UsableIn(m) # {}} = {w \in ToSet(l) : Good(w)}
      BY <1>2, <3>1 DEF NamedIn
    <3> QED BY <3>2 DEF MethodsOf, Counted
  <2> HIDE DEF l, t
  <2>4. ASSUME NEW v \in ToSet(l), meth_converts(v)
        PROVE  LET n == s16db_ucl_to_meth(v)
               IN  /\ n.name = v["name"] /\ IsList(n.props) /\ Len(n.props) = Cardinality(UsableIn(v))
                   /\ n.props # <<>> <=> UsableIn(v) # {}
    <3> DEFINE n == s16db_ucl_to_meth(v)
    <3>1. n.name = v["name"] /\ n.props = add_props(v)
      BY DEF s16db_ucl_to_meth
    <3>2. Has(v, "properties") /\ IsList(v["properties"])
      BY <2>1, <2>4 DEF meth_converts
    <3> HIDE DEF n
    <3>3. /\ IsList(n.props) /\ IsFiniteSet(UsableIn(v)) /\ Len(n.props) = Cardinality(UsableIn(v))
      BY <3>1, <3>2, PropsRead
    <3>4. Len(n.props) = 0 <=> n.props = <<>>
      BY <3>3, EmptySeq DEF IsList
    <3>5. Cardinality(UsableIn(v)) = 0 <=> UsableIn(v) = {}
      BY <3>3, FS_EmptySet
    <3> QED BY <3>1, <3>3, <3>4, <3>5 DEF n
  <2>5. ASSUME NEW e \in MethodsHeld(y) PROVE e \in MethodsOf(i)
    <3>1. PICK n \in ToSet(t) : n.props # <<>> /\ e = <<n.name, Len(n.props)>>
      BY <2>5 DEF MethodsHeld, t
    <3>2. PICK v \in ToSet(l) : meth_converts(v) /\ n = s16db_ucl_to_meth(v)
      BY <2>2
    <3>3. e = <<v["name"], Cardinality(UsableIn(v))>> /\ UsableIn(v) # {}
      BY <2>4, <3>1, <3>2
    <3>4. Good(v)
      BY <3>2, <3>3 DEF meth_converts
    <3> QED BY <2>3, <3>3, <3>4
  <2>6. ASSUME NEW e \in MethodsOf(i) PROVE e \in MethodsHeld(y)
    <3>1. PICK v \in ToSet(l) : Good(v) /\ e = <<v["name"], Cardinality(UsableIn(v))>>
      BY <2>3, <2>6
    <3>2. meth_converts(v)
      BY <3>1 DEF meth_converts
    <3>3. PICK n : n = s16db_ucl_to_meth(v)
      OBVIOUS
    <3>4. n \in ToSet(t) /\ n.props # <<>> /\ e = <<n.name, Len(n.props)>>
      BY <2>2, <2>4, <3>1, <3>2, <3>3
    <3> QED BY <3>4 DEF MethodsHeld, t
  <2>7. \A n \in ToSet(t) : IsList(n.props)
    BY <2>2, <2>4
  <2> QED BY <2>2, <2>5, <2>6, <2>7 DEF MethodsOK, t
<1> QED BY <1>1, <1>2

-----------------------------------------------------------------------------
(* Services and instances, which both have dependency groups. *)

HolderOK(x) == \A k \in DOMAIN x.depgroups : GroupOK(x.depgroups[k])

InstOK(i) ==
  /\ {"path", "depgroups", "enabled"} \subseteq DOMAIN i
  /\ PathOK(i.path) /\ i.path.inst # NULL /\ HolderOK(i)

\* The path of an instance is that of its service with a name of its own.
SvcOK(svc) ==
  /\ {"path", "depgroups", "insts"} \subseteq DOMAIN svc
  /\ PathOK(svc.path) /\ svc.path.inst = NULL /\ HolderOK(svc)
  /\ IsList(svc.insts)
  /\ \A k \in DOMAIN svc.insts : InstOK(svc.insts[k]) /\ svc.insts[k].path.svc = svc.path.svc

\* Groups copied ...
LEMMA GroupsCopied ==
  ASSUME NEW x, HolderOK(x), NEW y, y.depgroups = Map(S16DependencyGroupCopy, x.depgroups)
  PROVE  HolderOK(y) /\ GroupsTold(y) = GroupsTold(x)
<1>1. /\ DOMAIN y.depgroups = DOMAIN x.depgroups
      /\ \A k \in DOMAIN x.depgroups : y.depgroups[k] = S16DependencyGroupCopy(x.depgroups[k])
  BY DEF Map
<1>2. \A k \in DOMAIN x.depgroups :
        GroupOK(y.depgroups[k]) /\ GroupTold(y.depgroups[k]) = GroupTold(x.depgroups[k])
  BY <1>1, GroupCopied DEF HolderOK
<1> QED BY <1>1, <1>2 DEF HolderOK, GroupsTold, Map

\* ... sent and received ...
LEMMA GroupsArrive ==
  ASSUME NEW x, HolderOK(x), NEW u, NEW y, y.depgroups = add_depgroups(u),
         Has(u, "dependencies") <=> x.depgroups # <<>>,
         x.depgroups # <<>> =>
           u["dependencies"] = Map(s16db_S16DependencyGroupo_ucl, x.depgroups)
  PROVE  HolderOK(y) /\ GroupsTold(y) = GroupsTold(x)
<1>1. CASE x.depgroups = <<>>
  <2>1. y.depgroups = <<>>
    BY <1>1 DEF add_depgroups, AddAll
  <2> QED BY <1>1, <2>1 DEF HolderOK, GroupsTold, Map
<1>2. CASE x.depgroups # <<>>
  <2>1. y.depgroups = Map(s16db_ucl_to_depgroup, Map(s16db_S16DependencyGroupo_ucl, x.depgroups))
    BY <1>2 DEF add_depgroups, AddAll
  <2>2. /\ DOMAIN y.depgroups = DOMAIN x.depgroups
        /\ \A k \in DOMAIN x.depgroups :
             y.depgroups[k] = s16db_ucl_to_depgroup(s16db_S16DependencyGroupo_ucl(x.depgroups[k]))
    BY <2>1 DEF Map
  <2>3. \A k \in DOMAIN x.depgroups :
          GroupOK(y.depgroups[k]) /\ GroupTold(y.depgroups[k]) = GroupTold(x.depgroups[k])
    BY <2>2, GroupArrives DEF HolderOK
  <2> QED BY <2>2, <2>3 DEF HolderOK, GroupsTold, Map
<1> QED BY <1>1, <1>2

\* ... and read from a manifest
LEMMA GroupsRead ==
  ASSUME NEW u, NamesPaths(u), NEW v, NEW y, y.depgroups = add_depgroups(v),
         Has(v, "dependencies") <=> Has(u, "dependencies"),
         Has(u, "dependencies") => v["dependencies"] = u["dependencies"]
  PROVE  HolderOK(y) /\ GroupsTold(y) = GroupsSaid(u)
<1>1. CASE ~Has(u, "dependencies")
  <2>1. y.depgroups = <<>>
    BY <1>1 DEF add_depgroups, AddAll
  <2>2. DOMAIN <<>> = {} /\ \A x : [k \in {} |-> x] = <<>>
    OBVIOUS
  <2> QED BY <1>1, <2>1, <2>2 DEF HolderOK, GroupsTold, GroupsSaid, Map
<1>2. CASE Has(u, "dependencies")
  <2> DEFINE g == u["dependencies"]
  <2>1. y.depgroups = Map(s16db_ucl_to_depgroup, g)
    BY <1>2 DEF add_depgroups, AddAll
  <2>2. \A k \in DOMAIN g : \A l \in DOMAIN g[k]["paths"] : IsText(g[k]["paths"][l])
    BY <1>2 DEF NamesPaths
  <2>3. GroupsSaid(u) = Map(GroupSaid, g)
    BY <1>2 DEF GroupsSaid
  <2> HIDE DEF g
  <2>4. /\ DOMAIN y.depgroups = DOMAIN g
        /\ \A k \in DOMAIN g : y.depgroups[k] = s16db_ucl_to_depgroup(g[k])
    BY <2>1 DEF Map
  <2>5. \A k \in DOMAIN g : GroupOK(y.depgroups[k]) /\ GroupTold(y.depgroups[k]) = GroupSaid(g[k])
    BY <2>2, <2>4, GroupRead
  <2> QED BY <2>3, <2>4, <2>5 DEF HolderOK, GroupsTold, Map
<1> QED BY <1>1, <1>2

\* The keys that services and instances have in common
LEMMA Common ==
  ASSUME NEW x
  PROVE  /\ Has(CommonKeys(x), "dependencies") <=> x.depgroups # <<>>
         /\ x.depgroups # <<>> =>
              CommonKeys(x)["dependencies"] = Map(s16db_S16DependencyGroupo_ucl, x.depgroups)
         /\ Has(CommonKeys(x), "methods") <=> x.meths # <<>>
         /\ x.meths # <<>> => CommonKeys(x)["methods"] = Map(s16db_meth_to_ucl, x.meths)
         /\ \A k : Has(CommonKeys(x), k) => k \in {"properties", "methods", "dependencies"}
<1> DEFINE p == Map(s16db_prop_to_ucl, x.props)
           m == Map(s16db_meth_to_ucl, x.meths)
           d == Map(s16db_S16DependencyGroupo_ucl, x.depgroups)
<1>1. CommonKeys(x) = (IF x.props # <<>> THEN Entry("properties", p) ELSE <<>>)
                        ++ (IF x.meths # <<>> THEN Entry("methods", m) ELSE <<>>)
                        ++ (IF x.depgroups # <<>> THEN Entry("dependencies", d) ELSE <<>>)
  BY Zenon DEF CommonKeys, KeyIf
<1> HIDE DEF p, m, d
<1>2. Has(CommonKeys(x), "dependencies") <=> x.depgroups # <<>>
  BY <1>1, NoKeys, Objects, Entries
<1>3. x.depgroups # <<>> => CommonKeys(x)["dependencies"] = d
  BY <1>1, NoKeys, Objects, Entries
<1>4. Has(CommonKeys(x), "methods") <=> x.meths # <<>>
  BY <1>1, NoKeys, Objects, Entries
<1>5. x.meths # <<>> => CommonKeys(x)["methods"] = m
  BY <1>1, NoKeys, Objects, Entries
<1>6. \A k : Has(CommonKeys(x), k) => k \in {"properties", "methods", "dependencies"}
  BY <1>1, NoKeys, Objects, Entries
<1> QED BY <1>2, <1>3, <1>4, <1>5, <1>6 DEF d, m

\* The copy of an instance
LEMMA InstCopied ==
  ASSUME NEW i, InstOK(i), NEW junk
  PROVE  LET j == S16InstanceCopy(i, junk)
         IN  InstOK(j) /\ InstTold(j) = InstTold(i) /\ j.path.svc = i.path.svc
<1> DEFINE j == S16InstanceCopy(i, junk)
<1>1. /\ j.path = S16PathCopy(i.path) /\ j.depgroups = Map(S16DependencyGroupCopy, i.depgroups)
      /\ {"path", "depgroups", "enabled"} \subseteq DOMAIN j
  BY DEF S16InstanceCopy
<1> HIDE DEF j
<1>2. HolderOK(j) /\ GroupsTold(j) = GroupsTold(i)
  BY <1>1, GroupsCopied DEF InstOK
<1>3. PathOK(j.path) /\ j.path.inst = i.path.inst /\ j.path.svc = i.path.svc
  BY <1>1, PathCopied DEF InstOK
<1>4. InstOK(j) /\ InstTold(j) = InstTold(i) /\ j.path.svc = i.path.svc
  BY <1>1, <1>2, <1>3 DEF InstOK, InstTold
<1> QED BY <1>4 DEF j

\* An instance sent and received
LEMMA InstArrives ==
  ASSUME NEW i, InstOK(i)
  PROVE  LET j == s16db_ucl_to_inst(s16db_inst_to_ucl(i))
         IN  InstOK(j) /\ InstTold(j) = InstTold(i) /\ j.path.svc = i.path.svc
<1> DEFINE u == s16db_inst_to_ucl(i)
           j == s16db_ucl_to_inst(u)
<1>1. u["path"] = S16PathToString(i.path)
  BY Objects, Entries DEF s16db_inst_to_ucl
<1>2. Has(u, "dependencies") <=> Has(CommonKeys(i), "dependencies")
  BY Objects, Entries DEF s16db_inst_to_ucl
<1>3. Has(CommonKeys(i), "dependencies") => u["dependencies"] = CommonKeys(i)["dependencies"]
  BY Objects, Entries DEF s16db_inst_to_ucl
<1> HIDE DEF u
<1>4. /\ j.path = s16db_string_to_path(S16PathToString(i.path)) /\ j.depgroups = add_depgroups(u)
      /\ {"path", "depgroups", "enabled"} \subseteq DOMAIN j
  BY <1>1 DEF s16db_ucl_to_inst
<1> HIDE DEF j
<1>5. HolderOK(j) /\ GroupsTold(j) = GroupsTold(i)
  <2>1. Has(u, "dependencies") <=> i.depgroups # <<>>
    BY <1>2, Common
  <2>2. i.depgroups # <<>> => u["dependencies"] = Map(s16db_S16DependencyGroupo_ucl, i.depgroups)
    BY <1>3, Common
  <2> QED BY <1>4, <2>1, <2>2, GroupsArrive DEF InstOK
<1>6. PathOK(j.path) /\ j.path.inst = i.path.inst /\ j.path.svc = i.path.svc
  BY <1>4, PathArrives DEF InstOK
<1>7. InstOK(j) /\ InstTold(j) = InstTold(i) /\ j.path.svc = i.path.svc
  BY <1>4, <1>5, <1>6 DEF InstOK, InstTold
<1> QED BY <1>7 DEF j, u

\* The copy of a service
LEMMA SvcCopied ==
  ASSUME NEW svc, SvcOK(svc), NEW junk
  PROVE  LET t == S16ServiceCopy(svc, junk) IN SvcOK(t) /\ Tells(t) = Tells(svc)
<1> DEFINE t == S16ServiceCopy(svc, junk)
<1>1. /\ t.path = S16PathCopy(svc.path) /\ t.depgroups = Map(S16DependencyGroupCopy, svc.depgroups)
      /\ t.insts = [k \in DOMAIN svc.insts |-> S16InstanceCopy(svc.insts[k], junk[k])]
      /\ {"path", "depgroups", "insts"} \subseteq DOMAIN t
  BY DEF S16ServiceCopy
<1> HIDE DEF t
<1>2. HolderOK(t) /\ GroupsTold(t) = GroupsTold(svc)
  BY <1>1, GroupsCopied DEF SvcOK
<1>3. PathOK(t.path) /\ t.path.svc = svc.path.svc /\ t.path.inst = NULL
  BY <1>1, PathCopied DEF SvcOK
<1>4. \A k \in DOMAIN svc.insts : /\ InstOK(t.insts[k]) /\ InstTold(t.insts[k]) = InstTold(svc.insts[k])
                                  /\ t.insts[k].path.svc = svc.path.svc
  BY <1>1, InstCopied DEF SvcOK
<1>5. DOMAIN t.insts = DOMAIN svc.insts /\ t.insts = [k \in DOMAIN svc.insts |-> t.insts[k]]
  BY <1>1
<1>6. IsList(t.insts)
  BY <1>5, ListShape DEF SvcOK
<1>7. Map(InstTold, t.insts) = Map(InstTold, svc.insts)
  BY <1>4, <1>5 DEF Map
<1>8. SvcOK(t) /\ Tells(t) = Tells(svc)
  BY <1>1, <1>2, <1>3, <1>4, <1>5, <1>6, <1>7 DEF SvcOK, Tells
<1> QED BY <1>8 DEF t

\* The instances of a service, sent and received
LEMMA InstsSent ==
  ASSUME NEW svc
  PROVE  LET t == s16db_ucl_to_svc(s16db_S16Serviceo_ucl(svc))
         IN  /\ DOMAIN t.insts = DOMAIN svc.insts /\ t.insts = [k \in DOMAIN svc.insts |-> t.insts[k]]
             /\ \A k \in DOMAIN svc.insts :
                  t.insts[k] = s16db_ucl_to_inst(s16db_inst_to_ucl(svc.insts[k]))
<1> DEFINE u == s16db_S16Serviceo_ucl(svc)
           t == s16db_ucl_to_svc(u)
           i == Map(s16db_inst_to_ucl, svc.insts)
<1>1. u = Entry("path", S16PathToString(svc.path))
            ++ (IF svc.def_inst # NULL THEN Entry("default-instance", svc.def_inst) ELSE <<>>)
            ++ CommonKeys(svc)
            ++ (IF svc.insts # <<>> THEN Entry("instances", i) ELSE <<>>)
            ++ Entry("state", svc.state)
  BY Zenon DEF s16db_S16Serviceo_ucl, KeyIf
<1> HIDE DEF u, i
<1>2. ~Has(CommonKeys(svc), "instances")
  BY Common
<1>3. Has(u, "instances") <=> svc.insts # <<>>
  BY <1>1, <1>2, NoKeys, Objects, Entries
<1>4. svc.insts # <<>> => u["instances"] = i
  BY <1>1, <1>2, NoKeys, Objects, Entries
<1>5. t.insts = AddAll(u, "instances", s16db_ucl_to_inst)
  BY DEF s16db_ucl_to_svc
<1> HIDE DEF t
<1>6. /\ DOMAIN t.insts = DOMAIN svc.insts /\ t.insts = [k \in DOMAIN svc.insts |-> t.insts[k]]
      /\ \A k \in DOMAIN svc.insts : t.insts[k] = s16db_ucl_to_inst(s16db_inst_to_ucl(svc.insts[k]))
  <2>1. CASE svc.insts = <<>>
    <3>1. t.insts = <<>>
      BY <1>3, <1>5, <2>1 DEF AddAll
    <3> QED BY <2>1, <3>1
  <2>2. CASE svc.insts # <<>>
    <3>1. t.insts = Map(s16db_ucl_to_inst, i)
      BY <1>3, <1>4, <1>5, <2>2 DEF AddAll
    <3> QED BY <3>1 DEF Map, i
  <2> QED BY <2>1, <2>2
<1> QED BY <1>6 DEF t, u

\* A service sent and received
LEMMA SvcArrives ==
  ASSUME NEW svc, SvcOK(svc)
  PROVE  LET t == s16db_ucl_to_svc(s16db_S16Serviceo_ucl(svc)) IN SvcOK(t) /\ Tells(t) = Tells(svc)
<1> DEFINE u == s16db_S16Serviceo_ucl(svc)
           t == s16db_ucl_to_svc(u)
           i == Map(s16db_inst_to_ucl, svc.insts)
<1>1. u = Entry("path", S16PathToString(svc.path))
            ++ (IF svc.def_inst # NULL THEN Entry("default-instance", svc.def_inst) ELSE <<>>)
            ++ CommonKeys(svc)
            ++ (IF svc.insts # <<>> THEN Entry("instances", i) ELSE <<>>)
            ++ Entry("state", svc.state)
  BY Zenon DEF s16db_S16Serviceo_ucl, KeyIf
<1> HIDE DEF u, i
<1>2. u["path"] = S16PathToString(svc.path)
  BY <1>1, Objects, Entries
<1>3. Has(u, "dependencies") <=> Has(CommonKeys(svc), "dependencies")
  BY <1>1, NoKeys, Objects, Entries
<1>4. Has(CommonKeys(svc), "dependencies") => u["dependencies"] = CommonKeys(svc)["dependencies"]
  BY <1>1, NoKeys, Objects, Entries
<1>8. /\ t.path = s16db_string_to_path(S16PathToString(svc.path)) /\ t.depgroups = add_depgroups(u)
      /\ {"path", "depgroups", "insts"} \subseteq DOMAIN t
  BY <1>2 DEF s16db_ucl_to_svc
<1> HIDE DEF t
<1>9. HolderOK(t) /\ GroupsTold(t) = GroupsTold(svc)
  <2>1. Has(u, "dependencies") <=> svc.depgroups # <<>>
    BY <1>3, Common
  <2>2. svc.depgroups # <<>> => u["dependencies"] = Map(s16db_S16DependencyGroupo_ucl, svc.depgroups)
    BY <1>4, Common
  <2> QED BY <1>8, <2>1, <2>2, GroupsArrive DEF SvcOK
<1>10. PathOK(t.path) /\ t.path.svc = svc.path.svc /\ t.path.inst = NULL
  BY <1>8, PathArrives DEF SvcOK
<1>11. /\ DOMAIN t.insts = DOMAIN svc.insts /\ t.insts = [k \in DOMAIN svc.insts |-> t.insts[k]]
       /\ \A k \in DOMAIN svc.insts : t.insts[k] = s16db_ucl_to_inst(s16db_inst_to_ucl(svc.insts[k]))
  BY InstsSent DEF t, u
<1>12. \A k \in DOMAIN svc.insts : /\ InstOK(t.insts[k]) /\ InstTold(t.insts[k]) = InstTold(svc.insts[k])
                                   /\ t.insts[k].path.svc = svc.path.svc
  BY <1>11, InstArrives DEF SvcOK
<1>13. IsList(t.insts)
  BY <1>11, ListShape DEF SvcOK
<1>14. Map(InstTold, t.insts) = Map(InstTold, svc.insts)
  BY <1>11, <1>12 DEF Map
<1>15. SvcOK(t) /\ Tells(t) = Tells(svc)
  BY <1>8, <1>9, <1>10, <1>11, <1>12, <1>13, <1>14 DEF SvcOK, Tells
<1> QED BY <1>15 DEF t, u

-----------------------------------------------------------------------------
(* Manifests. *)

\* An object without its name
LEMMA Nameless ==
  ASSUME NEW u, NEW x
  PROVE  /\ Has(WithoutName(u), x) <=> Has(u, x) /\ x # "name"
         /\ Has(u, x) /\ x # "name" => WithoutName(u)[x] = u[x]
BY DEF WithoutName, Has

\* The name of a service that a manifest may have
ServiceName(name) ==
  \/ \E a : name = <<a>> /\ IsName(a)
  \/ \E a : name = <<"svc:/", a>> /\ IsName(a)

\* A path made of it
LEMMA NameRead ==
  ASSUME NEW name, ServiceName(name), NEW n
  PROVE  LET p == s16db_string_to_path(name)
             q == s16db_string_to_path(name \o <<":", n>>)
         IN  /\ PathOK(p) /\ p.svc = Last(name) /\ p.inst = NULL
             /\ PathOK(q) /\ q.svc = Last(name) /\ q.inst = n
<1>1. TRUE \in BOOLEAN /\ FALSE \in BOOLEAN
  BY Zenon
<1>2. ASSUME NEW a, name = <<a>>, IsName(a)
      PROVE  LET p == s16db_string_to_path(name)
                 q == s16db_string_to_path(name \o <<":", n>>)
             IN  /\ PathOK(p) /\ p.svc = Last(name) /\ p.inst = NULL
                 /\ PathOK(q) /\ q.svc = Last(name) /\ q.inst = n
  <2>1. PICK b \in BOOLEAN : s16db_string_to_path(name) = [full_qual |-> b, svc |-> a, inst |-> NULL]
    BY <1>1, <1>2, Parsed, Zenon
  <2>2. name \o <<":", n>> = <<a, ":", n>> /\ Last(name) = a
    BY <1>2, JoinedThree DEF Last
  <2>3. PICK d \in BOOLEAN :
          s16db_string_to_path(name \o <<":", n>>) = [full_qual |-> d, svc |-> a, inst |-> n]
    BY <1>1, <1>2, <2>2, Parsed, Zenon DEF IsName
  <2> QED BY <1>2, <2>1, <2>2, <2>3 DEF PathOK, IsName
<1>3. ASSUME NEW a, name = <<"svc:/", a>>, IsName(a)
      PROVE  LET p == s16db_string_to_path(name)
                 q == s16db_string_to_path(name \o <<":", n>>)
             IN  /\ PathOK(p) /\ p.svc = Last(name) /\ p.inst = NULL
                 /\ PathOK(q) /\ q.svc = Last(name) /\ q.inst = n
  <2>1. PICK b \in BOOLEAN : s16db_string_to_path(name) = [full_qual |-> b, svc |-> a, inst |-> NULL]
    BY <1>1, <1>3, Parsed, Zenon
  <2>2. name \o <<":", n>> = <<"svc:/", a, ":", n>> /\ Last(name) = a
    BY <1>3, JoinedFour DEF Last
  <2>3. PICK d \in BOOLEAN :
          s16db_string_to_path(name \o <<":", n>>) = [full_qual |-> d, svc |-> a, inst |-> n]
    BY <1>1, <1>3, <2>2, Parsed, Zenon DEF IsName
  <2> QED BY <1>3, <2>1, <2>2, <2>3 DEF PathOK, IsName
<1> QED BY <1>2, <1>3 DEF ServiceName

\* An instance of a manifest
LEMMA InstRead ==
  ASSUME NEW name, ServiceName(name), NEW i, NamesPaths(i),
         Has(i, "name") => IsName(i["name"])
  PROVE  LET j == s16db_ucl_to_inst(canonicalise_inst(name, i))
         IN  InstOK(j) /\ InstTold(j) = InstSaid(i) /\ j.path.svc = Last(name)
<1> DEFINE n == IF Has(i, "name") THEN i["name"] ELSE "(null)"
           u == canonicalise_inst(name, i)
           j == s16db_ucl_to_inst(u)
<1>1. u = Entry("path", name \o <<":", n>>) ++ WithoutName(i)
  BY DEF canonicalise_inst
<1> HIDE DEF u, n
<1>2. u["path"] = name \o <<":", n>>
  <2>1. PICK v : v = name \o <<":", n>>
    OBVIOUS
  <2>2. (Entry("path", v) ++ WithoutName(i))["path"] = v
    BY Objects, Entries
  <2> QED BY <1>1, <2>1, <2>2
<1>3. /\ Has(u, "dependencies") <=> Has(i, "dependencies")
      /\ Has(i, "dependencies") => u["dependencies"] = i["dependencies"]
  BY <1>1, Objects, Entries, Nameless
<1>4. /\ j.path = s16db_string_to_path(name \o <<":", n>>) /\ j.depgroups = add_depgroups(u)
      /\ {"path", "depgroups", "enabled"} \subseteq DOMAIN j
  BY <1>2 DEF s16db_ucl_to_inst
<1>5. InstSaid(i) = <<n, GroupsSaid(i)>>
  BY DEF InstSaid, n
<1> HIDE DEF j
<1>6. PathOK(j.path) /\ j.path.inst = n /\ j.path.svc = Last(name)
  BY <1>4, NameRead
<1>0. n # NULL
  BY DEF n, IsName, NULL
<1>7. HolderOK(j) /\ GroupsTold(j) = GroupsSaid(i)
  BY <1>3, <1>4, GroupsRead
<1>8. InstOK(j) /\ InstTold(j) = InstSaid(i) /\ j.path.svc = Last(name)
  BY <1>0, <1>4, <1>5, <1>6, <1>7 DEF InstOK, InstTold
<1> QED BY <1>8 DEF j, u

\* The instances of a manifest
LEMMA InstsRead ==
  ASSUME NEW m \in Manifests, svc_converts(canonicalise_svc(m))
  PROVE  LET t == s16db_ucl_to_svc(canonicalise_svc(m))
             w == m["instances"]
         IN  /\ ~Has(m, "instances") => t.insts = <<>>
             /\ Has(m, "instances") =>
                  /\ DOMAIN t.insts = DOMAIN w /\ t.insts = [k \in DOMAIN w |-> t.insts[k]]
                  /\ \A k \in DOMAIN w :
                       t.insts[k] = s16db_ucl_to_inst(canonicalise_inst(m["name"], w[k]))
             /\ Has(m, "name") /\ ServiceName(m["name"])
<1> DEFINE name == IF Has(m, "name") THEN m["name"] ELSE <<"(null)">>
           Inst(i) == canonicalise_inst(name, i)
           l == Map(Inst, m["instances"])
           u == canonicalise_svc(m)
           t == s16db_ucl_to_svc(u)
           w == m["instances"]
<1>1. u = (IF Has(m, "name") THEN Entry("path", name) ELSE <<>>)
            ++ (IF Has(m, "instances") THEN Entry("instances", l) ELSE <<>>) ++ WithoutName(m)
  BY Zenon DEF canonicalise_svc, KeyIf
<1>2. Has(u, "path")
  BY DEF svc_converts
<1>3. l = [k \in DOMAIN w |-> canonicalise_inst(name, w[k])]
  BY DEF Map
<1> HIDE DEF u, l, name
<1>4. Has(m, "name")
  <2>1. ~Has(m, "path")
    BY ManifestAssumption
  <2> QED BY <1>1, <1>2, <2>1, NoKeys, Objects, Entries, Nameless
<1>5. name = m["name"] /\ ServiceName(name)
  <2>1. name = m["name"]
    BY <1>4 DEF name
  <2>2. IsText(name) /\ Len(name) <= 2
    BY <1>4, <2>1, ManifestAssumption
  <2> QED BY <2>1, <2>2 DEF IsText, ServiceName
<1>6. /\ Has(u, "instances") <=> Has(m, "instances")
      /\ Has(m, "instances") => u["instances"] = l
  BY <1>1, NoKeys, Objects, Entries, Nameless
<1>7. t.insts = AddAll(u, "instances", s16db_ucl_to_inst)
  BY DEF s16db_ucl_to_svc
<1> HIDE DEF t
<1>8. ~Has(m, "instances") => t.insts = <<>>
  BY <1>6, <1>7 DEF AddAll
<1>9. ASSUME Has(m, "instances")
      PROVE  /\ DOMAIN t.insts = DOMAIN w /\ t.insts = [k \in DOMAIN w |-> t.insts[k]]
             /\ \A k \in DOMAIN w : t.insts[k] = s16db_ucl_to_inst(canonicalise_inst(name, w[k]))
  <2>1. t.insts = Map(s16db_ucl_to_inst, l)
    BY <1>6, <1>7, <1>9 DEF AddAll
  <2> HIDE DEF w
  <2> QED BY <1>3, <2>1 DEF Map
<1> QED BY <1>4, <1>5, <1>8, <1>9 DEF t, u

\* A manifest: what svccfg and configd make of it tells what it says.
LEMMA SvcRead ==
  ASSUME NEW m \in Manifests, svc_converts(canonicalise_svc(m))
  PROVE  LET t == s16db_ucl_to_svc(canonicalise_svc(m)) IN SvcOK(t) /\ Tells(t) = Says(m)
<1> DEFINE name == m["name"]
           u == canonicalise_svc(m)
           t == s16db_ucl_to_svc(u)
           w == m["instances"]
<1>1. /\ Has(m, "name") /\ ServiceName(name)
      /\ ~Has(m, "instances") => t.insts = <<>>
      /\ Has(m, "instances") =>
           /\ DOMAIN t.insts = DOMAIN w /\ t.insts = [k \in DOMAIN w |-> t.insts[k]]
           /\ \A k \in DOMAIN w : t.insts[k] = s16db_ucl_to_inst(canonicalise_inst(name, w[k]))
  BY InstsRead
<1>2. PICK l : u = Entry("path", name)
                     ++ (IF Has(m, "instances") THEN Entry("instances", l) ELSE <<>>) ++ WithoutName(m)
  BY <1>1, Zenon DEF canonicalise_svc, KeyIf
<1> HIDE DEF u
<1>3. u["path"] = name
  BY <1>2, Objects, Entries
<1>4. /\ Has(u, "dependencies") <=> Has(m, "dependencies")
      /\ Has(m, "dependencies") => u["dependencies"] = m["dependencies"]
  BY <1>2, NoKeys, Objects, Entries, Nameless
<1>5. /\ t.path = s16db_string_to_path(name) /\ t.depgroups = add_depgroups(u)
      /\ {"path", "depgroups", "insts"} \subseteq DOMAIN t
  BY <1>3 DEF s16db_ucl_to_svc
<1> HIDE DEF t
<1>6. PathOK(t.path) /\ t.path.svc = Last(name) /\ t.path.inst = NULL
  BY <1>1, <1>5, NameRead
<1>7. HolderOK(t) /\ GroupsTold(t) = GroupsSaid(m)
  BY <1>4, <1>5, GroupsRead, ManifestAssumption
<1>8. /\ IsList(t.insts)
      /\ \A k \in DOMAIN t.insts : InstOK(t.insts[k]) /\ t.insts[k].path.svc = Last(name)
      /\ Map(InstTold, t.insts) = InstsSaid(m)
  <2>1. CASE ~Has(m, "instances")
    <3>1. t.insts = <<>>
      BY <1>1, <2>1
    <3>2. DOMAIN <<>> = {} /\ <<>> \in Seq(ToSet(<<>>)) /\ \A x : [k \in {} |-> x] = <<>>
      OBVIOUS
    <3> QED BY <2>1, <3>1, <3>2 DEF IsList, InstsSaid, Map
  <2>2. CASE Has(m, "instances")
    <3>1. /\ IsList(w)
          /\ \A k \in DOMAIN w : NamesPaths(w[k]) /\ (Has(w[k], "name") => IsName(w[k]["name"]))
      BY <2>2, ManifestAssumption
    <3>2. InstsSaid(m) = Map(InstSaid, w)
      BY <2>2 DEF InstsSaid
    <3> HIDE DEF w, name
    <3>3. \A k \in DOMAIN w : /\ InstOK(t.insts[k]) /\ InstTold(t.insts[k]) = InstSaid(w[k])
                              /\ t.insts[k].path.svc = Last(name)
      <4> TAKE k \in DOMAIN w
      <4>1. PICK i : i = w[k] /\ NamesPaths(i) /\ (Has(i, "name") => IsName(i["name"]))
        BY <3>1, Zenon
      <4>2. LET j == s16db_ucl_to_inst(canonicalise_inst(name, i))
            IN  InstOK(j) /\ InstTold(j) = InstSaid(i) /\ j.path.svc = Last(name)
        BY <1>1, <4>1, InstRead
      <4> QED BY <1>1, <2>2, <4>1, <4>2
    <3>4. IsList(t.insts)
      BY <1>1, <2>2, <3>1, ListShape
    <3>5. Map(InstTold, t.insts) = Map(InstSaid, w)
      BY <1>1, <2>2, <3>3 DEF Map
    <3> QED BY <1>1, <2>2, <3>2, <3>3, <3>4, <3>5
  <2> QED BY <2>1, <2>2
<1>9. SvcOK(t) /\ Tells(t) = Says(m)
  BY <1>5, <1>6, <1>7, <1>8 DEF SvcOK, Tells, Says
<1> QED BY <1>9 DEF t, u

-----------------------------------------------------------------------------
(* The methods of a service. *)

\* The instances of svc have the methods that those of a manifest have.
Bears(svc, file) ==
  \A k \in DOMAIN svc.insts :
    MethodsOK(svc.insts[k]) /\ MethodsHeld(svc.insts[k]) = MethodsOf(file["instances"][k])

\* They have no others.
Whole(svc) == \A k \in DOMAIN svc.insts : \A m \in ToSet(svc.insts[k].meths) : m.props # <<>>

\* The copy of a service
LEMMA BearsCopied ==
  ASSUME NEW svc, NEW file, Bears(svc, file), NEW junk
  PROVE  Bears(S16ServiceCopy(svc, junk), file)
<1> DEFINE t == S16ServiceCopy(svc, junk)
<1>1. t.insts = [k \in DOMAIN svc.insts |-> S16InstanceCopy(svc.insts[k], junk[k])]
  BY DEF S16ServiceCopy
<1> HIDE DEF t
<1>2. ASSUME NEW k \in DOMAIN svc.insts
      PROVE  MethodsOK(t.insts[k]) /\ MethodsHeld(t.insts[k]) = MethodsHeld(svc.insts[k])
  <2> DEFINE i == svc.insts[k]
             j == t.insts[k]
  <2>1. "meths" \in DOMAIN j /\ j.meths = Map(S16MethodCopy, i.meths)
    BY <1>1 DEF S16InstanceCopy
  <2>2. MethodsOK(i)
    BY DEF Bears
  <2> HIDE DEF i, j
  <2>3. MethodsOK(j) /\ MethodsHeld(j) = MethodsHeld(i)
    BY <2>1, <2>2, MethodsCopied
  <2> QED BY <2>3 DEF i, j
<1>3. DOMAIN t.insts = DOMAIN svc.insts
  BY <1>1
<1>4. Bears(t, file)
  BY <1>2, <1>3 DEF Bears
<1> QED BY <1>4 DEF t

\* A service sent and received
LEMMA BearsSent ==
  ASSUME NEW svc, NEW file, Bears(svc, file)
  PROVE  LET t == s16db_ucl_to_svc(s16db_S16Serviceo_ucl(svc)) IN Bears(t, file) /\ Whole(t)
<1> DEFINE t == s16db_ucl_to_svc(s16db_S16Serviceo_ucl(svc))
<1>1. /\ DOMAIN t.insts = DOMAIN svc.insts
      /\ \A k \in DOMAIN svc.insts : t.insts[k] = s16db_ucl_to_inst(s16db_inst_to_ucl(svc.insts[k]))
  BY InstsSent
<1> HIDE DEF t
<1>2. ASSUME NEW k \in DOMAIN svc.insts
      PROVE  /\ MethodsOK(t.insts[k]) /\ MethodsHeld(t.insts[k]) = MethodsHeld(svc.insts[k])
             /\ \A m \in ToSet(t.insts[k].meths) : m.props # <<>>
  <2> DEFINE i == svc.insts[k]
             j == t.insts[k]
             u == s16db_inst_to_ucl(i)
  <2>1. /\ Has(u, "methods") <=> Has(CommonKeys(i), "methods")
        /\ Has(CommonKeys(i), "methods") => u["methods"] = CommonKeys(i)["methods"]
    BY Objects, Entries DEF s16db_inst_to_ucl
  <2>2. j = s16db_ucl_to_inst(u) /\ MethodsOK(i)
    BY <1>1 DEF Bears
  <2> HIDE DEF i, j, u
  <2>3. "meths" \in DOMAIN j /\ j.meths = add_meths(u)
    BY <2>2 DEF s16db_ucl_to_inst
  <2>4. /\ Has(u, "methods") <=> i.meths # <<>>
        /\ i.meths # <<>> => u["methods"] = Map(s16db_meth_to_ucl, i.meths)
    BY <2>1, Common
  <2>5. /\ MethodsOK(j) /\ MethodsHeld(j) = MethodsHeld(i)
        /\ \A m \in ToSet(j.meths) : m.props # <<>>
    BY <2>2, <2>3, <2>4, MethodsSent
  <2> QED BY <2>5 DEF i, j
<1>3. Bears(t, file) /\ Whole(t)
  BY <1>1, <1>2 DEF Bears, Whole
<1> QED BY <1>3 DEF t

\* A manifest
LEMMA BearsRead ==
  ASSUME NEW m \in Manifests, svc_converts(canonicalise_svc(m))
  PROVE  Bears(s16db_ucl_to_svc(canonicalise_svc(m)), m)
<1> DEFINE t == s16db_ucl_to_svc(canonicalise_svc(m))
           w == m["instances"]
<1>1. /\ ~Has(m, "instances") => t.insts = <<>>
      /\ Has(m, "instances") =>
           /\ DOMAIN t.insts = DOMAIN w
           /\ \A k \in DOMAIN w : t.insts[k] = s16db_ucl_to_inst(canonicalise_inst(m["name"], w[k]))
  BY InstsRead
<1> HIDE DEF t
<1>2. CASE ~Has(m, "instances")
  BY <1>1, <1>2 DEF Bears, t
<1>3. CASE Has(m, "instances")
  <2>1. \A k \in DOMAIN w : ListsMethods(w[k])
    BY <1>3, ManifestAssumption
  <2>2. ASSUME NEW k \in DOMAIN w
        PROVE  MethodsOK(t.insts[k]) /\ MethodsHeld(t.insts[k]) = MethodsOf(w[k])
    <3> DEFINE i == w[k]
               j == t.insts[k]
               u == canonicalise_inst(m["name"], i)
    <3>1. PICK n : u = Entry("path", n) ++ WithoutName(i)
      BY DEF canonicalise_inst
    <3>2. j = s16db_ucl_to_inst(u) /\ ListsMethods(i)
      BY <1>1, <1>3, <2>1
    <3> HIDE DEF i, j, u
    <3>3. "meths" \in DOMAIN j /\ j.meths = add_meths(u)
      BY <3>2 DEF s16db_ucl_to_inst
    <3>4. /\ Has(u, "methods") <=> Has(i, "methods")
          /\ Has(i, "methods") => u["methods"] = i["methods"]
      BY <3>1, Objects, Entries, Nameless
    <3>5. MethodsOK(j) /\ MethodsHeld(j) = MethodsOf(i)
      BY <3>2, <3>3, <3>4, MethodsRead
    <3> QED BY <3>5 DEF i, j
  <2>3. Bears(t, m)
    BY <1>1, <1>3, <2>2 DEF Bears
  <2> QED BY <2>3 DEF t
<1> QED BY <1>2, <1>3

-----------------------------------------------------------------------------
(* What a step of a client does to it and to what it is sent. *)

IsFull(k) == {"pc", "call", "count", "scope", "view", "note", "since", "got"} \subseteq DOMAIN k

\* Whether a note says that an instance is to be enabled
Wants(n) == n.type = "A_ENABLE"

\* Its notes are as they were.
Kept(k, l) == l.note = k.note /\ l.since = k.since /\ l.got = k.got

\* It connects, calls or writes the call ...
Begins(c) ==
  /\ Kept(clnt[c], clnt'[c]) /\ clnt'[c].scope = clnt[c].scope /\ clnt'[c].view = clnt[c].view
  /\ down'[c] = down[c]
  /\ \/ clnt[c].pc = "off" /\ clnt'[c].pc = "ready" /\ link'[c] = "backlog"
     \/ /\ clnt[c].pc = "ready" /\ clnt'[c].pc = "half" /\ link'[c] = link[c]
        /\ clnt'[c].call \in NextCalls(c)
     \/ /\ clnt[c].pc = "half" /\ clnt'[c].pc = "wait" /\ link'[c] = link[c]
        /\ clnt'[c].call = clnt[c].call /\ down[c] = <<>>

\* ... reads the reply ...
Resumes(c) ==
  /\ clnt[c].pc = "wait" /\ down[c] # <<>> /\ clnt'[c].pc \in {"ready", "loop"}
  /\ Kept(clnt[c], clnt'[c]) /\ down'[c] = Tail(down[c]) /\ link'[c] = link[c]
  /\ \/ clnt'[c].scope \in {clnt[c].scope, <<>>}
     \/ /\ clnt[c].call.method = "get-all-services-merged"
        /\ clnt'[c].scope = s16db_ucl_to_svcs(down[c][1].result)

\* ... takes a note, carries it out ...
Takes(c) ==
  /\ clnt[c].pc = "loop" /\ clnt'[c].pc = "process" /\ down[c] # <<>>
  /\ clnt'[c].got = clnt[c].got /\ clnt'[c].since = clnt[c].since
  /\ clnt'[c].note = <<s16db_ucl_to_note(Head(down[c]).note)>> /\ clnt'[c].view = clnt[c].view
  /\ clnt'[c].scope = clnt[c].scope /\ down'[c] = Tail(down[c]) /\ link'[c] = link[c]

Processes(c) ==
  /\ clnt[c].pc = "process" /\ clnt'[c].pc = "loop"
  /\ clnt'[c].got = Append(clnt[c].got, clnt[c].note[1]) /\ clnt'[c].since = clnt[c].since
  /\ clnt'[c].note = <<>>
  /\ clnt'[c].view = [clnt[c].view EXCEPT ![Key(clnt[c].note[1].path)] = Wants(clnt[c].note[1])]
  /\ clnt'[c].scope = clnt[c].scope /\ down'[c] = down[c] /\ link'[c] = link[c]

\* ... or ends.
Ends(c) ==
  /\ \E end \in {"done", "gone"} : clnt'[c] = Fresh(end)
  /\ down'[c] = <<>> /\ link'[c] = link[c]

Own(c) ==
  /\ Elsewhere(c) /\ UNCHANGED <<srv, db, log>> /\ IsFull(clnt'[c])
  /\ Begins(c) \/ Resumes(c) \/ Takes(c) \/ Processes(c) \/ Ends(c)

\* A client that ends
LEMMA OwnLeave ==
  ASSUME Inv, NEW c \in Client, NEW end \in {"done", "gone"}, Leave(c, end)
  PROVE  Own(c)
<1>1. /\ clnt' = [clnt EXCEPT ![c] = Fresh(end)] /\ down' = [down EXCEPT ![c] = <<>>]
      /\ UNCHANGED <<srv, db, link, up, log>>
  BY DEF Leave
<1>2. clnt'[c] = Fresh(end) /\ down'[c] = <<>> /\ Elsewhere(c)
  BY <1>1 DEF Inv, Shapes, Elsewhere
<1>3. IsFull(Fresh(end))
  BY DEF IsFull, Fresh
<1> QED BY <1>1, <1>2, <1>3 DEF Own, Ends

\* A client that begins or writes a call
LEMMA OwnBegins ==
  ASSUME Inv, NEW c \in Client, IsFull(clnt[c]),
         Connect(c) \/ Write(c) \/ \E m \in NextCalls(c) : Call(c, m)
  PROVE  Own(c)
<1>1. CASE Connect(c)
  <2>1. /\ clnt[c].pc = "off" /\ clnt' = [clnt EXCEPT ![c].pc = "ready"]
        /\ link' = [link EXCEPT ![c] = "backlog"] /\ UNCHANGED <<srv, db, up, down, log>>
    BY <1>1 DEF Connect
  <2>2. /\ clnt'[c].pc = "ready" /\ Kept(clnt[c], clnt'[c]) /\ clnt'[c].scope = clnt[c].scope
        /\ clnt'[c].view = clnt[c].view
    BY <2>1 DEF Inv, Shapes, IsFull, Kept
  <2>3. IsFull(clnt'[c]) /\ Elsewhere(c) /\ link'[c] = "backlog"
    BY <2>1 DEF Inv, Shapes, IsFull, Elsewhere
  <2> QED BY <2>1, <2>2, <2>3 DEF Own, Begins
<1>2. CASE Write(c)
  <2>1. /\ clnt[c].pc = "half" /\ clnt' = [clnt EXCEPT ![c].pc = "wait"]
        /\ up' = [up EXCEPT ![c] = Append(@, clnt[c].call)] /\ UNCHANGED <<srv, db, link, down, log>>
    BY <1>2 DEF Write
  <2>2. /\ clnt'[c].pc = "wait" /\ Kept(clnt[c], clnt'[c]) /\ clnt'[c].scope = clnt[c].scope
        /\ clnt'[c].call = clnt[c].call /\ clnt'[c].view = clnt[c].view
    BY <2>1 DEF Inv, Shapes, IsFull, Kept
  <2>3. IsFull(clnt'[c]) /\ Elsewhere(c)
    BY <2>1 DEF Inv, Shapes, IsFull, Elsewhere
  <2>4. down[c] = <<>>
    BY <2>1 DEF Inv, ConnectionOK
  <2> QED BY <2>1, <2>2, <2>3, <2>4 DEF Own, Begins
<1>3. ASSUME NEW m \in NextCalls(c), Call(c, m)
      PROVE  Own(c)
  <2>1. /\ clnt[c].pc = "ready" /\ clnt' = [clnt EXCEPT ![c].pc = "half", ![c].call = m]
        /\ UNCHANGED <<srv, db, link, up, down, log>>
    BY <1>3 DEF Call, queues
  <2>2. /\ clnt'[c].pc = "half" /\ Kept(clnt[c], clnt'[c]) /\ clnt'[c].scope = clnt[c].scope
        /\ clnt'[c].call = m /\ clnt'[c].view = clnt[c].view
    BY <2>1 DEF Inv, Shapes, IsFull, Kept
  <2>3. IsFull(clnt'[c]) /\ Elsewhere(c)
    BY <2>1 DEF Inv, Shapes, IsFull, Elsewhere
  <2> QED BY <2>1, <2>2, <2>3 DEF Own, Begins
<1> QED BY <1>1, <1>2, <1>3

\* A client that reads a reply
LEMMA OwnResume ==
  ASSUME Inv, NEW c \in Client, clnt[c].pc = "wait", down[c] # <<>>,
         NEW p, Resume(c, p), IsFull(p), Kept(clnt[c], p), p.pc \in {"ready", "loop"},
         \/ p.scope \in {clnt[c].scope, <<>>}
         \/ /\ clnt[c].call.method = "get-all-services-merged"
            /\ p.scope = s16db_ucl_to_svcs(down[c][1].result)
  PROVE  Own(c)
<1> DEFINE k == [p EXCEPT !.count = @ + 1, !.call = NoCall]
<1>1. k.pc = p.pc /\ k.scope = p.scope /\ Kept(p, k) /\ IsFull(k)
  BY DEF IsFull, Kept
<1>2. /\ clnt' = [clnt EXCEPT ![c] = k] /\ down' = [down EXCEPT ![c] = Tail(@)]
      /\ UNCHANGED <<srv, db, link, up, log>>
  BY DEF Resume
<1> HIDE DEF k
<1>3. clnt'[c] = k /\ down'[c] = Tail(down[c]) /\ Elsewhere(c)
  BY <1>2 DEF Inv, Shapes, Elsewhere
<1>4. Kept(clnt[c], k)
  BY <1>1 DEF Kept
<1> QED BY <1>1, <1>2, <1>3, <1>4 DEF Own, Resumes

LEMMA OwnResumes ==
  ASSUME Inv, NEW c \in Client, IsFull(clnt[c]), GotAll(c) \/ GotPath(c) \/ GotResult(c)
  PROVE  Own(c)
<1>1. CASE GotAll(c)
  <2> DEFINE svcs == s16db_ucl_to_svcs(Head(down[c]).result)
             sc   == IF Program[c] \in {"graphd", "svcs"} THEN svcs ELSE <<>>
             vw   == IF Program[c] = "graphd" THEN graph_setup_all(svcs) ELSE <<>>
             p    == [clnt[c] EXCEPT !.pc = "ready", !.scope = sc, !.view = vw]
  <2>1. /\ clnt[c].pc = "wait" /\ down[c] # <<>>
        /\ Head(down[c]).re.method = "get-all-services-merged"
    BY <1>1 DEF GotAll, Receives
  <2>2. Resume(c, p)
    BY <1>1 DEF GotAll
  <2>3. /\ clnt[c].call.method = "get-all-services-merged"
        /\ svcs = s16db_ucl_to_svcs(down[c][1].result)
    BY <2>1, ReplyIsOwn
  <2>4. sc = svcs \/ sc = <<>>
    OBVIOUS
  <2> HIDE DEF svcs, sc, vw
  <2>5. IsFull(p) /\ Kept(clnt[c], p) /\ p.pc = "ready" /\ p.scope = sc
    BY DEF IsFull, Kept
  <2> HIDE DEF p
  <2> QED BY <2>1, <2>2, <2>3, <2>4, <2>5, OwnResume
<1>2. CASE GotPath(c)
  <2> DEFINE an == <<Answer(Head(down[c]).result)>>
             p  == [clnt[c] EXCEPT !.pc = "ready", !.answer = an]
  <2>1. clnt[c].pc = "wait" /\ down[c] # <<>> /\ Resume(c, p)
    BY <1>2 DEF GotPath, Receives
  <2> HIDE DEF an
  <2>2. IsFull(p) /\ Kept(clnt[c], p) /\ p.pc = "ready" /\ p.scope = clnt[c].scope
    BY DEF IsFull, Kept
  <2> HIDE DEF p
  <2> QED BY <2>1, <2>2, OwnResume
<1>3. CASE GotResult(c)
  <2> DEFINE pc == IF Program[c] = "graphd" /\ clnt[c].count = 1 THEN "loop" ELSE "ready"
             p  == [clnt[c] EXCEPT !.pc = pc]
  <2>1. clnt[c].pc = "wait" /\ down[c] # <<>> /\ Resume(c, p)
    BY <1>3 DEF GotResult, Receives
  <2>2. pc \in {"ready", "loop"}
    OBVIOUS
  <2> HIDE DEF pc
  <2>3. IsFull(p) /\ Kept(clnt[c], p) /\ p.pc = pc /\ p.scope = clnt[c].scope
    BY DEF IsFull, Kept
  <2> HIDE DEF p
  <2> QED BY <2>1, <2>2, <2>3, OwnResume
<1> QED BY <1>1, <1>2, <1>3

\* graphd takes a note and carries it out.
LEMMA OwnNote ==
  ASSUME Inv, NEW c \in Client, IsFull(clnt[c]), Notified(c) \/ Process(c)
  PROVE  Own(c)
<1>1. CASE Notified(c)
  <2> DEFINE n == <<s16db_ucl_to_note(Head(down[c]).note)>>
  <2>1. /\ clnt[c].pc = "loop" /\ down[c] # <<>>
        /\ clnt' = [clnt EXCEPT ![c].pc = "process", ![c].note = n]
        /\ up' = [up EXCEPT ![c] = Append(@, Noted)]
        /\ down' = [down EXCEPT ![c] = Tail(@)] /\ UNCHANGED <<srv, db, link, log>>
    BY <1>1 DEF Notified
  <2> HIDE DEF n
  <2>2. /\ clnt'[c].pc = "process" /\ clnt'[c].note = n /\ clnt'[c].got = clnt[c].got
        /\ clnt'[c].since = clnt[c].since /\ clnt'[c].scope = clnt[c].scope
        /\ clnt'[c].view = clnt[c].view
    BY <2>1 DEF Inv, Shapes, IsFull
  <2>3. IsFull(clnt'[c]) /\ Elsewhere(c) /\ down'[c] = Tail(down[c])
    BY <2>1 DEF Inv, Shapes, IsFull, Elsewhere
  <2> QED BY <2>1, <2>2, <2>3 DEF Own, Takes, n
<1>2. CASE Process(c)
  <2> DEFINE note == clnt[c].note[1]
             key  == Key(note.path)
             en   == Wants(note)
  <2>1. /\ clnt[c].pc = "process"
        /\ clnt' = [clnt EXCEPT ![c].pc = "loop", ![c].note = <<>>, ![c].view[key] = en,
                                ![c].got = Append(@, note)]
        /\ UNCHANGED <<srv, db, link, up, down, log>>
    BY <1>2 DEF Process, queues, Wants
  <2> HIDE DEF note, key, en
  <2>2. /\ clnt'[c].pc = "loop" /\ clnt'[c].note = <<>> /\ clnt'[c].got = Append(clnt[c].got, note)
        /\ clnt'[c].since = clnt[c].since /\ clnt'[c].scope = clnt[c].scope
        /\ clnt'[c].view = [clnt[c].view EXCEPT ![key] = en]
    BY <2>1 DEF Inv, Shapes, IsFull
  <2>3. IsFull(clnt'[c]) /\ Elsewhere(c)
    BY <2>1 DEF Inv, Shapes, IsFull, Elsewhere
  <2> QED BY <2>1, <2>2, <2>3 DEF Own, Processes, note, key, en
<1> QED BY <1>1, <1>2

\* All steps of a client
LEMMA OwnSteps ==
  ASSUME Inv, NEW c \in Client, IsFull(clnt[c]), Work(c) \/ Begin(c) \/ Quit(c) \/ Kill(c)
  PROVE  Own(c)
<1>1. CASE Leave(c, "done") \/ Leave(c, "gone")
  BY <1>1, OwnLeave
<1>2. CASE Work(c)
  BY <1>1, <1>2, OwnBegins, OwnResumes, OwnNote DEF Work, PeerGone, GotAllFails, ProcessFails
<1>3. CASE Begin(c)
  BY <1>1, <1>3, OwnBegins DEF Begin, ConnectFails, CallFails
<1>4. CASE Quit(c) \/ Kill(c)
  BY <1>1, <1>4 DEF Quit, Kill
<1> QED BY <1>2, <1>3, <1>4

-----------------------------------------------------------------------------
(* The invariant. *)

\* Services that are those of the imports, from the first on
Serves(svcs, imports) ==
  /\ IsList(svcs) /\ Len(svcs) <= Len(imports)
  /\ \A k \in DOMAIN svcs : /\ SvcOK(svcs[k]) /\ Tells(svcs[k]) = Says(imports[k].file)
                            /\ Bears(svcs[k], imports[k].file)

\* Such services as a client has them, without the methods that are not sent
Holds(svcs, imports) == Serves(svcs, imports) /\ \A k \in DOMAIN svcs : Whole(svcs[k])

\* The layers of the repository d have all of the imports.
StoreOK(d, l) ==
  /\ {"manifest", "merged"} \subseteq DOMAIN d /\ {"requests", "imports"} \subseteq DOMAIN l
  /\ IsList(l.imports)
  /\ Serves(d.manifest, l.imports) /\ Len(d.manifest) = Len(l.imports)
  /\ Serves(d.merged, l.imports) /\ Len(d.merged) = Len(l.imports)

\* A client k on a connection in state l with d on its way down: it calls what
\* its program calls, and has, or will read, services that are those imported.
HoldsOK(c, l, d, k, imports) ==
  /\ IsFull(k)
  /\ k.pc = "off" => k.scope = <<>>
  /\ k.pc \in {"half", "wait"} => k.call \in {GetAll, Subscribe} \cup Requests(c)
  /\ l \in {"backlog", "open"} /\ Living(k) =>
       /\ Holds(k.scope, imports)
       /\ k.pc = "wait" /\ d # <<>> /\ k.call.method = "get-all-services-merged" =>
            Holds(s16db_ucl_to_svcs(d[1].result), imports)

DataInv ==
  /\ StoreOK(db, log)
  /\ \A c \in Client : HoldsOK(c, link[c], down[c], clnt[c], log.imports)

\* Nothing at all
LEMMA ServesNone ==
  ASSUME NEW imports, IsList(imports)
  PROVE  Holds(<<>>, imports) /\ Serves(<<>>, imports) /\ IsList(<<>>)
<1>1. <<>> \in Seq({}) /\ Len(<<>>) = 0 /\ DOMAIN <<>> = {}
  OBVIOUS
<1>2. IsList(<<>>) /\ Len(imports) \in Nat
  BY <1>1, SeqIsList DEF IsList
<1> QED BY <1>1, <1>2 DEF Serves, Holds

\* Another import changes nothing about the ones before.
LEMMA ServesMore ==
  ASSUME NEW svcs, NEW imports, IsList(imports), Serves(svcs, imports), NEW e
  PROVE  Serves(svcs, Append(imports, e))
<1>1. /\ Len(svcs) \in Nat /\ DOMAIN svcs = 1 .. Len(svcs) /\ Len(imports) \in Nat
      /\ Len(svcs) <= Len(imports)
  BY LongerList DEF Serves
<1>2. /\ Len(Append(imports, e)) = Len(imports) + 1
      /\ \A k \in 1 .. Len(imports) : Append(imports, e)[k] = imports[k]
  BY LongerList
<1>3. \A k \in DOMAIN svcs : Append(imports, e)[k] = imports[k]
  BY <1>1, <1>2
<1>4. Len(svcs) <= Len(Append(imports, e))
  BY <1>1, <1>2
<1> QED BY <1>3, <1>4 DEF Serves

\* Services that say the same as others
LEMMA ServesSame ==
  ASSUME NEW a, NEW imports, Serves(a, imports), NEW b, b = [k \in DOMAIN a |-> b[k]],
         \A k \in DOMAIN a : SvcOK(b[k]) /\ Tells(b[k]) = Tells(a[k]),
         \A k \in DOMAIN a : \A file : Bears(a[k], file) => Bears(b[k], file)
  PROVE  Serves(b, imports) /\ Len(b) = Len(a)
<1>1. IsList(b) /\ Len(b) = Len(a)
  BY ListShape DEF Serves
<1>2. DOMAIN b = DOMAIN a
  OBVIOUS
<1> QED BY <1>1, <1>2 DEF Serves

\* db_import: both layers have one more service.
LEMMA Imports ==
  ASSUME NEW d, NEW l, StoreOK(d, l), NEW svc, SvcOK(svc), NEW e, Tells(svc) = Says(e.file),
         Bears(svc, e.file), NEW junk
  PROVE  StoreOK(db_import(d, svc, junk), [l EXCEPT !.imports = Append(@, e)])
<1> DEFINE imports == Append(l.imports, e)
           manifest == Append(d.manifest, svc)
           merged == update_merged(manifest, junk)
           s == db_import(d, svc, junk)
           t == [l EXCEPT !.imports = imports]
<1>1. /\ {"manifest", "merged"} \subseteq DOMAIN s /\ s.manifest = manifest /\ s.merged = merged
  BY DEF db_import
<1>2. {"requests", "imports"} \subseteq DOMAIN t /\ t.imports = imports
  BY DEF StoreOK
<1>3. /\ IsList(l.imports) /\ IsList(d.manifest) /\ Len(d.manifest) = Len(l.imports)
      /\ Serves(d.manifest, l.imports)
  BY DEF StoreOK, Serves
<1>4. IsList(imports) /\ IsList(manifest) /\ Len(manifest) = Len(imports)
  BY <1>3, LongerList
<1>5. Serves(manifest, imports)
  <2>1. Serves(d.manifest, imports)
    BY <1>3, ServesMore
  <2>2. ASSUME NEW k \in DOMAIN manifest
        PROVE  /\ SvcOK(manifest[k]) /\ Tells(manifest[k]) = Says(imports[k].file)
               /\ Bears(manifest[k], imports[k].file)
    <3>1. CASE k \in 1 .. Len(d.manifest)
      <4>1. manifest[k] = d.manifest[k] /\ k \in DOMAIN d.manifest
        BY <1>3, <3>1, LongerList
      <4> HIDE DEF manifest, imports
      <4> QED BY <2>1, <4>1 DEF Serves
    <3>2. CASE k = Len(d.manifest) + 1
      <4>1. manifest[k] = svc /\ imports[k] = e
        BY <1>3, <3>2, LongerList
      <4> HIDE DEF manifest, imports
      <4> QED BY <4>1
    <3>3. k \in 1 .. Len(d.manifest) + 1 /\ Len(d.manifest) \in Nat
      BY <1>3, LongerList
    <3> HIDE DEF manifest, imports
    <3> QED BY <3>1, <3>2, <3>3
  <2>3. Len(manifest) \in Nat
    BY <1>4, LongerList
  <2> HIDE DEF manifest, imports
  <2> QED BY <1>4, <2>2, <2>3 DEF Serves
<1> HIDE DEF manifest, imports
<1>6. Serves(merged, imports) /\ Len(merged) = Len(manifest)
  <2>1. merged = [k \in DOMAIN manifest |-> S16ServiceCopy(manifest[k], junk[k])]
    BY DEF update_merged
  <2> HIDE DEF merged
  <2>2. merged = [k \in DOMAIN manifest |-> merged[k]]
    BY <2>1
  <2>3. \A k \in DOMAIN manifest : SvcOK(merged[k]) /\ Tells(merged[k]) = Tells(manifest[k])
    BY <1>5, <2>1, SvcCopied DEF Serves
  <2>4. \A k \in DOMAIN manifest : \A file : Bears(manifest[k], file) => Bears(merged[k], file)
    BY <2>1, BearsCopied
  <2> QED BY <1>5, <2>2, <2>3, <2>4, ServesSame
<1> HIDE DEF merged, s, t
<1>7. StoreOK(s, t)
  BY <1>1, <1>2, <1>4, <1>5, <1>6 DEF StoreOK
<1> QED BY <1>7 DEF s, t, imports

\* db_set_enabled: the flags of instances say nothing of what they depend on.
LEMMA Flags ==
  ASSUME NEW d, NEW l, StoreOK(d, l), NEW p, NEW enabled
  PROVE  StoreOK(SetFlags(d, p, enabled), l)
<1> DEFINE lu == db_lookup_path_merged(d, p)
           insts == d.manifest[lu.s].insts
           Flag(k) == IF lu.type = "SVC" THEN FALSE
                      ELSE IF k = lu.i THEN enabled ELSE insts[k].enabled
           new == [k \in DOMAIN insts |-> [insts[k] EXCEPT !.enabled = Flag(k)]]
           s == SetFlags(d, p, enabled)
<1>1. s = [d EXCEPT !.manifest[lu.s].insts = new]
  BY DEF SetFlags
<1>2. PICK n : n = lu.s
  OBVIOUS
<1>3. /\ DOMAIN new = DOMAIN insts /\ new = [k \in DOMAIN insts |-> new[k]]
      /\ \A k \in DOMAIN insts : new[k] = [insts[k] EXCEPT !.enabled = Flag(k)]
  OBVIOUS
<1>4. insts = d.manifest[n].insts /\ s = [d EXCEPT !.manifest[n].insts = new]
  BY <1>1, <1>2
<1> HIDE DEF new, insts, Flag, s, lu
<1>5. /\ {"manifest", "merged"} \subseteq DOMAIN s /\ s.merged = d.merged
      /\ s.manifest = [k \in DOMAIN d.manifest |-> s.manifest[k]]
      /\ \A k \in DOMAIN d.manifest : k # n => s.manifest[k] = d.manifest[k]
      /\ n \in DOMAIN d.manifest => s.manifest[n] = [d.manifest[n] EXCEPT !.insts = new]
  BY <1>4 DEF StoreOK
<1>6. ASSUME n \in DOMAIN d.manifest
      PROVE  /\ SvcOK(s.manifest[n]) /\ Tells(s.manifest[n]) = Tells(d.manifest[n])
             /\ \A file : Bears(d.manifest[n], file) => Bears(s.manifest[n], file)
  <2> DEFINE old == d.manifest[n]
             svc == s.manifest[n]
  <2>1. SvcOK(old) /\ insts = old.insts /\ svc = [old EXCEPT !.insts = new]
    BY <1>4, <1>5, <1>6 DEF StoreOK, Serves
  <2> HIDE DEF old, svc
  <2>2. /\ {"path", "depgroups", "insts"} \subseteq DOMAIN svc /\ svc.path = old.path
        /\ svc.depgroups = old.depgroups /\ svc.insts = new
    BY <2>1 DEF SvcOK
  <2>3. \A k \in DOMAIN insts :
          /\ {"path", "depgroups", "enabled"} \subseteq DOMAIN new[k] /\ new[k].path = insts[k].path
          /\ new[k].depgroups = insts[k].depgroups /\ InstOK(insts[k])
    BY <1>3, <2>1 DEF SvcOK, InstOK
  <2>4. \A k \in DOMAIN insts : InstOK(new[k]) /\ InstTold(new[k]) = InstTold(insts[k])
    BY <2>3 DEF InstOK, HolderOK, InstTold, GroupsTold
  <2>5. IsList(new)
    BY <1>3, <2>1, ListShape DEF SvcOK
  <2>6. Map(InstTold, new) = Map(InstTold, insts)
    BY <1>3, <2>4 DEF Map
  <2>7. \A k \in DOMAIN new : InstOK(new[k]) /\ new[k].path.svc = svc.path.svc
    BY <1>3, <2>1, <2>2, <2>3, <2>4 DEF SvcOK
  <2>8. SvcOK(svc)
    BY <2>1, <2>2, <2>5, <2>7 DEF SvcOK, HolderOK
  <2>9. Tells(svc) = Tells(old)
    BY <2>1, <2>2, <2>6 DEF Tells, GroupsTold
  <2>10. \A k \in DOMAIN insts :
           MethodsOK(insts[k]) => MethodsOK(new[k]) /\ MethodsHeld(new[k]) = MethodsHeld(insts[k])
    <3>1. \A k \in DOMAIN insts : "meths" \in DOMAIN insts[k] =>
            "meths" \in DOMAIN new[k] /\ new[k].meths = insts[k].meths
      BY <1>3
    <3> QED BY <3>1 DEF MethodsOK, MethodsHeld
  <2>11. \A file : Bears(old, file) => Bears(svc, file)
    BY <1>3, <2>1, <2>2, <2>10 DEF Bears
  <2> QED BY <2>8, <2>9, <2>11 DEF old, svc
<1>7. /\ \A k \in DOMAIN d.manifest :
           SvcOK(s.manifest[k]) /\ Tells(s.manifest[k]) = Tells(d.manifest[k])
      /\ \A k \in DOMAIN d.manifest : \A file : Bears(d.manifest[k], file) => Bears(s.manifest[k], file)
  BY <1>5, <1>6 DEF StoreOK, Serves
<1>8. Serves(s.manifest, l.imports) /\ Len(s.manifest) = Len(d.manifest)
  BY <1>5, <1>7, ServesSame DEF StoreOK
<1>9. StoreOK(s, l)
  BY <1>5, <1>8 DEF StoreOK
<1> QED BY <1>9 DEF s

\* get-all-services-merged: the reply, as it will be read
LEMMA AllSent ==
  ASSUME NEW d, NEW l, StoreOK(d, l)
  PROVE  Holds(s16db_ucl_to_svcs(handle_get_all_services_merged(d).result), l.imports)
<1> DEFINE r == Map(s16db_S16Serviceo_ucl, d.merged)
           b == s16db_ucl_to_svcs(r)
<1>1. handle_get_all_services_merged(d).result = r
  BY DEF handle_get_all_services_merged, Outcome
<1>2. /\ b = [k \in DOMAIN d.merged |-> b[k]]
      /\ \A k \in DOMAIN d.merged : b[k] = s16db_ucl_to_svc(s16db_S16Serviceo_ucl(d.merged[k]))
  BY DEF s16db_ucl_to_svcs, Map
<1> HIDE DEF b, r
<1>3. \A k \in DOMAIN d.merged : SvcOK(b[k]) /\ Tells(b[k]) = Tells(d.merged[k])
  BY <1>2, SvcArrives DEF StoreOK, Serves
<1>4. /\ \A k \in DOMAIN d.merged : \A file : Bears(d.merged[k], file) => Bears(b[k], file)
      /\ \A k \in DOMAIN d.merged : Whole(b[k])
  <2>1. \A k \in DOMAIN d.merged : \E file : Bears(d.merged[k], file)
    BY DEF StoreOK, Serves
  <2> QED BY <1>2, <2>1, BearsSent
<1>5. Serves(b, l.imports)
  BY <1>2, <1>3, <1>4, ServesSame DEF StoreOK
<1>6. DOMAIN b = DOMAIN d.merged
  BY <1>2
<1>7. Holds(b, l.imports)
  BY <1>4, <1>5, <1>6 DEF Holds
<1> QED BY <1>1, <1>7 DEF b

-----------------------------------------------------------------------------
(* The steps. *)

\* The requests there are
LEMMA WhatIsAsked ==
  ASSUME NEW c \in Client, NEW m \in {GetAll, Subscribe} \cup Requests(c)
  PROVE  \/ m = GetAll
         \/ m = Subscribe
         \/ \E en \in BOOLEAN, txt \in Paths : m = SetEnabled(en, txt)
         \/ \E f \in Manifests : m = Import(f)
         \/ \E txt \in Paths : m = GetPath(txt)
<1>1. CASE Program[c] = "svcadm"
  <2>1. Requests(c) = {SetEnabled(en, txt) : en \in BOOLEAN, txt \in Paths}
    BY <1>1 DEF Requests
  <2>2. ASSUME m \in Requests(c)
        PROVE  \E en \in BOOLEAN, txt \in Paths : m = SetEnabled(en, txt)
    BY <2>1, <2>2
  <2> QED BY <2>2
<1>2. CASE Program[c] = "svccfg"
  <2>1. Requests(c) = {Import(f) : f \in Manifests}
    BY <1>2 DEF Requests
  <2> QED BY <2>1, Zenon
<1>3. CASE Program[c] = "lookup"
  <2>1. Requests(c) = {GetPath(txt) : txt \in Paths}
    BY <1>3 DEF Requests
  <2> QED BY <2>1, Zenon
<1>4. CASE Program[c] \notin {"svcadm", "svccfg", "lookup"}
  BY <1>4 DEF Requests
<1> QED BY <1>1, <1>2, <1>3, <1>4

\* What a request does to the repository and to the history of imports
LEMMA HandledStore ==
  ASSUME StoreOK(db, log), NEW c \in Client, NEW m \in {GetAll, Subscribe} \cup Requests(c),
         NEW o \in Outcomes(m)
  PROVE  LET l == Logged(m, o.notes)
         IN  /\ StoreOK(o.db, l) /\ \A svcs : Holds(svcs, log.imports) => Holds(svcs, l.imports)
             /\ m.method = "get-all-services-merged" =>
                  Holds(s16db_ucl_to_svcs(o.result), log.imports)
<1> DEFINE l == Logged(m, o.notes)
           Good == /\ StoreOK(o.db, l)
                   /\ \A svcs : Holds(svcs, log.imports) => Holds(svcs, l.imports)
                   /\ m.method = "get-all-services-merged" =>
                        Holds(s16db_ucl_to_svcs(o.result), log.imports)
<1>1. CASE m = GetAll
  <2>1. m.method = "get-all-services-merged" /\ l = log
    BY <1>1 DEF GetAll, Logged
  <2>2. o = handle_get_all_services_merged(db)
    BY <2>1 DEF Outcomes
  <2>3. o.db = db
    BY <2>2 DEF handle_get_all_services_merged, Outcome
  <2>4. Holds(s16db_ucl_to_svcs(o.result), log.imports)
    BY <2>2, AllSent
  <2> QED BY <2>1, <2>3, <2>4
<1>2. CASE m = Subscribe
  <2>1. m.method = "subscribe" /\ l = log
    BY <1>2 DEF Subscribe, Logged
  <2>2. o = Outcome(db, <<>>, 0)
    BY <2>1 DEF Outcomes
  <2>3. o.db = db
    BY <2>2 DEF Outcome
  <2> QED BY <2>1, <2>3
<1>3. ASSUME NEW en \in BOOLEAN, NEW txt \in Paths, m = SetEnabled(en, txt)
      PROVE  Good
  <2>1. m.method \in {"enable", "disable"}
    BY <1>3 DEF SetEnabled
  <2>2. o = handle_disable(db, m.param, m.method = "enable")
    BY <2>1 DEF Outcomes
  <2>3. PICK p, e : o.db = SetFlags(db, p, e)
    BY <2>2 DEF handle_disable, Outcome
  <2>4. PICK r : l = [log EXCEPT !.requests = r]
    BY <2>1, Zenon DEF Logged
  <2> HIDE DEF l
  <2>5. {"requests", "imports"} \subseteq DOMAIN l /\ l.imports = log.imports
    BY <2>4 DEF StoreOK
  <2>6. StoreOK(o.db, log)
    BY <2>3, Flags
  <2> QED BY <2>1, <2>5, <2>6 DEF StoreOK
<1>4. ASSUME NEW f \in Manifests, m = Import(f)
      PROVE  Good
  <2>1. m.method = "import-service" /\ m.param = canonicalise_svc(f) /\ m.file = f
    BY <1>4 DEF Import
  <2>2. o \in handle_import_service(db, m.param)
    BY <2>1 DEF Outcomes
  <2>3. CASE ~svc_converts(m.param)
    <3>1. o = Outcome(db, <<>>, 0) /\ l = log
      BY <2>1, <2>2, <2>3 DEF handle_import_service, Logged
    <3>2. o.db = db
      BY <3>1 DEF Outcome
    <3> QED BY <2>1, <3>1, <3>2
  <2>4. CASE svc_converts(m.param)
    <3> DEFINE svc == s16db_ucl_to_svc(m.param)
               e == [path |-> s16db_string_to_path(m.param["path"]), file |-> m.file,
                     at |-> Len(log.requests)]
    <3>1. PICK junk : o = Outcome(db_import(db, svc, junk), <<>>, 0)
      BY <2>2, <2>4, Zenon DEF handle_import_service
    <3>2. l = [log EXCEPT !.imports = Append(@, e)]
      BY <2>1, <2>4 DEF Logged
    <3>3. e.file = f
      BY <2>1
    <3>4. SvcOK(svc) /\ Tells(svc) = Says(f) /\ Bears(svc, f)
      BY <2>1, <2>4, SvcRead, BearsRead
    <3> HIDE DEF svc, e, l
    <3>5. o.db = db_import(db, svc, junk)
      BY <3>1 DEF Outcome
    <3>6. StoreOK(o.db, l)
      BY <3>2, <3>3, <3>4, <3>5, Imports
    <3>7. l.imports = Append(log.imports, e) /\ IsList(log.imports)
      BY <3>2 DEF StoreOK
    <3> QED BY <2>1, <3>6, <3>7, ServesMore DEF Holds
  <2> QED BY <2>3, <2>4
<1>5. ASSUME NEW txt \in Paths, m = GetPath(txt)
      PROVE  Good
  <2>1. m.method = "get-path-merged" /\ l = log
    BY <1>5 DEF GetPath, Logged
  <2>2. o = handle_get_path_merged(db, m.param)
    BY <2>1 DEF Outcomes
  <2>3. o.db = db
    BY <2>2 DEF handle_get_path_merged, Outcome
  <2> QED BY <2>1, <2>3
<1> HIDE DEF Good
<1>6. Good
  BY <1>1, <1>2, <1>3, <1>4, <1>5, WhatIsAsked DEF Good
<1> QED BY <1>6 DEF Good

\* The message that configd handles is the call of a client that waits.
LEMMA HandledCall ==
  ASSUME Inv, Handle
  PROVE  LET c == srv.who
         IN  /\ c \in Client /\ clnt[c].pc = "wait" /\ Head(up[c]) = clnt[c].call
             /\ down[c] = <<>> /\ link[c] = "open" /\ ~Sub(srv, c)
<1> DEFINE c == srv.who
<1>1. srv.pc = "recv" /\ up[c] # <<>> /\ Living(clnt[c])
  BY DEF Handle, Alive, Living
<1>2. c \in Client /\ ConnectionOK(c, srv, link[c], up[c], down[c], clnt[c])
  BY <1>1 DEF Inv, ServerOK
<1>3. link[c] = "open" /\ ~Waits(srv, c)
  BY <1>1, <1>2 DEF ConnectionOK, Waits
<1> HIDE DEF c
<1>4. clnt[c].pc = "wait" /\ up[c] = <<clnt[c].call>> /\ down[c] = <<>> /\ ~Sub(srv, c)
  BY <1>1, <1>2, <1>3 DEF ConnectionOK
<1>5. Head(up[c]) = clnt[c].call
  BY <1>4, Short
<1> QED BY <1>2, <1>3, <1>4, <1>5 DEF c

\* A request is handled.
LEMMA HandleData ==
  ASSUME Inv, DataInv, Handle
  PROVE  DataInv'
<1> DEFINE c == srv.who
           m == Head(up[c])
<1>1. /\ c \in Client /\ clnt[c].pc = "wait" /\ m = clnt[c].call /\ down[c] = <<>>
  BY HandledCall
<1>2. /\ clnt' = IF m.method = "subscribe" THEN [clnt EXCEPT ![c].since = Len(log.requests)] ELSE clnt
      /\ link' = link
  BY DEF Handle
<1>3. PICK o \in Outcomes(m) :
        /\ db' = o.db /\ log' = Logged(m, o.notes)
        /\ down' = [down EXCEPT ![c] = Append(@, Reply(m, o.result))]
  BY Zenon DEF Handle
<1> DEFINE rep == Reply(m, o.result)
<1>4. rep.result = o.result
  BY DEF Reply
<1>5. down' = [down EXCEPT ![c] = Append(@, rep)]
  BY <1>3
<1> HIDE DEF c, m, rep
<1>6. HoldsOK(c, link[c], down[c], clnt[c], log.imports)
  BY <1>1 DEF DataInv
<1>7. m \in {GetAll, Subscribe} \cup Requests(c)
  BY <1>1, <1>6 DEF HoldsOK
<1>8. /\ StoreOK(db', log')
      /\ \A svcs : Holds(svcs, log.imports) => Holds(svcs, log'.imports)
      /\ m.method = "get-all-services-merged" => Holds(s16db_ucl_to_svcs(o.result), log'.imports)
  BY <1>1, <1>3, <1>7, HandledStore DEF DataInv
<1>9. down'[c] = <<rep>> /\ \A d \in Client \ {c} : down'[d] = down[d] /\ clnt'[d] = clnt[d]
  BY <1>1, <1>2, <1>5, Short DEF Inv, Shapes
<1>10. /\ IsFull(clnt'[c]) /\ clnt'[c].pc = clnt[c].pc /\ clnt'[c].call = clnt[c].call
       /\ clnt'[c].scope = clnt[c].scope
  <2>1. CASE clnt' = clnt
    BY <1>6, <2>1 DEF HoldsOK
  <2>2. CASE clnt' = [clnt EXCEPT ![c].since = Len(log.requests)]
    BY <1>1, <1>6, <2>2 DEF Inv, Shapes, HoldsOK, IsFull
  <2> QED BY <1>2, <2>1, <2>2
<1>11. HoldsOK(c, link'[c], down'[c], clnt'[c], log'.imports)
  <2>1. <<rep>>[1] = rep
    BY Short
  <2> QED BY <1>1, <1>2, <1>4, <1>6, <1>8, <1>9, <1>10, <2>1 DEF HoldsOK, Living
<1>12. ASSUME NEW d \in Client \ {c}
       PROVE  HoldsOK(d, link'[d], down'[d], clnt'[d], log'.imports)
  <2>1. HoldsOK(d, link[d], down[d], clnt[d], log.imports)
    BY DEF DataInv
  <2> QED BY <1>2, <1>8, <1>9, <2>1 DEF HoldsOK
<1> QED BY <1>8, <1>11, <1>12 DEF DataInv

\* The end of configd takes the repository with it, and what its clients hold
\* from it does not count any more.
LEMMA EndedData ==
  ASSUME Inv, DataInv, Ended
  PROVE  DataInv'
<1>1. /\ db' = EmptyDb /\ log' = NoLog /\ UNCHANGED <<down, clnt>>
      /\ link' = [c \in Client |-> IF link[c] = "none" THEN "none" ELSE "closed"]
  BY DEF Ended
<1>2. /\ {"manifest", "merged"} \subseteq DOMAIN EmptyDb /\ {"requests", "imports"} \subseteq DOMAIN NoLog
      /\ EmptyDb.manifest = <<>> /\ EmptyDb.merged = <<>> /\ NoLog.imports = <<>>
  BY DEF EmptyDb, NoLog
<1>3. IsList(<<>>) /\ Serves(<<>>, <<>>)
  <2>1. <<>> \in Seq({})
    OBVIOUS
  <2> QED BY <2>1, SeqIsList, ServesNone
<1>4. StoreOK(db', log')
  BY <1>1, <1>2, <1>3 DEF StoreOK
<1>5. ASSUME NEW c \in Client
      PROVE  HoldsOK(c, link'[c], down'[c], clnt'[c], log'.imports)
  <2>1. HoldsOK(c, link[c], down[c], clnt[c], log.imports)
    BY DEF DataInv
  <2>2. link'[c] \notin {"backlog", "open"}
    BY <1>1
  <2> QED BY <1>1, <2>1, <2>2 DEF HoldsOK
<1> QED BY <1>4, <1>5 DEF DataInv

\* The other steps of configd
LEMMA ServerData ==
  ASSUME Inv, DataInv, UNCHANGED <<db, log, clnt>>,
         \A c \in Client :
           /\ link'[c] \in {"backlog", "open"} => link[c] \in {"backlog", "open"}
           /\ \/ down'[c] = down[c]
              \/ ~(clnt[c].pc = "wait" /\ clnt[c].call.method = "get-all-services-merged")
  PROVE  DataInv'
<1>1. ASSUME NEW c \in Client
      PROVE  HoldsOK(c, link'[c], down'[c], clnt'[c], log'.imports)
  <2>1. HoldsOK(c, link[c], down[c], clnt[c], log.imports)
    BY DEF DataInv
  <2> QED BY <2>1 DEF HoldsOK
<1> QED BY <1>1 DEF DataInv

LEMMA EventData ==
  ASSUME Inv, DataInv,
         Start \/ StartFails \/ HandleNothing \/ NextNote \/ Tell \/ Told \/ Event
  PROVE  DataInv'
<1>1. CASE Start \/ StartFails \/ HandleNothing \/ NextNote \/ Told
           \/ \E c \in Client : Readable(c)
  <2>1. UNCHANGED <<db, log, clnt, link, down>>
    BY <1>1 DEF Start, StartFails, HandleNothing, NextNote, Told, Readable, queues
  <2> QED BY <2>1, ServerData
<1>2. ASSUME NEW c \in Client, Accept(c) \/ Eof(c)
      PROVE  DataInv'
  <2>1. /\ UNCHANGED <<db, log, clnt, down>> /\ link[c] \in {"backlog", "open"}
        /\ \E l : link' = [link EXCEPT ![c] = l]
    BY <1>2 DEF Accept, Eof
  <2>2. \A d \in Client \ {c} : link'[d] = link[d]
    BY <2>1 DEF Inv, Shapes
  <2> QED BY <2>1, <2>2, ServerData
<1>3. CASE Tell
  <2> DEFINE c == Head(srv.todo)
             n == Notify(srv.hand[1])
  <2>1. /\ srv.todo # <<>> /\ Living(clnt[c]) /\ down' = [down EXCEPT ![c] = Append(@, n)]
        /\ UNCHANGED <<db, log, clnt, link>>
    BY <1>3 DEF Tell, Alive, Living
  <2>2. c \in Client /\ Sub(srv, c)
    BY <2>1, Lists DEF Inv, ServerOK, Sub
  <2> HIDE DEF c, n
  <2>3. ~(clnt[c].pc = "wait" /\ clnt[c].call.method = "get-all-services-merged")
    BY <2>1, <2>2 DEF Inv, ConnectionOK, Subscribe
  <2>4. \A d \in Client \ {c} : down'[d] = down[d]
    BY <2>1 DEF Inv, Shapes
  <2> QED BY <2>1, <2>3, <2>4, ServerData
<1> QED BY <1>1, <1>2, <1>3 DEF Event

\* A step of a client
LEMMA ClientData ==
  ASSUME Inv, DataInv, NEW c \in Client, Own(c)
  PROVE  DataInv'
<1>1. UNCHANGED <<db, log>> /\ Elsewhere(c)
  BY DEF Own
<1>2. /\ HoldsOK(c, link[c], down[c], clnt[c], log.imports) /\ IsList(log.imports)
      /\ ConnectionOK(c, srv, link[c], up[c], down[c], clnt[c])
  BY DEF DataInv, StoreOK, Inv
<1>3. Holds(<<>>, log.imports)
  BY <1>2, ServesNone
<1>4. HoldsOK(c, link'[c], down'[c], clnt'[c], log.imports)
  <2>1. CASE Begins(c)
    <3>1. IsFull(clnt'[c]) /\ clnt'[c].scope = clnt[c].scope /\ down'[c] = down[c]
      BY <2>1 DEF Own, Begins
    <3>2. CASE clnt[c].pc = "off" /\ clnt'[c].pc = "ready"
      BY <1>2, <1>3, <3>1, <3>2 DEF HoldsOK
    <3>3. CASE /\ clnt[c].pc = "ready" /\ clnt'[c].pc = "half" /\ link'[c] = link[c]
               /\ clnt'[c].call \in NextCalls(c)
      <4>1. clnt'[c].call \in {GetAll, Subscribe} \cup Requests(c)
        BY <3>3, Zenon DEF NextCalls
      <4> QED BY <1>2, <3>1, <3>3, <4>1 DEF HoldsOK, Living
    <3>4. CASE /\ clnt[c].pc = "half" /\ clnt'[c].pc = "wait" /\ link'[c] = link[c]
               /\ clnt'[c].call = clnt[c].call /\ down[c] = <<>>
      BY <1>2, <3>1, <3>4 DEF HoldsOK, Living
    <3> QED BY <2>1, <3>2, <3>3, <3>4 DEF Begins
  <2>2. CASE Resumes(c)
    <3>1. IsFull(clnt'[c]) /\ clnt[c].pc = "wait" /\ clnt'[c].pc \in {"ready", "loop"}
          /\ down[c] # <<>> /\ link'[c] = link[c]
      BY <2>2 DEF Own, Resumes
    <3>2. link[c] \in {"backlog", "open"} => Holds(clnt'[c].scope, log.imports)
      BY <1>2, <1>3, <2>2, <3>1 DEF Resumes, HoldsOK, Living
    <3> QED BY <3>1, <3>2 DEF HoldsOK
  <2>3. CASE Takes(c) \/ Processes(c)
    <3>1. /\ IsFull(clnt'[c]) /\ clnt[c].pc \in {"loop", "process"}
          /\ clnt'[c].pc \in {"loop", "process"}
          /\ clnt'[c].scope = clnt[c].scope /\ link'[c] = link[c]
      BY <2>3 DEF Own, Takes, Processes
    <3> QED BY <1>2, <3>1 DEF HoldsOK, Living
  <2>4. CASE Ends(c)
    <3>1. IsFull(clnt'[c]) /\ clnt'[c].pc \in {"done", "gone"}
      BY <2>4 DEF Own, Ends, Fresh
    <3> QED BY <3>1 DEF HoldsOK, Living
  <2> QED BY <2>1, <2>2, <2>3, <2>4 DEF Own
<1>5. ASSUME NEW d \in Client \ {c}
      PROVE  HoldsOK(d, link'[d], down'[d], clnt'[d], log.imports)
  BY <1>1 DEF DataInv, Elsewhere
<1> QED BY <1>1, <1>4, <1>5 DEF DataInv

\* Nothing is stored and nobody runs.
LEMMA InitData ==
  ASSUME Init
  PROVE  DataInv
<1>1. /\ db = EmptyDb /\ log = NoLog /\ link = [c \in Client |-> "none"]
      /\ clnt = [c \in Client |-> Fresh("off")]
  BY DEF Init
<1>2. /\ {"manifest", "merged"} \subseteq DOMAIN EmptyDb /\ {"requests", "imports"} \subseteq DOMAIN NoLog
      /\ EmptyDb.manifest = <<>> /\ EmptyDb.merged = <<>> /\ NoLog.imports = <<>>
  BY DEF EmptyDb, NoLog
<1>3. IsList(<<>>) /\ Serves(<<>>, <<>>)
  <2>1. <<>> \in Seq({})
    OBVIOUS
  <2> QED BY <2>1, SeqIsList, ServesNone
<1>4. StoreOK(db, log)
  BY <1>1, <1>2, <1>3 DEF StoreOK
<1>5. IsFull(Fresh("off")) /\ Fresh("off").pc = "off" /\ Fresh("off").scope = <<>>
  BY DEF IsFull, Fresh
<1>6. ASSUME NEW c \in Client
      PROVE  HoldsOK(c, link[c], down[c], clnt[c], log.imports)
  <2>1. clnt[c] = Fresh("off") /\ link[c] = "none"
    BY <1>1
  <2> QED BY <1>5, <2>1 DEF HoldsOK
<1> QED BY <1>4, <1>6 DEF DataInv

(* Every step keeps the invariant. *)
LEMMA NextData ==
  ASSUME Inv, DataInv, Next
  PROVE  DataInv'
<1>1. CASE Ended
  BY <1>1, EndedData
<1>2. CASE Start \/ StartFails
  BY <1>2, EventData
<1>3. CASE Interrupt
  BY <1>1, <1>3 DEF Interrupt
<1>4. CASE Serve
  BY <1>1, <1>4, HandleData, EventData DEF Serve, HandleDies, TellDies, Die
<1>5. ASSUME NEW c \in Client, Work(c) \/ Begin(c) \/ Quit(c) \/ Kill(c)
      PROVE  DataInv'
  BY <1>5, OwnSteps, ClientData DEF DataInv, HoldsOK
<1> QED BY <1>2, <1>3, <1>4, <1>5 DEF Next

\* The invariant holds of every behaviour.
LEMMA DataHolds == Spec => []DataInv
<1>1. Init => DataInv
  BY InitData
<1>2. Inv /\ DataInv /\ [Next]_vars => DataInv'
  <2>1. ASSUME DataInv, UNCHANGED vars PROVE DataInv'
    BY <2>1 DEF DataInv, vars
  <2> QED BY <2>1, NextData
<1> QED BY <1>1, <1>2, InvHolds, PTL DEF Spec

(* DependenciesArrive, whatever manifests there are and however many clients:
   the services in the repository and those that any client holds have, in
   order, the names, instances and dependency groups of the manifests that were
   imported, after canonicalise_svc, the two conversions of convert.c, the
   copies of update_merged and the flags of db_set_enabled. *)
THEOREM DependenciesKept == Spec => []DependenciesArrive
<1>1. Inv /\ DataInv => DependenciesArrive
  <2> SUFFICES ASSUME Inv, DataInv PROVE DependenciesArrive
    OBVIOUS
  <2> DEFINE Same(svcs) == /\ Len(svcs) <= Len(log.imports)
                           /\ \A k \in DOMAIN svcs : Delivers(svcs[k], log.imports[k].file)
  <2>1. ASSUME NEW svc, NEW u, Tells(svc) = Says(u) PROVE Delivers(svc, u)
    <3>1. Says(u)[3] = InstsSaid(u)
      BY DEF Says
    <3> QED BY <2>1, <3>1 DEF Delivers, ListsInstances
  <2>2. Len(db.merged) = Len(log.imports) /\ Same(db.merged)
    <3>1. Len(db.merged) = Len(log.imports)
          /\ \A k \in DOMAIN db.merged : Tells(db.merged[k]) = Says(log.imports[k].file)
      BY DEF DataInv, StoreOK, Serves
    <3>2. Len(log.imports) <= Len(log.imports)
      BY DEF Inv, DataInv, StoreOK, Serves
    <3> QED BY <2>1, <3>1, <3>2
  <2>3. ASSUME NEW c \in Client, link[c] = "open", Alive(c)
        PROVE  Same(clnt[c].scope)
    <3>1. /\ Len(clnt[c].scope) <= Len(log.imports)
          /\ \A k \in DOMAIN clnt[c].scope : Tells(clnt[c].scope[k]) = Says(log.imports[k].file)
      BY <2>3 DEF DataInv, HoldsOK, Holds, Serves, Alive, Living
    <3> QED BY <2>1, <3>1
  <2> HIDE DEF Same
  <2>4. /\ Len(db.merged) = Len(log.imports) /\ Same(db.merged)
        /\ \A c \in Client : (link[c] = "open" /\ Alive(c)) => Same(clnt[c].scope)
    BY <2>2, <2>3
  <2> QED BY <2>4 DEF DependenciesArrive, Same
<1> QED BY <1>1, InvHolds, DataHolds, PTL

(* MethodsArrive, whatever manifests there are and however many clients: the
   instances that any client holds have all the methods of their manifest that
   have a usable property, with as many properties, and no others that are not
   in the manifest.  The invariant behind it says more, that they have no others
   at all: add_meths takes a method without a usable property into the
   repository, and s16db_meth_to_ucl and the next add_meths leave it out. *)
THEOREM MethodsKept == Spec => []MethodsArrive
<1>1. DataInv => MethodsArrive
  <2> DEFINE held(i) == {<<m.name, Len(m.props)>> : m \in ToSet(i.meths)}
             some(i) == Counted({m \in NamedIn(i) : UsableIn(m) # {}})
  <2>1. \A i : MethodsOf(i) = some(i) /\ some(i) \subseteq Counted(NamedIn(i))
    BY DEF MethodsOf, Counted
  <2>2. ASSUME DataInv, NEW c \in Client, link[c] = "open", Alive(c),
               NEW k \in DOMAIN clnt[c].scope, NEW l \in DOMAIN clnt[c].scope[k].insts
        PROVE  held(clnt[c].scope[k].insts[l]) = MethodsOf(log.imports[k].file["instances"][l])
    <3>1. Bears(clnt[c].scope[k], log.imports[k].file) /\ Whole(clnt[c].scope[k])
      BY <2>2 DEF DataInv, HoldsOK, Holds, Serves, Alive, Living
    <3> DEFINE i == clnt[c].scope[k].insts[l]
    <3>2. MethodsHeld(i) = MethodsOf(log.imports[k].file["instances"][l])
      BY <3>1 DEF Bears
    <3>3. \A m \in ToSet(i.meths) : m.props # <<>>
      BY <3>1 DEF Whole
    <3> HIDE DEF i
    <3>4. {n \in ToSet(i.meths) : n.props # <<>>} = ToSet(i.meths)
      BY <3>3
    <3>5. MethodsHeld(i) = held(i)
      BY <3>4 DEF MethodsHeld
    <3> QED BY <3>2, <3>5 DEF i
  <2>3. ASSUME DataInv, NEW c \in Client, link[c] = "open", Alive(c),
               NEW k \in DOMAIN clnt[c].scope, NEW l \in DOMAIN clnt[c].scope[k].insts
        PROVE  LET i == clnt[c].scope[k].insts[l]
                   f == log.imports[k].file["instances"][l]
               IN  some(f) \subseteq held(i) /\ held(i) \subseteq Counted(NamedIn(f))
    <3>1. held(clnt[c].scope[k].insts[l]) = MethodsOf(log.imports[k].file["instances"][l])
      BY <2>2, <2>3
    <3> HIDE DEF held, some
    <3> QED BY <2>1, <3>1
  <2> QED BY <2>3 DEF MethodsArrive
<1> QED BY <1>1, DataHolds, PTL

-----------------------------------------------------------------------------
(* The last element of a list that matches. *)

\* The greatest of some numbers
LEMMA Greatest ==
  ASSUME NEW n \in Nat, NEW T, T \subseteq 0 .. n, T # {}
  PROVE  Max(T) \in T /\ \A j \in T : j <= Max(T)
<1> DEFINE U == {n - i : i \in T}
<1>1. U \subseteq Nat
  <2>1. \A i \in T : n - i \in Nat
    OBVIOUS
  <2> QED BY <2>1
<1>2. U # {}
  OBVIOUS
<1>3. PICK x \in U : \A y \in U : x <= y
  <2> HIDE DEF U
  <2> QED BY <1>1, <1>2, Smallest
<1>4. PICK i \in T : x = n - i
  BY <1>3
<1>5. \A j \in T : n - j \in U /\ j \in Int
  OBVIOUS
<1> HIDE DEF U
<1>6. ASSUME NEW j \in T PROVE j <= i /\ j \in Int
  <2>1. x <= n - j /\ x = n - i
    BY <1>3, <1>4, <1>5
  <2>2. i \in Int /\ j \in Int
    BY <1>5
  <2> QED BY <2>1, <2>2
<1> QED BY <1>6 DEF Max

\* The search of s16db_lookup_path_in_scope for a service ...
LEMMA LastService ==
  ASSUME NEW svcs, IsList(svcs), NEW v
  PROVE  LET s == SelectLastInSeq(svcs, LAMBDA x : x.path.svc = v)
         IN  /\ s \in 0 .. Len(svcs)
             /\ s # 0 => svcs[s].path.svc = v
             /\ \A k \in 1 .. Len(svcs) : svcs[k].path.svc = v => s # 0 /\ k <= s
<1> DEFINE I == {i \in 1 .. Len(svcs) : svcs[i].path.svc = v}
           s == SelectLastInSeq(svcs, LAMBDA x : x.path.svc = v)
<1>1. s = IF I # {} THEN Max(I) ELSE 0
  BY DEF SelectLastInSeq
<1>2. Len(svcs) \in Nat
  BY DEF IsList
<1>3. I # {} => Max(I) \in I /\ \A j \in I : j <= Max(I)
  <2>1. I \subseteq 0 .. Len(svcs)
    BY <1>2
  <2> HIDE DEF I
  <2> QED BY <1>2, <2>1, Greatest
<1> HIDE DEF s
<1>4. /\ s \in 0 .. Len(svcs)
      /\ s # 0 => svcs[s].path.svc = v
      /\ \A k \in 1 .. Len(svcs) : svcs[k].path.svc = v => s # 0 /\ k <= s
  BY <1>1, <1>2, <1>3
<1> QED BY <1>4 DEF s

\* ... and for an instance
LEMMA LastInstance ==
  ASSUME NEW insts, IsList(insts), NEW v
  PROVE  LET i == SelectLastInSeq(insts, LAMBDA x : x.path.inst = v)
         IN  /\ i \in 0 .. Len(insts)
             /\ i # 0 => insts[i].path.inst = v
             /\ \A k \in 1 .. Len(insts) : insts[k].path.inst = v => i # 0 /\ k <= i
<1> DEFINE I == {k \in 1 .. Len(insts) : insts[k].path.inst = v}
           i == SelectLastInSeq(insts, LAMBDA x : x.path.inst = v)
<1>1. i = IF I # {} THEN Max(I) ELSE 0
  BY DEF SelectLastInSeq
<1>2. Len(insts) \in Nat
  BY DEF IsList
<1>3. I # {} => Max(I) \in I /\ \A j \in I : j <= Max(I)
  <2>1. I \subseteq 0 .. Len(insts)
    BY <1>2
  <2> HIDE DEF I
  <2> QED BY <1>2, <2>1, Greatest
<1> HIDE DEF i
<1>4. /\ i \in 0 .. Len(insts)
      /\ i # 0 => insts[i].path.inst = v
      /\ \A k \in 1 .. Len(insts) : insts[k].path.inst = v => i # 0 /\ k <= i
  BY <1>1, <1>2, <1>3
<1> QED BY <1>4 DEF i

\* What the look-up of a path finds
LEMMA LookedUp ==
  ASSUME NEW svcs, IsList(svcs), \A k \in DOMAIN svcs : SvcOK(svcs[k]), NEW p
  PROVE  LET lu == s16db_lookup_path_in_scope(svcs, p)
         IN  /\ lu.s \in 0 .. Len(svcs) /\ lu.type \in {"SVC", "INSTANCE"}
             /\ lu.s # 0 => lu.s \in DOMAIN svcs /\ svcs[lu.s].path.svc = p.svc
             /\ \A k \in DOMAIN svcs : svcs[k].path.svc = p.svc => lu.s # 0 /\ k <= lu.s
             /\ lu.type = "INSTANCE" <=> lu.s # 0 /\ p.inst # NULL
             /\ lu.type = "INSTANCE" =>
                  /\ lu.i # 0 => /\ lu.i \in DOMAIN svcs[lu.s].insts
                                 /\ svcs[lu.s].insts[lu.i].path.inst = p.inst
                  /\ \A k \in DOMAIN svcs[lu.s].insts :
                       svcs[lu.s].insts[k].path.inst = p.inst => lu.i # 0 /\ k <= lu.i
<1> DEFINE s == SelectLastInSeq(svcs, LAMBDA x : x.path.svc = p.svc)
           instance == s # 0 /\ p.inst # NULL
           i == SelectLastInSeq(svcs[s].insts, LAMBDA x : x.path.inst = p.inst)
           lu == s16db_lookup_path_in_scope(svcs, p)
<1>1. /\ lu.type = IF instance THEN "INSTANCE" ELSE "SVC"
      /\ lu.s = s /\ lu.i = IF instance THEN i ELSE 0
  BY Zenon DEF s16db_lookup_path_in_scope
<1>2. Len(svcs) \in Nat /\ DOMAIN svcs = 1 .. Len(svcs)
  BY LongerList
<1>3. /\ s \in 0 .. Len(svcs)
      /\ s # 0 => svcs[s].path.svc = p.svc
      /\ \A k \in 1 .. Len(svcs) : svcs[k].path.svc = p.svc => s # 0 /\ k <= s
  BY LastService
<1>4. s # 0 => s \in DOMAIN svcs /\ IsList(svcs[s].insts)
  <2> HIDE DEF s
  <2> QED BY <1>2, <1>3 DEF SvcOK
<1>5. s # 0 => /\ i \in 0 .. Len(svcs[s].insts)
               /\ i # 0 => svcs[s].insts[i].path.inst = p.inst
               /\ \A k \in 1 .. Len(svcs[s].insts) :
                    svcs[s].insts[k].path.inst = p.inst => i # 0 /\ k <= i
  <2> HIDE DEF s
  <2> QED BY <1>4, LastInstance
<1> HIDE DEF s, i, lu
<1>6. s # 0 => Len(svcs[s].insts) \in Nat /\ DOMAIN svcs[s].insts = 1 .. Len(svcs[s].insts)
  BY <1>4, LongerList
<1>7. /\ lu.s \in 0 .. Len(svcs) /\ lu.type \in {"SVC", "INSTANCE"}
      /\ lu.s # 0 => lu.s \in DOMAIN svcs /\ svcs[lu.s].path.svc = p.svc
      /\ \A k \in DOMAIN svcs : svcs[k].path.svc = p.svc => lu.s # 0 /\ k <= lu.s
      /\ lu.type = "INSTANCE" <=> lu.s # 0 /\ p.inst # NULL
  BY <1>1, <1>2, <1>3
<1>8. ASSUME lu.type = "INSTANCE"
      PROVE  /\ lu.i # 0 => /\ lu.i \in DOMAIN svcs[lu.s].insts
                            /\ svcs[lu.s].insts[lu.i].path.inst = p.inst
             /\ \A k \in DOMAIN svcs[lu.s].insts :
                  svcs[lu.s].insts[k].path.inst = p.inst => lu.i # 0 /\ k <= lu.i
  <2>1. s # 0 /\ lu.s = s /\ lu.i = i
    BY <1>1, <1>8
  <2> QED BY <1>5, <1>6, <2>1
<1> QED BY <1>7, <1>8 DEF lu

-----------------------------------------------------------------------------
(* Look-ups. *)

\* An instance that is sent and, since it is labelled as one, received as a
\* service
LEMMA InstAsSvc ==
  ASSUME NEW i, InstOK(i)
  PROVE  LET t == s16db_ucl_to_svc(s16db_inst_to_ucl(i))
         IN  S16PathEqual(t.path, i.path) /\ GroupsTold(t) = GroupsTold(i)
<1> DEFINE u == s16db_inst_to_ucl(i)
           t == s16db_ucl_to_svc(u)
<1>1. u["path"] = S16PathToString(i.path)
  BY Objects, Entries DEF s16db_inst_to_ucl
<1>2. Has(u, "dependencies") <=> Has(CommonKeys(i), "dependencies")
  BY Objects, Entries DEF s16db_inst_to_ucl
<1>3. Has(CommonKeys(i), "dependencies") => u["dependencies"] = CommonKeys(i)["dependencies"]
  BY Objects, Entries DEF s16db_inst_to_ucl
<1> HIDE DEF u
<1>4. t.path = s16db_string_to_path(S16PathToString(i.path)) /\ t.depgroups = add_depgroups(u)
  BY <1>1 DEF s16db_ucl_to_svc
<1> HIDE DEF t
<1>5. GroupsTold(t) = GroupsTold(i)
  <2>1. Has(u, "dependencies") <=> i.depgroups # <<>>
    BY <1>2, Common
  <2>2. i.depgroups # <<>> => u["dependencies"] = Map(s16db_S16DependencyGroupo_ucl, i.depgroups)
    BY <1>3, Common
  <2> QED BY <1>4, <2>1, <2>2, GroupsArrive DEF InstOK
<1>6. S16PathEqual(t.path, i.path)
  BY <1>4, PathArrives DEF InstOK, S16PathEqual
<1> QED BY <1>5, <1>6 DEF t, u

\* What a service tells, piece by piece
LEMMA SameTold ==
  ASSUME NEW svc, NEW f, Tells(svc) = Says(f)
  PROVE  /\ svc.path.svc = Last(f["name"]) /\ GroupsTold(svc) = GroupsSaid(f)
         /\ Map(InstTold, svc.insts) = InstsSaid(f)
<1>1. \A a1, b1, c1, a2, b2, c2 : <<a1, b1, c1>> = <<a2, b2, c2>> => a1 = a2 /\ b1 = b2 /\ c1 = c2
  OBVIOUS
<1> QED BY <1>1, Zenon DEF Tells, Says

\* The services have the names that the manifests give them.
LEMMA SameNames ==
  ASSUME NEW d, NEW l, StoreOK(d, l)
  PROVE  /\ Len(d.manifest) = Len(l.imports) /\ DOMAIN d.manifest = 1 .. Len(d.manifest)
         /\ \A i \in DOMAIN d.manifest : d.manifest[i].path.svc = Last(l.imports[i].file["name"])
<1>1. Len(d.manifest) = Len(l.imports) /\ DOMAIN d.manifest = 1 .. Len(d.manifest)
  BY LongerList DEF StoreOK, Serves
<1>2. \A i \in DOMAIN d.manifest : d.manifest[i].path.svc = Last(l.imports[i].file["name"])
  BY SameTold DEF StoreOK, Serves
<1> QED BY <1>1, <1>2

\* The instances of a service are those of the manifest.
LEMMA InstsTold ==
  ASSUME NEW svc, NEW f, Map(InstTold, svc.insts) = InstsSaid(f)
  PROVE  /\ \A y \in ToSet(InstsSaid(f)) : \E j \in DOMAIN svc.insts :
              y[1] = svc.insts[j].path.inst /\ y[2] = GroupsTold(svc.insts[j])
         /\ \A j \in DOMAIN svc.insts : \E y \in ToSet(InstsSaid(f)) :
              y[1] = svc.insts[j].path.inst /\ y[2] = GroupsTold(svc.insts[j])
<1>1. ToSet(InstsSaid(f)) = {InstTold(svc.insts[j]) : j \in DOMAIN svc.insts}
  BY DEF ToSet, Map
<1>2. \A i : InstTold(i)[1] = i.path.inst /\ InstTold(i)[2] = GroupsTold(i)
  BY DEF InstTold
<1> QED BY <1>1, <1>2

\* get-path-merged: what the caller makes of the reply
LEMMA PathAnswered ==
  ASSUME NEW d, NEW l, StoreOK(d, l), NEW txt
  PROVE  RightAnswer(l.imports, s16db_string_to_path(txt), Answer(handle_get_path_merged(d, txt).result))
<1> DEFINE p == s16db_string_to_path(txt)
           lu == db_lookup_path_merged(d, p)
           svc == d.manifest[lu.s]
           inst == svc.insts[lu.i]
           f == l.imports[lu.s].file
           r == handle_get_path_merged(d, txt).result
           a == Answer(r)
           said == SaidOf(l.imports, p)
<1>1. r = CASE ~Found(lu) -> Entry("type", "error")
            [] Found(lu) /\ lu.type = "SVC" -> Entry("type", "svc") ++ Entry("value", s16db_S16Serviceo_ucl(svc))
            [] OTHER -> Entry("type", "svc") ++ Entry("value", s16db_inst_to_ucl(inst))
  BY DEF handle_get_path_merged, Outcome
<1>2. SelectLastInSeq(l.imports, LAMBDA e : Last(e.file["name"]) = p.svc) = lu.s
  <2> DEFINE s == SelectLastInSeq(d.manifest, LAMBDA x : x.path.svc = p.svc)
             I == {i \in 1 .. Len(l.imports) : Last(l.imports[i].file["name"]) = p.svc}
             J == {i \in 1 .. Len(d.manifest) : d.manifest[i].path.svc = p.svc}
  <2>1. lu.s = s
    BY Zenon DEF db_lookup_path_merged, s16db_lookup_path_in_scope
  <2>2. I = J
    <3> HIDE DEF p
    <3> QED BY SameNames
  <2>3. s = IF J # {} THEN Max(J) ELSE 0
    BY Zenon DEF SelectLastInSeq
  <2>4. SelectLastInSeq(l.imports, LAMBDA e : Last(e.file["name"]) = p.svc)
          = IF I # {} THEN Max(I) ELSE 0
    BY Zenon DEF SelectLastInSeq
  <2> HIDE DEF s, I, J
  <2> QED BY <2>1, <2>2, <2>3, <2>4, Zenon
<1>3. said = IF lu.s = 0 THEN {}
             ELSE IF p.inst = NULL THEN {GroupsSaid(f)}
             ELSE {x[2] : x \in {y \in ToSet(InstsSaid(f)) : y[1] = p.inst}}
  BY <1>2, Zenon DEF SaidOf
<1>4. /\ lu.s \in 0 .. Len(d.manifest) /\ lu.type \in {"SVC", "INSTANCE"}
      /\ lu.s # 0 => lu.s \in DOMAIN d.manifest /\ svc.path.svc = p.svc
      /\ lu.type = "INSTANCE" <=> lu.s # 0 /\ p.inst # NULL
      /\ lu.type = "INSTANCE" =>
           /\ lu.i # 0 => lu.i \in DOMAIN svc.insts /\ inst.path.inst = p.inst
           /\ \A k \in DOMAIN svc.insts : svc.insts[k].path.inst = p.inst => lu.i # 0
  BY LookedUp DEF db_lookup_path_merged, StoreOK, Serves
<1>5. lu.s # 0 => /\ SvcOK(svc) /\ svc.path.svc = Last(f["name"]) /\ GroupsTold(svc) = GroupsSaid(f)
                  /\ Map(InstTold, svc.insts) = InstsSaid(f)
  BY <1>4, SameTold DEF StoreOK, Serves
<1>0. Answer(Entry("type", "error")).type = "NOTFOUND"
  <2>1. Entry("type", "error")["type"] = "error"
    BY Entries
  <2> QED BY <2>1 DEF Answer
<1>6. \A v, w : w = Entry("type", "svc") ++ Entry("value", v) =>
                 Answer(w).type = "SVC" /\ Answer(w).s = s16db_ucl_to_svc(v)
  <2> TAKE v, w
  <2>2. w = Entry("type", "svc") ++ Entry("value", v) => w["type"] = "svc" /\ w["value"] = v
    BY Objects, Entries
  <2> QED BY <2>2 DEF Answer
<1> HIDE DEF r, a, said
<1>7. CASE ~Found(lu)
  <2>1. r = Entry("type", "error")
    BY <1>1, <1>7
  <2>0. a.type = "NOTFOUND"
    BY <1>0, <2>1 DEF a
  <2>2. said = {}
    <3>1. CASE lu.s = 0
      BY <1>3, <3>1
    <3>2. CASE lu.s # 0
      <4>1. lu.type = "INSTANCE" /\ lu.i = 0
        BY <1>4, <1>7, <3>2 DEF Found
      <4>2. said = {x[2] : x \in {y \in ToSet(InstsSaid(f)) : y[1] = p.inst}}
        BY <1>3, <1>4, <4>1
      <4> HIDE DEF lu, svc, f, inst
      <4>3. Map(InstTold, svc.insts) = InstsSaid(f)
        BY <1>5, <3>2
      <4>4. \A g : g \in said => \E j \in DOMAIN svc.insts : svc.insts[j].path.inst = p.inst
        <5> HIDE DEF p
        <5> QED BY <4>2, <4>3, InstsTold
      <4> QED BY <1>4, <4>1, <4>4
    <3> QED BY <3>1, <3>2
  <2> QED BY <2>0, <2>2 DEF RightAnswer, a, r, said
<1>8. CASE Found(lu) /\ lu.type = "SVC"
  <2>1. lu.s # 0 /\ p.inst = NULL
    BY <1>4, <1>8 DEF Found
  <2>2. said = {GroupsSaid(f)}
    BY <1>3, <2>1
  <2>3. a.type = "SVC" /\ a.s = s16db_ucl_to_svc(s16db_S16Serviceo_ucl(svc))
    BY <1>1, <1>6, <1>8 DEF a
  <2>4. SvcOK(a.s) /\ Tells(a.s) = Tells(svc)
    BY <1>5, <2>1, <2>3, SvcArrives
  <2>5. Tells(svc) = Says(f)
    BY <1>4, <2>1 DEF StoreOK, Serves
  <2> HIDE DEF lu, svc, f, inst
  <2>6. /\ GroupsTold(a.s) = GroupsSaid(f) /\ a.s.path.svc = Last(f["name"])
    BY <2>4, <2>5, SameTold
  <2>7. S16PathEqual(a.s.path, p)
    BY <1>4, <1>5, <2>1, <2>4, <2>6 DEF S16PathEqual, SvcOK
  <2>8. said # {} /\ GroupsTold(a.s) \in said /\ a.type # "NOTFOUND"
    BY <2>2, <2>3, <2>6
  <2> QED BY <2>7, <2>8 DEF RightAnswer, a, r, said
<1>9. CASE Found(lu) /\ lu.type # "SVC"
  <2>1. lu.s # 0 /\ p.inst # NULL /\ lu.i # 0 /\ lu.i \in DOMAIN svc.insts /\ inst.path.inst = p.inst
    BY <1>4, <1>9 DEF Found
  <2>2. a.type = "SVC" /\ a.s = s16db_ucl_to_svc(s16db_inst_to_ucl(inst))
    BY <1>1, <1>6, <1>9 DEF a
  <2>3. InstOK(inst) /\ inst.path.svc = p.svc
    BY <1>4, <1>5, <2>1 DEF SvcOK
  <2>4. S16PathEqual(a.s.path, inst.path) /\ GroupsTold(a.s) = GroupsTold(inst)
    BY <2>2, <2>3, InstAsSvc
  <2>5. S16PathEqual(a.s.path, p)
    BY <2>1, <2>3, <2>4 DEF S16PathEqual
  <2>6. said = {x[2] : x \in {y \in ToSet(InstsSaid(f)) : y[1] = p.inst}}
    BY <1>3, <2>1
  <2> HIDE DEF lu, svc, f
  <2>7. GroupsTold(inst) \in said
    <3>1. Map(InstTold, svc.insts) = InstsSaid(f)
      BY <1>5, <2>1
    <3>2. PICK y \in ToSet(InstsSaid(f)) : y[1] = inst.path.inst /\ y[2] = GroupsTold(inst)
      BY <2>1, <3>1, InstsTold
    <3> HIDE DEF p, inst
    <3> QED BY <2>1, <2>6, <3>2
  <2>8. said # {} /\ GroupsTold(a.s) \in said /\ a.type # "NOTFOUND"
    BY <2>2, <2>4, <2>7
  <2> QED BY <2>5, <2>8 DEF RightAnswer, a, r, said
<1> QED BY <1>7, <1>8, <1>9

\* What is on its way down is a list.
LEMMA DownList ==
  ASSUME Inv, NEW c \in Client
  PROVE  IsList(down[c])
<1> DEFINE d == down[c]
           S == {d[1], d[2]}
<1>1. d = <<>> \/ d = <<d[1]>> \/ d = <<d[1], d[2]>>
  BY DEF Inv, ProgramOK, ConnectionOK, Living
<1>2. <<>> \in Seq(S) /\ <<d[1]>> \in Seq(S) /\ <<d[1], d[2]>> \in Seq(S)
  OBVIOUS
<1> HIDE DEF d, S
<1>3. IsList(d)
  BY <1>1, <1>2, SeqIsList
<1> QED BY <1>3 DEF d

\* The steps of clients put nothing on their way down.
LEMMA OwnNoReply ==
  ASSUME Inv, NEW c \in Client, Own(c), NEW d \in Client
  PROVE  ~(Len(down'[d]) > Len(down[d]))
<1>1. Len(down[d]) \in Nat /\ IsList(down[d])
  BY DownList, LongerList
<1>2. CASE d # c
  BY <1>1, <1>2 DEF Own, Elsewhere
<1>3. CASE d = c
  <2>1. \/ down'[c] = down[c] \/ down'[c] = <<>>
        \/ down[c] # <<>> /\ down'[c] = Tail(down[c])
    BY DEF Own, Begins, Resumes, Takes, Processes, Ends
  <2>2. Len(<<>>) = 0
    OBVIOUS
  <2>3. down[c] # <<>> => Len(Tail(down[c])) <= Len(down[c])
    BY <1>1, <1>3 DEF IsList
  <2>4. Len(down'[c]) <= Len(down[c])
    <3>1. CASE down'[c] = down[c]
      BY <1>1, <1>3, <3>1
    <3>2. CASE down'[c] = <<>>
      BY <1>1, <1>3, <2>2, <3>2
    <3>3. ASSUME down[c] # <<>>, down'[c] = Tail(down[c])
          PROVE  Len(down'[c]) <= Len(down[c])
      BY <2>3, <3>3, Zenon
    <3> QED BY <2>1, <3>1, <3>2, <3>3
  <2>5. Len(down'[c]) \in Nat
    <3>1. CASE down'[c] = <<>> \/ down'[c] = down[c]
      BY <1>1, <1>3, <2>2, <3>1
    <3>2. down[c] # <<>> => Len(Tail(down[c])) \in Nat
      BY <1>1, <1>3 DEF IsList
    <3> QED BY <2>1, <3>1, <3>2, Zenon
  <2> QED BY <1>1, <1>3, <2>4, <2>5
<1> QED BY <1>2, <1>3

(* LookupAnswers, whatever was imported before: s16db_lookup_path_in_scope
   takes the last service that matches and then the last instance in it, and
   through both conversions the caller gets the path it asked for with what
   the last manifest for the service says of it, or NOTFOUND. *)
THEOREM LookupsAnswered == Spec => LookupAnswers
<1>1. ASSUME Inv, DataInv, [Next]_vars, NEW c \in Client,
             Len(down'[c]) > Len(down[c]), Last(down'[c]).kind = "reply",
             Last(down'[c]).re.method = "get-path-merged"
      PROVE  RightAnswer(log.imports, s16db_string_to_path(Last(down'[c]).re.param),
                         Answer(Last(down'[c]).result))
  <2>1. Len(down[c]) \in Nat /\ IsList(down[c])
    BY <1>1, DownList, LongerList
  <2>2. down'[c] # down[c]
    BY <1>1, <2>1
  <2>3. CASE Handle
    <3> DEFINE w == srv.who
               m == Head(up[w])
    <3>1. /\ w \in Client /\ clnt[w].pc = "wait" /\ m = clnt[w].call /\ down[w] = <<>>
      BY <1>1, <2>3, HandledCall
    <3>2. PICK o \in Outcomes(m) : down' = [down EXCEPT ![w] = Append(@, Reply(m, o.result))]
      BY <2>3, Zenon DEF Handle
    <3> DEFINE rep == Reply(m, o.result)
    <3>3. rep.re = m /\ rep.result = o.result
      BY DEF Reply
    <3>4. m \in {GetAll, Subscribe} \cup Requests(w)
      BY <1>1, <3>1 DEF DataInv, HoldsOK
    <3>5. down' = [down EXCEPT ![w] = Append(@, rep)]
      BY <3>2
    <3> HIDE DEF w, m, rep
    <3>6. w = c /\ down'[c] = <<rep>>
      BY <1>1, <2>2, <3>1, <3>5, Short DEF Inv, Shapes
    <3>7. Last(down'[c]) = rep
      BY <3>6 DEF Last
    <3>8. m.method = "get-path-merged"
      BY <1>1, <3>3, <3>7
    <3>9. o = handle_get_path_merged(db, m.param)
      BY <3>8 DEF Outcomes
    <3> QED BY <1>1, <3>3, <3>7, <3>9, PathAnswered DEF DataInv
  <2>4. CASE Tell
    <3> DEFINE w == Head(srv.todo)
               n == Notify(srv.hand[1])
    <3>1. down' = [down EXCEPT ![w] = Append(@, n)]
      BY <2>4 DEF Tell
    <3>2. n.kind = "notify"
      BY DEF Notify
    <3> HIDE DEF w, n
    <3>3. down'[c] = Append(down[c], n)
      BY <1>1, <2>2, <3>1 DEF Inv, Shapes
    <3>4. Last(Append(down[c], n)) = n
      BY <2>1, LongerList DEF Last
    <3> QED BY <1>1, <3>2, <3>3, <3>4
  <2>5. CASE UNCHANGED down
    BY <2>2, <2>5
  <2>6. ASSUME NEW d \in Client, Work(d) \/ Begin(d) \/ Quit(d) \/ Kill(d)
        PROVE  FALSE
    BY <1>1, <2>6, OwnSteps, OwnNoReply DEF DataInv, HoldsOK
  <2>7. CASE Start \/ StartFails \/ Interrupt \/ HandleDies \/ HandleNothing \/ NextNote \/ Told
             \/ TellDies \/ Event
    BY <2>5, <2>7 DEF Start, StartFails, Interrupt, HandleDies, HandleNothing, NextNote, Told,
                      TellDies, Event, Accept, Readable, Eof, Die, Ended, queues
  <2> QED BY <1>1, <2>3, <2>4, <2>5, <2>6, <2>7 DEF Next, Serve, vars
<1>2. Inv /\ DataInv /\ [Next]_vars =>
        [\A c \in Client :
           (Len(down'[c]) > Len(down[c]) /\ Last(down'[c]).kind = "reply"
              /\ Last(down'[c]).re.method = "get-path-merged") =>
           RightAnswer(log.imports, s16db_string_to_path(Last(down'[c]).re.param),
                       Answer(Last(down'[c]).result))]_vars
  BY <1>1
<1> QED BY <1>2, InvHolds, DataHolds, PTL DEF Spec, LookupAnswers

=============================================================================
