--------------------------- MODULE ListingProofs ---------------------------
(***************************************************************************)
(* What a client of the list endpoints misses and receives twice, for any  *)
(* number of items, page size and number of changes.                       *)
(*                                                                         *)
(* An element of a filtered list stands at its rank, the number of wanted  *)
(* elements up to it.  Two lists with their common elements in one order   *)
(* therefore have them in one order after filtering, and the one that      *)
(* holds more only has them further back (KeepGrows).  So each item that   *)
(* comes in pushes at most one over the border between the pages a walk    *)
(* has read and those to come, and each that leaves pulls at most one      *)
(* (PushedOut): the invariant WalkInv counts those.                        *)
(***************************************************************************)
EXTENDS Listing, FiniteSetTheorems, SequenceTheorems, TLAPS

\* The first n elements of s, or all.
First(s, n) == {s[m] : m \in {k \in 1 .. Len(s) : k <= n}}

\* Those of the first n elements of s that are in S, for n up to Len(s), and
\* how many they are: the position at which Keep(s, S) holds s[n].
UpTo(s, S, n) == {s[m] : m \in 1 .. n} \cap S
Rank(s, S, n) == Cardinality(UpTo(s, S, n))

\* What the endpoints list: no id twice.
IsList(s) == s \in Seq(Ids) /\ IsInjective(s)

\* Ranks are numbers, ...
LEMMA UpToFinite ==
  ASSUME NEW s, IsList(s), NEW S, NEW n \in 0 .. Len(s)
  PROVE  /\ IsFiniteSet(UpTo(s, S, n))
         /\ Rank(s, S, n) \in Nat
<1> DEFINE f == [m \in 1 .. n |-> s[m]]
           T == {s[m] : m \in 1 .. n}
<1>1. f \in Surjection(1 .. n, T) /\ n \in Nat
  BY DEF Surjection, IsList
<1>2. IsFiniteSet(T)
  BY <1>1, FS_Interval, FS_Surjection
<1>3. IsFiniteSet(T \cap S)
  BY <1>2, FS_Intersection
<1> QED
  BY <1>3, FS_CardinalityType DEF UpTo, Rank

\* ... that grow at each element kept.
LEMMA RankGrows ==
  ASSUME NEW s, IsList(s), NEW S, NEW a \in 0 .. Len(s), NEW b \in a .. Len(s)
  PROVE  /\ Rank(s, S, a) <= Rank(s, S, b)
         /\ a < b /\ s[b] \in S => Rank(s, S, a) < Rank(s, S, b)
<1>1. b \in 0 .. Len(s)
  BY DEF IsList
<1>2. UpTo(s, S, a) \in SUBSET UpTo(s, S, b)
  BY <1>1 DEF UpTo, IsList
<1>3. IsFiniteSet(UpTo(s, S, b)) /\ Rank(s, S, a) \in Nat /\ Rank(s, S, b) \in Nat
  BY <1>1, UpToFinite
<1>4. ASSUME a < b, s[b] \in S
      PROVE  UpTo(s, S, a) # UpTo(s, S, b)
  <2>1. s[b] \in UpTo(s, S, b)
    BY <1>4, <1>1 DEF UpTo
  <2>2. s[b] \notin UpTo(s, S, a)
    BY <1>4, <1>1 DEF UpTo, IsList, IsInjective
  <2> QED
    BY <2>1, <2>2
<1> QED
  BY <1>2, <1>3, <1>4, FS_Subset DEF Rank

\* So a position is the rank of at most one kept element, ...
LEMMA RankOrder ==
  ASSUME NEW s, IsList(s), NEW S,
         NEW a \in 1 .. Len(s), NEW b \in 1 .. Len(s), s[a] \in S, s[b] \in S
  PROVE  Rank(s, S, a) <= Rank(s, S, b) <=> a <= b
<1>1. a \in 0 .. Len(s) /\ b \in 0 .. Len(s)
  BY DEF IsList
<1>2. Rank(s, S, a) \in Nat /\ Rank(s, S, b) \in Nat
  BY <1>1, UpToFinite
<1>3. CASE a <= b
  BY <1>1, <1>2, <1>3, b \in a .. Len(s), RankGrows
<1>4. CASE b < a
  BY <1>1, <1>2, <1>4, a \in b .. Len(s), RankGrows
<1> QED
  BY <1>3, <1>4 DEF IsList

\* ... and, as there are as many positions as kept elements, of one.
LEMMA RankIsOnto ==
  ASSUME NEW s, IsList(s), NEW S
  PROVE  \A k \in 1 .. Rank(s, S, Len(s)) :
           \E n \in 1 .. Len(s) : s[n] \in S /\ Rank(s, S, n) = k
<1> DEFINE P == {n \in 1 .. Len(s) : s[n] \in S}
           K == Rank(s, S, Len(s))
           f == [n \in P |-> Rank(s, S, n)]
           g == [n \in P |-> s[n]]
<1>0. Len(s) \in Nat /\ 0 \in 0 .. Len(s) /\ Len(s) \in 0 .. Len(s)
  BY DEF IsList
<1>1. IsFiniteSet(UpTo(s, S, Len(s))) /\ K \in Nat
  BY <1>0, UpToFinite
<1>2. Rank(s, S, 0) = 0
  BY FS_EmptySet, UpTo(s, S, 0) = {} DEF Rank, UpTo
<1>3. ASSUME NEW n \in P
      PROVE  f[n] \in 1 .. K
  <2>1. n \in 0 .. Len(s) /\ Len(s) \in n .. Len(s) /\ s[n] \in S /\ n > 0
    BY <1>0
  <2>2. Rank(s, S, n) \in Nat /\ Rank(s, S, n) <= K
    BY <2>1, UpToFinite, RankGrows, <1>1
  <2>3. Rank(s, S, 0) < Rank(s, S, n)
    BY <2>1, <1>0, RankGrows
  <2> QED
    BY <1>2, <2>2, <2>3, <1>1
<1>4. f \in Injection(P, 1 .. K)
  <2>1. ASSUME NEW a \in P, NEW b \in P, f[a] = f[b]
        PROVE  a = b
    <3>1. Rank(s, S, a) \in Nat /\ Rank(s, S, b) \in Nat
      <4>1. a \in 0 .. Len(s) /\ b \in 0 .. Len(s)
        BY <1>0
      <4> QED
        BY <4>1, UpToFinite
    <3>2. Rank(s, S, a) = Rank(s, S, b) /\ a \in 1 .. Len(s) /\ b \in 1 .. Len(s) /\ s[a] \in S /\ s[b] \in S
      BY <2>1
    <3>3. a <= b /\ b <= a
      BY <3>1, <3>2, RankOrder
    <3> QED
      BY <3>2, <3>3, <1>0
  <2> QED
    BY <1>3, <2>1 DEF Injection, IsInjective
<1>5. g \in Bijection(P, UpTo(s, S, Len(s)))
  <2>1. g \in [P -> UpTo(s, S, Len(s))] /\ \A t \in UpTo(s, S, Len(s)) : \E n \in P : g[n] = t
    BY DEF UpTo
  <2>2. \A a, b \in P : g[a] = g[b] => a = b
    BY DEF IsList, IsInjective
  <2> QED
    BY <2>1, <2>2 DEF Bijection, Injection, Surjection, IsInjective
<1>6. IsFiniteSet(1 .. K) /\ Cardinality(1 .. K) = K
  BY <1>1, FS_Interval
<1>7. IsFiniteSet(P)
  BY <1>4, <1>6, FS_Injection
<1>8. Cardinality(P) = K
  BY <1>5, <1>7, FS_Bijection DEF ExistsBijection, Rank
<1>9. f \in Surjection(P, 1 .. K)
  BY <1>4, <1>6, <1>8, FS_Injection
<1> QED
  BY <1>9 DEF Surjection

\* What Keep returns: the elements of s that are in S, each at its rank.
LEMMA KeepProperties ==
  ASSUME NEW s, IsList(s), NEW S
  PROVE  /\ IsList(Keep(s, S))
         /\ Len(Keep(s, S)) = Rank(s, S, Len(s))
         /\ Range(Keep(s, S)) = Range(s) \cap S
         /\ \A n \in 1 .. Len(s) : s[n] \in S =>
              /\ Rank(s, S, n) \in 1 .. Len(Keep(s, S))
              /\ Keep(s, S)[Rank(s, S, n)] = s[n]
<1> DEFINE K == Rank(s, S, Len(s))
           At(k) == CHOOSE n \in 1 .. Len(s) : s[n] \in S /\ Rank(s, S, n) = k
           u == Keep(s, S)
<1>0. s \in [1 .. Len(s) -> Ids] /\ Len(s) \in Nat
  BY DEF IsList
<1>1. K \in Nat
  BY <1>0, UpToFinite
<1>2. u = [k \in 1 .. K |-> s[At(k)]]
  BY DEF Keep, Rank, UpTo
<1>3. \A k \in 1 .. K : At(k) \in 1 .. Len(s) /\ s[At(k)] \in S /\ Rank(s, S, At(k)) = k
  BY RankIsOnto
<1> HIDE DEF At
<1>4. u \in Seq(Ids) /\ Len(u) = K /\ \A k \in 1 .. K : u[k] = s[At(k)]
  <2>1. u \in [1 .. K -> Ids]
    BY <1>0, <1>2, <1>3
  <2>2. u \in Seq(Ids)
    BY <2>1, <1>1
  <2> HIDE DEF u
  <2>3. Len(u) = K
    BY <2>1, <2>2, <1>1
  <2> QED
    BY <2>2, <2>3, <1>2 DEF u
<1>5. ASSUME NEW n \in 1 .. Len(s), s[n] \in S
      PROVE  Rank(s, S, n) \in 1 .. K /\ u[Rank(s, S, n)] = s[n]
  <2>1. Rank(s, S, n) \in Nat /\ Rank(s, S, 0) \in Nat
    BY <1>0, UpToFinite
  <2>2. Rank(s, S, 0) < Rank(s, S, n) /\ Rank(s, S, n) <= K
    BY <1>0, <1>5, RankGrows, n \in 0 .. Len(s), Len(s) \in n .. Len(s), 0 \in 0 .. Len(s)
  <2>3. Rank(s, S, n) \in 1 .. K
    BY <2>1, <2>2, <1>1
  <2>4. PICK m \in 1 .. Len(s) : m = At(Rank(s, S, n)) /\ s[m] \in S /\ Rank(s, S, m) = Rank(s, S, n)
    BY <2>3, <1>3
  <2>5. m = n
    BY <2>4, <2>1, <1>5, RankOrder, <1>0
  <2> QED
    BY <2>3, <2>4, <2>5, <1>4
<1>6. IsInjective(u)
  <2>1. ASSUME NEW a \in 1 .. K, NEW b \in 1 .. K, u[a] = u[b]
        PROVE  a = b
    <3>1. s[At(a)] = s[At(b)]
      BY <2>1, <1>4
    <3>2. At(a) = At(b)
      BY <3>1, <1>3, <1>0 DEF IsList, IsInjective
    <3> QED
      BY <3>2, <1>3
  <2>2. DOMAIN u = 1 .. K
    BY <1>4
  <2> QED
    BY <2>1, <2>2 DEF IsInjective
<1>7. Range(u) = Range(s) \cap S
  <2>1. DOMAIN u = 1 .. K /\ DOMAIN s = 1 .. Len(s)
    BY <1>4, <1>0
  <2>2. Range(u) \subseteq Range(s) \cap S
    BY <2>1, <1>3, <1>4 DEF Range
  <2>3. Range(s) \cap S \subseteq Range(u)
    BY <2>1, <1>5 DEF Range
  <2> QED
    BY <2>2, <2>3
<1> QED
  BY <1>4, <1>5, <1>6, <1>7 DEF IsList

\* Keeping everything changes nothing.
LEMMA KeepAll ==
  ASSUME NEW s, IsList(s)
  PROVE  Keep(s, Ids) = s
<1> DEFINE u == Keep(s, Ids)
<1>0. s \in [1 .. Len(s) -> Ids] /\ Len(s) \in Nat
  BY DEF IsList
<1>1. ASSUME NEW n \in 0 .. Len(s)
      PROVE  Rank(s, Ids, n) = n
  <2> DEFINE g == [m \in 1 .. n |-> s[m]]
  <2>1. g \in Bijection(1 .. n, UpTo(s, Ids, n))
    <3>1. g \in [1 .. n -> UpTo(s, Ids, n)] /\ \A t \in UpTo(s, Ids, n) : \E m \in 1 .. n : g[m] = t
      BY <1>0 DEF UpTo
    <3>2. \A a, b \in 1 .. n : g[a] = g[b] => a = b
      BY <1>0 DEF IsList, IsInjective
    <3> QED
      BY <3>1, <3>2 DEF Bijection, Injection, Surjection, IsInjective
  <2>2. IsFiniteSet(1 .. n) /\ Cardinality(1 .. n) = n
    BY FS_Interval
  <2> QED
    BY <2>1, <2>2, FS_Bijection DEF ExistsBijection, Rank
<1>2. Len(u) = Len(s)
  BY <1>0, <1>1, KeepProperties
<1>3. u \in Seq(Ids)
  BY KeepProperties DEF IsList
<1>4. \A n \in 1 .. Len(s) : u[n] = s[n]
  BY <1>0, <1>1, KeepProperties
<1> QED
  BY <1>2, <1>3, <1>4, SeqEqual DEF IsList

-----------------------------------------------------------------------------
(* How much of a list a walk has passed.                                   *)

\* The first n elements are n, or all.
LEMMA FirstProperties ==
  ASSUME NEW s, IsList(s), NEW n \in Nat
  PROVE  /\ IsFiniteSet(First(s, n)) /\ IsFiniteSet(Range(s))
         /\ First(s, n) \subseteq Range(s)
         /\ n >= Len(s) => First(s, n) = Range(s)
         /\ Cardinality(First(s, n)) = IF n < Len(s) THEN n ELSE Len(s)
         /\ Cardinality(Range(s)) = Len(s)
<1>0. s \in [1 .. Len(s) -> Ids] /\ Len(s) \in Nat
  BY DEF IsList
<1>1. ASSUME NEW k \in 0 .. Len(s), NEW S, S = {s[m] : m \in 1 .. k}
      PROVE  IsFiniteSet(S) /\ Cardinality(S) = k
  <2> DEFINE g == [m \in 1 .. k |-> s[m]]
  <2>1. g \in Bijection(1 .. k, S)
    <3>1. g \in [1 .. k -> S] /\ \A t \in S : \E m \in 1 .. k : g[m] = t
      BY <1>1
    <3>2. \A a, b \in 1 .. k : g[a] = g[b] => a = b
      BY <1>0 DEF IsList, IsInjective
    <3> QED
      BY <3>1, <3>2 DEF Bijection, Injection, Surjection, IsInjective
  <2>2. IsFiniteSet(1 .. k) /\ Cardinality(1 .. k) = k
    BY FS_Interval
  <2> QED
    BY <2>1, <2>2, FS_Bijection DEF ExistsBijection
<1>2. Range(s) = {s[m] : m \in 1 .. Len(s)}
  BY <1>0 DEF Range
<1>3. IsFiniteSet(Range(s)) /\ Cardinality(Range(s)) = Len(s)
  BY <1>0, <1>1, <1>2
<1>4. CASE n < Len(s)
  <2>1. First(s, n) = {s[m] : m \in 1 .. n}
    BY <1>0, <1>4 DEF First
  <2>2. IsFiniteSet(First(s, n)) /\ Cardinality(First(s, n)) = n
    BY <1>0, <1>1, <1>4, <2>1
  <2>3. First(s, n) \subseteq Range(s)
    BY <1>2 DEF First
  <2> QED
    BY <1>0, <1>3, <1>4, <2>2, <2>3
<1>5. CASE n >= Len(s)
  <2>1. First(s, n) = Range(s)
    BY <1>0, <1>2, <1>5 DEF First
  <2> QED
    BY <1>0, <1>3, <1>5, <2>1
<1> QED
  BY <1>0, <1>4, <1>5

\* u is s with elements added: those of s are where they were or further back.
Grows(s, u) ==
  /\ Range(s) \subseteq Range(u)
  /\ \A n \in Nat : First(u, n) \subseteq First(s, n) \cup (Range(u) \ Range(s))

\* What s and u both hold, they hold in one order.
SameOrder(s, u) ==
  \A m \in 1 .. Len(s), n \in 1 .. Len(u) : s[m] = u[n] =>
    \A a \in 1 .. Len(s), b \in 1 .. Len(u) : s[a] = u[b] => (a <= m <=> b <= n)

\* Then keeping more of it only moves elements back.
LEMMA KeepGrows ==
  ASSUME NEW s, NEW u, IsList(s), IsList(u), NEW S, NEW T, SameOrder(s, u),
         Range(s) \cap S \subseteq Range(u) \cap T
  PROVE  Grows(Keep(s, S), Keep(u, T))
<1> DEFINE L == Keep(s, S)
           M == Keep(u, T)
<1>0. /\ s \in [1 .. Len(s) -> Ids] /\ Len(s) \in Nat /\ DOMAIN s = 1 .. Len(s)
      /\ u \in [1 .. Len(u) -> Ids] /\ Len(u) \in Nat /\ DOMAIN u = 1 .. Len(u)
  BY DEF IsList
<1>1. /\ IsList(L) /\ Range(L) = Range(s) \cap S
      /\ \A n \in 1 .. Len(s) : s[n] \in S =>
           Rank(s, S, n) \in 1 .. Len(L) /\ L[Rank(s, S, n)] = s[n]
  BY KeepProperties
<1>2. /\ IsList(M) /\ Range(M) = Range(u) \cap T
      /\ \A n \in 1 .. Len(u) : u[n] \in T =>
           Rank(u, T, n) \in 1 .. Len(M) /\ M[Rank(u, T, n)] = u[n]
  BY KeepProperties
<1>3. ASSUME NEW m \in 1 .. Len(s), NEW n \in 1 .. Len(u), s[m] = u[n]
      PROVE  Rank(s, S, m) <= Rank(u, T, n)
  <2>1. UpTo(s, S, m) \in SUBSET UpTo(u, T, n)
    <3>1. ASSUME NEW a \in 1 .. m, s[a] \in S
          PROVE  s[a] \in UpTo(u, T, n)
      <4>1. a \in 1 .. Len(s) /\ a <= m
        BY <1>0
      <4>2. s[a] \in Range(u) \cap T
        BY <4>1, <3>1, <1>0 DEF Range
      <4>3. PICK b \in 1 .. Len(u) : s[a] = u[b]
        BY <4>2, <1>0 DEF Range
      <4>4. b <= n
        BY <4>1, <4>3, <1>3 DEF SameOrder
      <4> QED
        BY <4>2, <4>3, <4>4, <1>0 DEF UpTo
    <3> QED
      BY <3>1 DEF UpTo
  <2>2. IsFiniteSet(UpTo(u, T, n))
    BY <1>0, UpToFinite
  <2> QED
    BY <2>1, <2>2, FS_Subset DEF Rank
<1>4. ASSUME NEW k \in Nat, NEW x \in First(M, k), x \in Range(L)
      PROVE  x \in First(L, k)
  <2>1. PICK j \in 1 .. Len(M) : j <= k /\ x = M[j]
    BY DEF First
  <2>2. PICK m \in 1 .. Len(s) : x = s[m] /\ s[m] \in S
    BY <1>4, <1>1, <1>0 DEF Range
  <2>3. x \in Range(u) \cap T
    BY <2>2, <1>0 DEF Range
  <2>4. PICK n \in 1 .. Len(u) : x = u[n] /\ u[n] \in T
    BY <2>3, <1>0 DEF Range
  <2>5. Rank(u, T, n) = j
    <3>1. Rank(u, T, n) \in 1 .. Len(M) /\ M[Rank(u, T, n)] = M[j]
      BY <1>2, <2>1, <2>4
    <3>2. DOMAIN M = 1 .. Len(M)
      BY <1>2 DEF IsList
    <3> QED
      BY <3>1, <3>2, <1>2 DEF IsList, IsInjective
  <2>6. Rank(s, S, m) <= j
    BY <2>2, <2>4, <2>5, <1>3
  <2>7. Rank(s, S, m) \in 1 .. Len(L) /\ L[Rank(s, S, m)] = x
    BY <1>1, <2>2
  <2> QED
    BY <2>1, <2>6, <2>7, <1>1 DEF First, IsList
<1>5. ASSUME NEW k \in Nat
      PROVE  First(M, k) \subseteq Range(M)
  BY <1>2, <1>5, FirstProperties
<1>6. Range(L) \subseteq Range(M)
  BY <1>1, <1>2
<1> QED
  BY <1>4, <1>5, <1>6 DEF Grows

\* The lists before and after each change have what they share in one order.
LEMMA SameOrderOfItself ==
  ASSUME NEW s, IsList(s)
  PROVE  SameOrder(s, s)
BY DEF SameOrder, IsList, IsInjective

LEMMA SameOrderOfKeep ==
  ASSUME NEW s, IsList(s), NEW S
  PROVE  SameOrder(Keep(s, S), s)
<1> DEFINE u == Keep(s, S)
<1>0. DOMAIN s = 1 .. Len(s) /\ DOMAIN u = 1 .. Len(u)
  BY KeepProperties DEF IsList
<1>1. ASSUME NEW a \in 1 .. Len(u), NEW b \in 1 .. Len(s), u[a] = s[b]
      PROVE  s[b] \in S /\ a = Rank(s, S, b)
  <2>1. s[b] \in S
    BY <1>0, <1>1, KeepProperties DEF Range
  <2>2. Rank(s, S, b) \in 1 .. Len(u) /\ u[Rank(s, S, b)] = u[a]
    BY <2>1, <1>1, KeepProperties
  <2> QED
    BY <2>1, <2>2, <1>0, KeepProperties DEF IsList, IsInjective
<1>2. ASSUME NEW m \in 1 .. Len(u), NEW n \in 1 .. Len(s), u[m] = s[n],
             NEW a \in 1 .. Len(u), NEW b \in 1 .. Len(s), u[a] = s[b]
      PROVE  a <= m <=> b <= n
  <2>1. s[n] \in S /\ m = Rank(s, S, n) /\ s[b] \in S /\ a = Rank(s, S, b)
    BY <1>1, <1>2
  <2> QED
    BY <2>1, RankOrder
<1> HIDE DEF u
<1> QED
  BY <1>2 DEF SameOrder, u

LEMMA InsertProperties ==
  ASSUME NEW s, IsList(s), NEW at \in 1 .. Len(s) + 1, NEW i \in Ids, i \notin Range(s)
  PROVE  /\ IsList(InsertAt(s, at, i))
         /\ Range(InsertAt(s, at, i)) = Range(s) \cup {i}
         /\ SameOrder(s, InsertAt(s, at, i))
<1> DEFINE u == InsertAt(s, at, i)
           front == SubSeq(s, 1, at - 1)
           back == SubSeq(s, at, Len(s))
<1>0. s \in Seq(Ids) /\ s \in [1 .. Len(s) -> Ids] /\ Len(s) \in Nat /\ DOMAIN s = 1 .. Len(s) /\ at \in Nat
  BY DEF IsList
<1>1. /\ front \in Seq(Ids) /\ Len(front) = at - 1
      /\ \A k \in 1 .. at - 1 : front[k] = s[k]
  BY <1>0
<1>2. /\ back \in Seq(Ids) /\ Len(back) = Len(s) - at + 1
      /\ \A k \in 1 .. Len(s) - at + 1 : back[k] = s[at + k - 1]
  BY <1>0
<1>3. u = (front \o <<i>>) \o back
  BY DEF InsertAt
<1> HIDE DEF front, back, u
<1> DEFINE most == front \o <<i>>
<1>a. /\ most \in Seq(Ids) /\ Len(most) = at
      /\ \A k \in 1 .. at : most[k] = IF k < at THEN s[k] ELSE i
  <2>1. <<i>> \in Seq(Ids) /\ Len(<<i>>) = 1 /\ <<i>>[1] = i
    OBVIOUS
  <2>2. /\ most \in Seq(Ids) /\ Len(most) = Len(front) + 1
        /\ \A k \in 1 .. Len(front) + 1 :
             most[k] = IF k <= Len(front) THEN front[k] ELSE <<i>>[k - Len(front)]
    BY <1>1, <2>1, ConcatProperties
  <2> HIDE DEF most
  <2> QED
    BY <1>0, <1>1, <2>1, <2>2
<1> HIDE DEF most
<1>b. /\ u \in Seq(Ids) /\ Len(u) = Len(most) + Len(back)
      /\ \A k \in 1 .. Len(most) + Len(back) :
           u[k] = IF k <= Len(most) THEN most[k] ELSE back[k - Len(most)]
  BY <1>2, <1>3, <1>a, ConcatProperties DEF most
<1>4. /\ u \in Seq(Ids) /\ Len(u) = Len(s) + 1 /\ DOMAIN u = 1 .. Len(s) + 1
      /\ \A k \in 1 .. Len(s) + 1 :
           u[k] = IF k < at THEN s[k] ELSE IF k = at THEN i ELSE s[k - 1]
  <2>1. u \in Seq(Ids) /\ Len(u) = Len(s) + 1
    BY <1>0, <1>2, <1>a, <1>b
  <2>2. ASSUME NEW k \in 1 .. at
        PROVE  u[k] = IF k < at THEN s[k] ELSE i
    BY <1>0, <1>2, <1>a, <1>b
  <2>3. ASSUME NEW k \in at + 1 .. Len(s) + 1
        PROVE  u[k] = s[k - 1]
    <3>1. k - at \in 1 .. Len(s) - at + 1 /\ k \in 1 .. Len(most) + Len(back) /\ ~ (k <= Len(most))
      BY <1>0, <1>2, <1>a
    <3>2. u[k] = back[k - at]
      BY <3>1, <1>a, <1>b
    <3>3. back[k - at] = s[at + (k - at) - 1] /\ at + (k - at) - 1 = k - 1
      BY <3>1, <1>0, <1>2
    <3> QED
      BY <3>2, <3>3
  <2>4. ASSUME NEW k \in 1 .. Len(s) + 1
        PROVE  k \in 1 .. at \/ k \in at + 1 .. Len(s) + 1
    BY <1>0
  <2> QED
    BY <1>0, <2>1, <2>2, <2>3, <2>4
<1>5. \A k \in 1 .. Len(s) : s[k] # i
  BY <1>0 DEF Range
<1>6. IsList(u)
  <2>1. ASSUME NEW a \in 1 .. Len(s) + 1, NEW b \in 1 .. Len(s) + 1, u[a] = u[b]
        PROVE  a = b
    <3>1. \A k, l \in 1 .. Len(s) : s[k] = s[l] => k = l
      BY <1>0 DEF IsList, IsInjective
    <3> QED
      BY <2>1, <3>1, <1>0, <1>4, <1>5
  <2> QED
    BY <2>1, <1>4 DEF IsList, IsInjective
<1>7. Range(u) = Range(s) \cup {i}
  <2>1. Range(u) \subseteq Range(s) \cup {i}
    <3>1. ASSUME NEW k \in 1 .. Len(s) + 1
          PROVE  u[k] = i \/ \E l \in 1 .. Len(s) : u[k] = s[l]
      BY <1>0, <1>4
    <3> QED
      BY <3>1, <1>0, <1>4 DEF Range
  <2>2. i \in Range(u)
    BY <1>0, <1>4 DEF Range
  <2>3. ASSUME NEW k \in 1 .. Len(s)
        PROVE  s[k] \in Range(u)
    <3>1. CASE k < at
      BY <3>1, <1>0, <1>4, k \in 1 .. Len(s) + 1 DEF Range
    <3>2. CASE k >= at
      BY <3>2, <1>0, <1>4, k + 1 \in 1 .. Len(s) + 1, u[k + 1] = s[k] DEF Range
    <3> QED
      BY <1>0, <3>1, <3>2
  <2> QED
    BY <2>1, <2>2, <2>3, <1>0 DEF Range
<1>8. ASSUME NEW a \in 1 .. Len(s), NEW b \in 1 .. Len(u), s[a] = u[b]
      PROVE  b = IF a < at THEN a ELSE a + 1
  <2>1. \A k, l \in 1 .. Len(s) : s[k] = s[l] => k = l
    BY <1>0 DEF IsList, IsInjective
  <2>2. b \in 1 .. Len(s) + 1 /\ b # at
    BY <1>0, <1>4, <1>5, <1>8
  <2>3. CASE b < at
    BY <1>0, <1>4, <1>8, <2>1, <2>2, <2>3, b \in 1 .. Len(s)
  <2>4. CASE b > at
    BY <1>0, <1>4, <1>8, <2>1, <2>2, <2>4, b - 1 \in 1 .. Len(s)
  <2> QED
    BY <1>0, <2>2, <2>3, <2>4
<1>9. SameOrder(s, u)
  <2>1. ASSUME NEW m \in 1 .. Len(s), NEW n \in 1 .. Len(u), s[m] = u[n],
               NEW a \in 1 .. Len(s), NEW b \in 1 .. Len(u), s[a] = u[b]
        PROVE  a <= m <=> b <= n
    <3>1. n = (IF m < at THEN m ELSE m + 1) /\ b = IF a < at THEN a ELSE a + 1
      BY <1>8, <2>1
    <3> QED
      BY <3>1, <1>0
  <2> QED
    BY <2>1 DEF SameOrder
<1> QED
  BY <1>6, <1>7, <1>9 DEF u

\* A page holds what lies between its bounds.
LEMMA SliceProperties ==
  ASSUME NEW s, IsList(s), NEW c \in Nat, NEW n \in Nat
  PROVE  /\ IsList(Slice(s, c, n))
         /\ Range(Slice(s, c, n)) = {s[j] : j \in {k \in 1 .. Len(s) : c < k /\ k <= c + n}}
         /\ Range(Slice(s, c, n)) = First(s, c + n) \ First(s, c)
<1> DEFINE end == IF c + n < Len(s) THEN c + n ELSE Len(s)
           u == Slice(s, c, n)
<1>0. /\ s \in Seq(Ids) /\ s \in [1 .. Len(s) -> Ids] /\ Len(s) \in Nat /\ DOMAIN s = 1 .. Len(s)
      /\ \A k, l \in 1 .. Len(s) : s[k] = s[l] => k = l
  BY DEF IsList, IsInjective
<1>1. end \in Nat /\ end <= Len(s) /\ end <= c + n /\ (end = c + n \/ end = Len(s))
  <2>1. Len(s) \in Nat /\ c + n \in Nat
    BY <1>0
  <2> QED
    BY ONLY <2>1
<1>2. u = SubSeq(s, c + 1, end)
  BY DEF Slice
<1> HIDE DEF end, u
<1>3. /\ u \in Seq(Ids) /\ Len(u) = (IF c + 1 <= end THEN end - c ELSE 0)
      /\ \A i \in 1 .. end - c : u[i] = s[c + i]
  <2>1. \A i \in c + 1 .. end : s[i] \in Ids
    BY <1>0, <1>1
  <2>2. /\ u \in Seq(Ids) /\ Len(u) = (IF c + 1 <= end THEN end - (c + 1) + 1 ELSE 0)
        /\ \A i \in 1 .. end - (c + 1) + 1 : u[i] = s[c + 1 + i - 1]
    BY <1>1, <1>2, <2>1, SubSeqProperties
  <2>3. end - (c + 1) + 1 = end - c /\ \A i \in Nat : c + 1 + i - 1 = c + i
    BY <1>1
  <2>4. \A i \in 1 .. end - c : u[i] = s[c + 1 + i - 1] /\ i \in Nat
    BY <2>2, <2>3
  <2>5. Len(u) = (IF c + 1 <= end THEN end - c ELSE 0)
    BY <2>2, <2>3
  <2> QED
    BY <2>2, <2>3, <2>4, <2>5
<1>4. DOMAIN u = 1 .. Len(u) /\ \A i \in 1 .. Len(u) : c + i \in 1 .. Len(s) /\ c + i <= end /\ u[i] = s[c + i]
  BY <1>1, <1>3
<1>5. IsList(u)
  BY <1>0, <1>3, <1>4 DEF IsList, IsInjective
<1>6. Range(u) = {s[j] : j \in {k \in 1 .. Len(s) : c < k /\ k <= c + n}}
  <2>1. ASSUME NEW i \in 1 .. Len(u)
        PROVE  c + i \in {k \in 1 .. Len(s) : c < k /\ k <= c + n} /\ u[i] = s[c + i]
    BY <1>1, <1>3, <1>4
  <2>2. ASSUME NEW j \in 1 .. Len(s), c < j, j <= c + n
        PROVE  j - c \in 1 .. Len(u) /\ u[j - c] = s[j]
    <3>0. Len(s) \in Nat
      BY <1>0
    <3>1. j \in Nat /\ j <= end
      BY ONLY <3>0, <1>1, <2>2, j \in 1 .. Len(s), c \in Nat, n \in Nat
    <3>2. j - c \in 1 .. end - c /\ c + 1 <= end /\ c + (j - c) = j
      BY <3>1, <1>1, <2>2
    <3> QED
      BY <3>2, <1>3
  <2> QED
    BY <1>4, <2>1, <2>2 DEF Range
<1>7. {s[j] : j \in {k \in 1 .. Len(s) : c < k /\ k <= c + n}} = First(s, c + n) \ First(s, c)
  BY <1>0 DEF First
<1> QED
  BY <1>5, <1>6, <1>7 DEF u

\* What two sequences hold together.
LEMMA ConcatRange ==
  ASSUME NEW s \in Seq(Ids), NEW u \in Seq(Ids)
  PROVE  /\ s \o u \in Seq(Ids) /\ Len(s \o u) = Len(s) + Len(u)
         /\ Range(s \o u) = Range(s) \cup Range(u)
<1> DEFINE w == s \o u
<1>1. /\ w \in Seq(Ids) /\ Len(w) = Len(s) + Len(u)
      /\ \A i \in 1 .. Len(s) + Len(u) : w[i] = IF i <= Len(s) THEN s[i] ELSE u[i - Len(s)]
  BY ConcatProperties
<1>2. DOMAIN w = 1 .. Len(w) /\ DOMAIN s = 1 .. Len(s) /\ DOMAIN u = 1 .. Len(u)
      /\ Len(s) \in Nat /\ Len(u) \in Nat
  BY <1>1
<1> HIDE DEF w
<1>3. Range(w) \subseteq Range(s) \cup Range(u)
  <2>1. ASSUME NEW i \in 1 .. Len(s) + Len(u)
        PROVE  w[i] \in Range(s) \cup Range(u)
    <3>1. CASE i <= Len(s)
      BY <3>1, <1>1, <1>2, i \in 1 .. Len(s) DEF Range
    <3>2. CASE i > Len(s)
      BY <3>2, <1>1, <1>2, i - Len(s) \in 1 .. Len(u) DEF Range
    <3> QED
      BY <3>1, <3>2, <1>2
  <2> QED
    BY <2>1, <1>1, <1>2 DEF Range
<1>4. ASSUME NEW i \in 1 .. Len(s)
      PROVE  s[i] \in Range(w)
  BY <1>1, <1>2, i \in 1 .. Len(w), w[i] = s[i] DEF Range
<1>5. ASSUME NEW i \in 1 .. Len(u)
      PROVE  u[i] \in Range(w)
  BY <1>1, <1>2, i + Len(s) \in 1 .. Len(w), w[i + Len(s)] = u[i] DEF Range
<1>6. Range(s) \cup Range(u) \subseteq Range(w)
  BY <1>2, <1>4, <1>5 DEF Range
<1> QED
  BY <1>1, <1>3, <1>6 DEF w

LEMMA RangeFinite ==
  ASSUME NEW s \in Seq(Ids)
  PROVE  IsFiniteSet(Range(s)) /\ Cardinality(Range(s)) \in Nat /\ Len(s) \in Nat
<1>1. s \in Surjection(1 .. Len(s), Range(s)) /\ Len(s) \in Nat
  BY DEF Surjection, Range
<1> QED
  BY <1>1, FS_Interval, FS_Surjection, FS_CardinalityType

\* No more than what covers it.
LEMMA Covered ==
  ASSUME NEW A, NEW B, NEW C, IsFiniteSet(B), IsFiniteSet(C), A \subseteq B \cup C
  PROVE  /\ IsFiniteSet(A) /\ Cardinality(A) \in Nat
         /\ Cardinality(A) <= Cardinality(B) + Cardinality(C)
<1>1. IsFiniteSet(B \cup C) /\ Cardinality(B \cup C) = Cardinality(B) + Cardinality(C) - Cardinality(B \cap C)
  BY FS_Union
<1>2. Cardinality(B \cap C) \in Nat /\ Cardinality(B) \in Nat /\ Cardinality(C) \in Nat
  BY FS_Intersection, FS_CardinalityType
<1>3. IsFiniteSet(A) /\ Cardinality(A) <= Cardinality(B \cup C)
  BY <1>1, FS_Subset
<1> QED
  BY <1>1, <1>2, <1>3, FS_CardinalityType

\* An element that comes in pushes at most one out of the first n.
LEMMA PushedOut ==
  ASSUME NEW s, NEW u, IsList(s), IsList(u), Grows(s, u), NEW n \in Nat, NEW N, NEW Out,
         N = Range(u) \ Range(s), Out = (First(s, n) \cup N) \ First(u, n)
  PROVE  /\ IsFiniteSet(N) /\ IsFiniteSet(Out)
         /\ Cardinality(N) \in Nat /\ Cardinality(Out) \in Nat
         /\ Cardinality(Out) <= Cardinality(N)
<1> DEFINE F == First(s, n)
           G == First(u, n)
<1>1. /\ IsFiniteSet(F) /\ F \subseteq Range(s) /\ IsFiniteSet(Range(s))
      /\ Cardinality(F) = (IF n < Len(s) THEN n ELSE Len(s)) /\ Cardinality(Range(s)) = Len(s)
  BY FirstProperties
<1>2. /\ IsFiniteSet(G) /\ IsFiniteSet(Range(u))
      /\ Cardinality(G) = (IF n < Len(u) THEN n ELSE Len(u)) /\ Cardinality(Range(u)) = Len(u)
  BY FirstProperties
<1>3. Len(s) <= Len(u) /\ Len(s) \in Nat /\ Len(u) \in Nat
  BY <1>1, <1>2, FS_Subset DEF Grows, IsList
<1>4. IsFiniteSet(N) /\ Cardinality(N) \in Nat
  BY <1>2, FS_Difference, FS_CardinalityType
<1>5. IsFiniteSet(F \cup N) /\ Cardinality(F \cup N) = Cardinality(F) + Cardinality(N)
  <2>1. F \cap N = {}
    BY <1>1
  <2> QED
    <3>1. Cardinality(F \cap N) = 0 /\ Cardinality(F) \in Nat
      BY <2>1, <1>1, FS_EmptySet, FS_CardinalityType
    <3>2. IsFiniteSet(F \cup N) /\ Cardinality(F \cup N) = Cardinality(F) + Cardinality(N) - Cardinality(F \cap N)
      BY <1>1, <1>4, FS_Union
    <3> QED
      BY <3>1, <3>2, <1>4
<1>6. (F \cup N) \cap G = G
  <2>1. G \subseteq F \cup N
    BY DEF Grows
  <2> HIDE DEF F, G
  <2> QED
    BY <2>1
<1>7. IsFiniteSet(Out) /\ Cardinality(Out) = Cardinality(F \cup N) - Cardinality(G)
  <2>1. /\ IsFiniteSet((F \cup N) \ G)
        /\ Cardinality((F \cup N) \ G) = Cardinality(F \cup N) - Cardinality((F \cup N) \cap G)
    BY <1>5, FS_Difference
  <2> QED
    BY <1>6, <2>1
<1> QED
  BY <1>1, <1>2, <1>3, <1>4, <1>5, <1>7, FS_CardinalityType

\* A page was read, of a list of the elements R: g and what T has more than S
\* make h.
OnePageRead(R, S, T, g, h) ==
  /\ IsFiniteSet(R) /\ S \subseteq T /\ T \subseteq R
  /\ g \in Seq(Ids) /\ h \in Seq(Ids)
  /\ Len(h) = Len(g) + Cardinality(T \ S)
  /\ Range(h) = Range(g) \cup (T \ S)

\* What repeats in g, and what of it will if the ids in X are still to come.
Excess(g, X) ==
  (Len(g) - Cardinality(Range(g))) + Cardinality(Range(g) \cap X)

\* What of the page was received before is what repeats.
LEMMA OnePage ==
  ASSUME NEW R, NEW S, NEW T, NEW g, NEW h, OnePageRead(R, S, T, g, h)
  PROVE  /\ T \ Range(h) \subseteq S \ Range(g)
         /\ Excess(h, R \ T) = Excess(g, R \ S)
<1> DEFINE G == Range(g)
           D == T \ S
           B == G \cap D
           C == G \cap (R \ T)
<1>1. /\ IsFiniteSet(R) /\ S \subseteq T /\ T \subseteq R
      /\ g \in Seq(Ids) /\ h \in Seq(Ids)
      /\ Len(h) = Len(g) + Cardinality(D) /\ Range(h) = G \cup D
  BY DEF OnePageRead
<1>2. IsFiniteSet(D) /\ Cardinality(D) \in Nat
  BY <1>1, FS_Subset, FS_CardinalityType, D \in SUBSET R
<1>4. IsFiniteSet(G) /\ Cardinality(G) \in Nat /\ Len(g) \in Nat
  BY <1>1, RangeFinite
<1>6. IsFiniteSet(B) /\ IsFiniteSet(C) /\ Cardinality(B) \in Nat /\ Cardinality(C) \in Nat
  BY <1>4, FS_Intersection, FS_CardinalityType
<1>7. Cardinality(G \cup D) = Cardinality(G) + Cardinality(D) - Cardinality(B)
  BY <1>2, <1>4, FS_Union
<1>8. Cardinality(G \cap (R \ S)) = Cardinality(B) + Cardinality(C)
  <2>1. G \cap (R \ S) = B \cup C
    BY <1>1
  <2>2. B \cap C = {}
    BY <1>1
  <2>3. Cardinality(B \cap C) = 0
    BY <2>2, FS_EmptySet
  <2>4. Cardinality(B \cup C) = Cardinality(B) + Cardinality(C) - Cardinality(B \cap C)
    BY <1>6, FS_Union
  <2>5. Cardinality(B \cup C) = Cardinality(B) + Cardinality(C)
    <3> HIDE DEF B, C
    <3> QED
      BY <2>3, <2>4, <1>6
  <2> QED
    BY <2>1, <2>5
<1>9. Range(h) \cap (R \ T) = C
  BY <1>1
<1>10. T \ Range(h) \subseteq S \ G
  BY <1>1
<1>11. Cardinality(Range(h)) = Cardinality(G) + Cardinality(D) - Cardinality(B)
  BY <1>1, <1>7
<1>12.   (Len(h) - Cardinality(Range(h))) + Cardinality(C)
       = (Len(g) - Cardinality(G)) + (Cardinality(B) + Cardinality(C))
  <2>1. Len(h) = Len(g) + Cardinality(D)
    BY <1>1
  <2> HIDE DEF G, D, B, C
  <2> QED
    BY <1>2, <1>4, <1>6, <1>11, <2>1
<1> QED
  BY <1>8, <1>9, <1>10, <1>12 DEF Excess

\* One change: each item that leaves hides at most one, each that enters shows
\* at most one again.
LEMMA OneChange ==
  ASSUME NEW L, NEW M, IsList(L), IsList(M), Grows(L, M) \/ Grows(M, L), NEW c \in Nat,
         NEW k, k \subseteq Range(L), NEW G, IsFiniteSet(G)
  PROVE  /\ Cardinality(((k \cap Range(M)) \cap First(M, c)) \ G)
              <= Cardinality((k \cap First(L, c)) \ G) + Cardinality(Range(L) \ Range(M))
         /\ Cardinality(G \cap (Range(M) \ First(M, c)))
              <= Cardinality(G \cap (Range(L) \ First(L, c))) + Cardinality(Range(M) \ Range(L))
         /\ Cardinality(Range(L) \ Range(M)) \in Nat
         /\ Cardinality(Range(M) \ Range(L)) \in Nat
<1> DEFINE K1 == (k \cap First(L, c)) \ G
           K2 == ((k \cap Range(M)) \cap First(M, c)) \ G
           G1 == G \cap (Range(L) \ First(L, c))
           G2 == G \cap (Range(M) \ First(M, c))
           In == Range(M) \ Range(L)
           Out == Range(L) \ Range(M)
<1>1. /\ IsFiniteSet(First(L, c)) /\ IsFiniteSet(First(M, c))
      /\ First(L, c) \subseteq Range(L) /\ First(M, c) \subseteq Range(M)
      /\ IsFiniteSet(Range(L)) /\ IsFiniteSet(Range(M))
  BY FirstProperties
<1>2. /\ IsFiniteSet(K1) /\ IsFiniteSet(K2) /\ IsFiniteSet(G1) /\ IsFiniteSet(G2)
      /\ IsFiniteSet(In) /\ IsFiniteSet(Out)
  BY <1>1, FS_Difference, FS_Intersection
<1>3. /\ Cardinality(K1) \in Nat /\ Cardinality(G1) \in Nat
      /\ Cardinality(In) \in Nat /\ Cardinality(Out) \in Nat
  BY <1>2, FS_CardinalityType
<1>4. ASSUME Grows(L, M)
      PROVE  Cardinality(K2) <= Cardinality(K1) + Cardinality(Out)
             /\ Cardinality(G2) <= Cardinality(G1) + Cardinality(In)
  <2> DEFINE X == (First(L, c) \cup In) \ First(M, c)
  <2>1. IsFiniteSet(X) /\ Cardinality(X) \in Nat /\ Cardinality(X) <= Cardinality(In)
    BY <1>4, PushedOut
  <2>2. First(M, c) \subseteq First(L, c) \cup In /\ Range(L) \subseteq Range(M)
    BY <1>4 DEF Grows
  <2>3. G2 \subseteq G1 \cup X
    BY <2>2
  <2>4. K2 \subseteq K1 \cup {}
    BY <2>2, <1>1
  <2>5. IsFiniteSet({}) /\ Cardinality({}) = 0
    BY FS_EmptySet
  <2>6. Cardinality(G2) \in Nat /\ Cardinality(G2) <= Cardinality(G1) + Cardinality(X)
    BY <2>1, <2>3, <1>2, Covered
  <2>7. Cardinality(K2) \in Nat /\ Cardinality(K2) <= Cardinality(K1) + Cardinality({})
    BY <2>4, <2>5, <1>2, Covered
  <2> HIDE DEF K1, K2, G1, G2, In, Out, X
  <2> QED
    BY <1>3, <2>1, <2>5, <2>6, <2>7
<1>5. ASSUME Grows(M, L)
      PROVE  Cardinality(K2) <= Cardinality(K1) + Cardinality(Out)
             /\ Cardinality(G2) <= Cardinality(G1) + Cardinality(In)
  <2> DEFINE X == (First(M, c) \cup Out) \ First(L, c)
  <2>1. IsFiniteSet(X) /\ Cardinality(X) \in Nat /\ Cardinality(X) <= Cardinality(Out)
    BY <1>5, PushedOut
  <2>2. First(L, c) \subseteq First(M, c) \cup Out /\ Range(M) \subseteq Range(L)
    BY <1>5 DEF Grows
  <2>3. K2 \subseteq K1 \cup X
    BY <2>2
  <2>4. G2 \subseteq G1 \cup {}
    BY <2>2, <1>1
  <2>5. IsFiniteSet({}) /\ Cardinality({}) = 0
    BY FS_EmptySet
  <2>6. Cardinality(K2) \in Nat /\ Cardinality(K2) <= Cardinality(K1) + Cardinality(X)
    BY <2>1, <2>3, <1>2, Covered
  <2>7. Cardinality(G2) \in Nat /\ Cardinality(G2) <= Cardinality(G1) + Cardinality({})
    BY <2>4, <2>5, <1>2, Covered
  <2> HIDE DEF K1, K2, G1, G2, In, Out, X
  <2> QED
    BY <1>3, <2>1, <2>5, <2>6, <2>7
<1> QED
  BY <1>3, <1>4, <1>5

\* A list that grows by nothing is the same.
LEMMA GrowsByNothing ==
  ASSUME NEW L, NEW M, IsList(L), IsList(M), Grows(L, M), Range(L) = Range(M)
  PROVE  L = M
<1>1. Len(L) = Len(M) /\ Len(L) \in Nat
  BY FirstProperties, 0 \in Nat DEF IsList
<1>2. ASSUME NEW n \in Nat
      PROVE  First(L, n) = First(M, n)
  <2>1. First(M, n) \subseteq First(L, n)
    <3>1. First(M, n) \subseteq First(L, n) \cup (Range(M) \ Range(L))
      BY DEF Grows
    <3> QED
      BY <3>1
  <2>2. IsFiniteSet(First(L, n)) /\ Cardinality(First(L, n)) = Cardinality(First(M, n))
    BY <1>1, FirstProperties
  <2> QED
    BY <2>1, <2>2, FS_Subset
<1>3. \A a, b \in 1 .. Len(M) : M[a] = M[b] => a = b
  BY DEF IsList, IsInjective
<1>4. ASSUME NEW j \in 1 .. Len(L)
      PROVE  L[j] = M[j]
  <2>1. M[j] \in First(M, j) /\ j \in Nat /\ j - 1 \in Nat
    BY <1>1 DEF First
  <2>2. PICK a \in 1 .. Len(L) : a <= j /\ L[a] = M[j]
    BY <2>1, <1>2 DEF First
  <2>3. CASE a = j
    BY <2>2, <2>3
  <2>4. CASE a # j
    <3>1. L[a] \in First(L, j - 1)
      BY <2>1, <2>2, <2>4, <1>1 DEF First
    <3>2. PICK b \in 1 .. Len(M) : b <= j - 1 /\ M[b] = M[j]
      BY <3>1, <2>1, <2>2, <1>2 DEF First
    <3> QED
      BY <3>2, <1>1, <1>3
  <2> QED
    BY <2>3, <2>4
<1> QED
  BY <1>1, <1>4, SeqEqual DEF IsList

\* The page a request answers is such a page.
LEMMA SliceRead ==
  ASSUME NEW s, IsList(s), NEW c \in Nat, NEW n \in Nat, NEW e, e = c + n,
         NEW g \in Seq(Ids), NEW h, h = g \o Slice(s, c, n)
  PROVE  OnePageRead(Range(s), First(s, c), First(s, e), g, h)
<1>1. PICK d : d = Slice(s, c, n) /\ h = g \o d
  OBVIOUS
<1>2. IsList(d) /\ d \in Seq(Ids) /\ Range(d) = First(s, e) \ First(s, c)
  BY <1>1, SliceProperties DEF IsList
<1>3. Cardinality(Range(d)) = Len(d)
  BY <1>2, FirstProperties, 0 \in Nat
<1>4. h \in Seq(Ids) /\ Len(h) = Len(g) + Len(d) /\ Range(h) = Range(g) \cup Range(d)
  BY <1>1, <1>2, ConcatRange
<1>5. First(s, c) \subseteq First(s, e)
  BY DEF First, IsList
<1>6. First(s, e) \subseteq Range(s) /\ IsFiniteSet(Range(s))
  BY FirstProperties, e \in Nat
<1> QED
  BY <1>2, <1>3, <1>4, <1>5, <1>6 DEF OnePageRead

LEMMA Products ==
  ASSUME NEW a \in Nat, NEW l \in Nat
  PROVE  a * l \in Nat /\ (a + 1) * l = a * l + l /\ 0 * l = 0
OBVIOUS

\* A page begins where those before it have ended.
LEMMA ProductsGrow ==
  ASSUME NEW a \in Nat, NEW b \in Nat, a <= b, NEW l \in Nat
  PROVE  a * l <= b * l
<1>1. (b - a) * l \in Nat /\ b * l = a * l + (b - a) * l
  OBVIOUS
<1> QED
  BY <1>1

-----------------------------------------------------------------------------
(* The steps.                                                              *)

\* The list a request is about, now.
Current == Listed(items, active)

LEMMA ListedProperties ==
  ASSUME NEW s, IsList(s), NEW act
  PROVE  IsList(Listed(s, act)) /\ Range(Listed(s, act)) = Range(s) \cap Wanted(act)
BY KeepProperties DEF Listed

LEMMA ItemsAreAList ==
  ASSUME TypeOK
  PROVE  IsList(items) /\ IsList(Current) /\ limit \in Nat
BY ListedProperties, LimitsAssumption DEF TypeOK, IsList, Current

\* A page answered is a slice of the list.
LEMMA GetProperties ==
  ASSUME TypeOK, NEW c \in Nat, NEW n \in Nat, NEW page, page = Get(c, n), page.code = "200"
  PROVE  page.data = Slice(Current, c, n) /\ page.total = Len(Current)
<1>1. n \in 1 .. MaxLimit
  <2>1. Error("422").code # "200"
    BY DEF Error
  <2> QED
    BY <2>1 DEF Get
<1>2. CASE kind = "vms"
  <2>1. Current = Keep(items, IF filter THEN active ELSE Ids)
    BY <1>2 DEF Current, Listed, Wanted
  <2>2. page = ListVms(c, n)
    BY <1>1, <1>2 DEF Get
  <2> QED
    BY <2>1, <2>2 DEF ListVms, FromPage, Error
<1>3. CASE kind = "flavors"
  <2>1. Current = items
    BY <1>3, ItemsAreAList, KeepAll DEF Current, Listed, Wanted
  <2>2. page = ListFlavors(c, n)
    BY <1>1, <1>3 DEF Get
  <2> QED
    BY <2>1, <2>2 DEF ListFlavors, FromPage, Error
<1>4. CASE kind = "images"
  <2>1. Current = Keep(items, Ids \ Bad)
    BY <1>4 DEF Current, Listed, Wanted
  <2>2. page = ListImages(c, n)
    BY <1>1, <1>4 DEF Get
  <2> QED
    BY <2>1, <2>2 DEF ListImages, FromPage, Error
<1> QED
  BY <1>2, <1>3, <1>4 DEF TypeOK, Kinds

\* What a page read does to the client.
LEMMA ReadEffect ==
  ASSUME TypeOK, NEW p \in unread, ReadPage(p)
  PROVE  /\ p \in Nat /\ p * limit \in Nat /\ pc = "reading"
         /\ UNCHANGED <<fixed, items, active, kept, entered, left>>
         /\ Current' = Current
         /\ \/ \E next \in SUBSET Nat :
                 /\ next = IF mode = "walk"
                           THEN IF (p + 1) * limit < Len(Current) THEN {p + 1} ELSE {}
                           ELSE unread \ {p}
                 /\ got' = got \o Slice(Current, p * limit, limit)
                 /\ unread' = next
                 /\ pc' = IF next = {} THEN "done" ELSE "reading"
            \/ pc' = "failed" /\ UNCHANGED <<got, unread>>
<1>1. p \in Nat /\ limit \in Nat /\ p * limit \in Nat
  BY ItemsAreAList, Products DEF TypeOK
<1>2. PICK page : page = Get(p * limit, limit)
  OBVIOUS
<1> DEFINE next == IF mode = "walk"
                   THEN IF (p + 1) * limit < page.total THEN {p + 1} ELSE {}
                   ELSE unread \ {p}
<1>3. /\ pc = "reading" /\ UNCHANGED <<fixed, items, active, kept, entered, left>>
      /\ \/ /\ page.code = "200"
            /\ got' = got \o page.data
            /\ unread' = next
            /\ pc' = IF next = {} THEN "done" ELSE "reading"
         \/ pc' = "failed" /\ UNCHANGED <<got, unread>>
  BY <1>2 DEF ReadPage
<1>4. Current' = Current
  BY <1>3 DEF fixed, Current, Listed, Wanted
<1>5. CASE page.code = "200"
  <2>1. page.data = Slice(Current, p * limit, limit) /\ page.total = Len(Current)
    BY <1>1, <1>2, <1>5, GetProperties
  <2>2. next \in SUBSET Nat
    BY <1>1 DEF TypeOK
  <2> QED
    BY <1>1, <1>3, <1>4, <2>1, <2>2
<1>6. CASE page.code # "200"
  BY <1>1, <1>3, <1>4, <1>6
<1> QED
  BY <1>5, <1>6

\* What happens to the list: it grows or shrinks, and keeps its order.
LEMMA ChangeEffect ==
  ASSUME TypeOK, NEW i \in Ids, Added(i) \/ Removed(i) \/ StatusChanges(i)
  PROVE  \E s, act :
           /\ IsList(s) /\ act \subseteq Ids /\ Changes(s, act)
           /\ Grows(Current, Listed(s, act)) \/ Grows(Listed(s, act), Current)
<1>0. IsList(items) /\ active \subseteq Ids
  BY ItemsAreAList DEF TypeOK
<1>1. CASE Added(i)
  <2>1. PICK at \in 1 .. Len(items) + 1 : i \notin Range(items) /\ Changes(InsertAt(items, at, i), active)
    BY <1>0, <1>1 DEF Added, IsList
  <2> DEFINE s == InsertAt(items, at, i)
  <2>2. IsList(s) /\ SameOrder(items, s) /\ Range(items) \subseteq Range(s)
    BY <1>0, <2>1, InsertProperties
  <2> HIDE DEF s
  <2>3. Grows(Current, Listed(s, active))
    BY <1>0, <2>2, KeepGrows DEF Current, Listed
  <2> QED
    BY <1>0, <2>1, <2>2, <2>3 DEF s
<1>2. CASE Removed(i)
  <2> DEFINE s == Keep(items, Ids \ {i})
             act == active \ {i}
  <2>1. Changes(s, act)
    BY <1>2 DEF Removed
  <2>2. IsList(s) /\ SameOrder(s, items) /\ Range(s) \subseteq Range(items)
    BY <1>0, KeepProperties, SameOrderOfKeep
  <2>3. Wanted(act) \subseteq Wanted(active)
    BY DEF Wanted, TypeOK, Kinds
  <2> HIDE DEF s, act
  <2>4. Grows(Listed(s, act), Current)
    BY <1>0, <2>2, <2>3, KeepGrows DEF Current, Listed
  <2>5. act \subseteq Ids
    BY <1>0 DEF act
  <2> QED
    BY <2>1, <2>2, <2>4, <2>5
<1>3. CASE StatusChanges(i)
  <2> DEFINE act == IF i \in active THEN active \ {i} ELSE active \cup {i}
  <2>1. Changes(items, act)
    BY <1>3 DEF StatusChanges
  <2>2. act \subseteq Ids
    BY <1>0
  <2>3. Wanted(act) \subseteq Wanted(active) \/ Wanted(active) \subseteq Wanted(act)
    BY DEF Wanted, TypeOK, Kinds
  <2> HIDE DEF act
  <2>4. SameOrder(items, items)
    BY <1>0, SameOrderOfItself
  <2>5. CASE Wanted(act) \subseteq Wanted(active)
    <3>1. Grows(Listed(items, act), Current)
      BY <1>0, <2>4, <2>5, KeepGrows DEF Current, Listed
    <3> QED
      BY <1>0, <2>1, <2>2, <3>1
  <2>6. CASE Wanted(active) \subseteq Wanted(act)
    <3>1. Grows(Current, Listed(items, act))
      BY <1>0, <2>4, <2>6, KeepGrows DEF Current, Listed
    <3> QED
      BY <1>0, <2>1, <2>2, <3>1
  <2> QED
    BY <2>3, <2>5, <2>6
<1> QED
  BY <1>1, <1>2, <1>3

\* The counters of what came and went, and the list after it.
LEMMA ChangedCounters ==
  ASSUME TypeOK, NEW s, NEW act, IsList(s), Changes(s, act), NEW M, M = Listed(s, act)
  PROVE  /\ pc = "reading" /\ UNCHANGED <<fixed, client>>
         /\ Current' = M /\ IsList(M) /\ IsList(Current)
         /\ kept' = kept \cap Range(M)
         /\ Cardinality(Range(M) \ Range(Current)) \in Nat
         /\ Cardinality(Range(Current) \ Range(M)) \in Nat
         /\ entered' = entered + Cardinality(Range(M) \ Range(Current))
         /\ left' = left + Cardinality(Range(Current) \ Range(M))
         /\ IsFiniteSet(Range(M)) /\ IsFiniteSet(Range(Current))
<1>1. IsList(M) /\ IsList(Current)
  BY ListedProperties, ItemsAreAList
<1>2. IsFiniteSet(Range(M)) /\ IsFiniteSet(Range(Current))
  BY <1>1, FirstProperties, 0 \in Nat
<1>3. /\ Cardinality(Range(M) \ Range(Current)) \in Nat
      /\ Cardinality(Range(Current) \ Range(M)) \in Nat
  BY <1>2, FS_Difference, FS_CardinalityType
<1>4. /\ pc = "reading" /\ UNCHANGED <<fixed, client>> /\ items' = s /\ active' = act
      /\ kept' = kept \cap Range(M)
      /\ entered' = entered + Cardinality(Range(M) \ Range(Current))
      /\ left' = left + Cardinality(Range(Current) \ Range(M))
  BY DEF Changes, Current
<1>5. Current' = M
  BY <1>4 DEF Current, Listed, Wanted, fixed
<1> QED
  BY <1>1, <1>2, <1>3, <1>4, <1>5

-----------------------------------------------------------------------------
(* Types.                                                                  *)

LEMMA InitType ==
  ASSUME Init
  PROVE  TypeOK
<1>1. PICK S \in {T \in SUBSET Ids : IsFiniteSet(T)} : items \in SetToSeqs(S)
  BY DEF Init
<1>2. Cardinality(S) \in Nat
  BY <1>1, FS_CardinalityType
<1>3. items \in [1 .. Cardinality(S) -> Ids] /\ IsInjective(items)
  BY <1>1 DEF SetToSeqs, IsInjective
<1>4. items \in Seq(Ids) /\ Range(items) \subseteq Ids
  BY <1>2, <1>3 DEF Range
<1>5. active \subseteq Ids
  BY <1>4 DEF Init
<1>6. kept \subseteq Ids
  <2>1. kept = Range(items) \cap Wanted(active)
    BY <1>3, <1>4, ListedProperties DEF Init, IsList
  <2> QED
    BY <2>1, <1>4
<1>7. unread \subseteq Nat /\ filter \in BOOLEAN
  <2>1. unread \subseteq Nat
    BY BlocksAssumption DEF Init
  <2>2. filter \in BOOLEAN
    <3>1. filter \in IF kind = "vms" THEN BOOLEAN ELSE {FALSE}
      BY DEF Init
    <3> QED
      BY <3>1, Zenon
  <2> QED
    BY <2>1, <2>2
<1> QED
  BY <1>3, <1>4, <1>5, <1>6, <1>7 DEF Init, TypeOK

LEMMA StepType ==
  ASSUME TypeOK, [Next]_vars
  PROVE  TypeOK'
<1>1. ASSUME NEW p \in unread, ReadPage(p)
      PROVE  TypeOK'
  <2>1. IsList(Current) /\ limit \in Nat /\ p * limit \in Nat
    BY <1>1, ItemsAreAList, ReadEffect
  <2>2. Slice(Current, p * limit, limit) \in Seq(Ids)
    BY <2>1, SliceProperties DEF IsList
  <2>3. got \in Seq(Ids) /\ unread \subseteq Nat
    BY DEF TypeOK
  <2>4. got' \in Seq(Ids) /\ unread' \subseteq Nat /\ pc' \in {"reading", "done", "failed"}
    BY <1>1, <2>2, <2>3, ReadEffect, ConcatRange DEF TypeOK
  <2>5. UNCHANGED <<kind, filter, items, active, mode, limit, kept, entered, left>>
    BY <1>1, ReadEffect DEF fixed
  <2> QED
    BY <2>4, <2>5 DEF TypeOK
<1>2. ASSUME NEW i \in Ids, Added(i) \/ Removed(i) \/ StatusChanges(i)
      PROVE  TypeOK'
  <2>1. PICK s, act : IsList(s) /\ act \subseteq Ids /\ Changes(s, act)
    BY <1>2, ChangeEffect
  <2>2. UNCHANGED <<kind, filter, mode, limit, unread, pc, got>> /\ items' = s /\ active' = act
    BY <2>1 DEF Changes, fixed, client
  <2>3. kept' \subseteq kept /\ entered' \in Nat /\ left' \in Nat
    <3>1. PICK M : M = Listed(s, act)
      OBVIOUS
    <3> QED
      <4>1. /\ kept' = kept \cap Range(M)
            /\ Cardinality(Range(M) \ Range(Current)) \in Nat
            /\ Cardinality(Range(Current) \ Range(M)) \in Nat
            /\ entered' = entered + Cardinality(Range(M) \ Range(Current))
            /\ left' = left + Cardinality(Range(Current) \ Range(M))
        BY <2>1, <3>1, ChangedCounters
      <4> QED
        BY <4>1 DEF TypeOK
  <2> QED
    BY <2>1, <2>2, <2>3 DEF TypeOK, IsList
<1>3. CASE UNCHANGED vars
  BY <1>3 DEF vars, TypeOK
<1> QED
  BY <1>1, <1>2, <1>3 DEF Next

\* The type invariant: the list repeats nothing, however servers come, go and
\* change status, and what a client holds of it are ids, in a sequence.
THEOREM TypeCorrect == Spec => []TypeOK
BY InitType, StepType, PTL DEF Spec

-----------------------------------------------------------------------------
(* Walks.                                                                  *)

\* A walk has passed the first c of L: what it missed of them, and what it
\* holds although it is still to come.
Walked(L, c) ==
  /\ Cardinality((kept \cap First(L, c)) \ Range(got)) <= left
  /\ Repeats + Cardinality(Range(got) \cap (Range(L) \ First(L, c))) <= entered

WalkInv ==
  /\ kept \subseteq Range(Current)
  /\ mode = "walk" =>
       /\ pc = "reading" => \E p \in Nat : unread = {p} /\ Walked(Current, p * limit)
       /\ pc = "done" => Cardinality(Missed) <= left
       /\ Repeats <= entered

LEMMA RepeatsType ==
  ASSUME TypeOK
  PROVE  /\ Repeats \in Int /\ IsFiniteSet(Range(got))
         /\ Repeats = Len(got) - Cardinality(Range(got))
BY RangeFinite DEF TypeOK, Repeats

LEMMA InitWalk ==
  ASSUME Init
  PROVE  WalkInv
<1>1. TypeOK /\ IsList(Current) /\ limit \in Nat
  BY InitType, ItemsAreAList
<1>2. kept = Range(Current) /\ got = <<>> /\ entered = 0 /\ left = 0 /\ pc = "reading"
  BY DEF Init, Current
<1>3. Range(got) = {} /\ Repeats = 0
  <2>1. Range(got) = {} /\ Len(got) = 0
    BY <1>2 DEF Range
  <2> QED
    BY <2>1, FS_EmptySet DEF Repeats
<1>4. PICK c \in Nat : c = 0 * limit /\ First(Current, c) = {}
  BY <1>1, Products DEF First, IsList
<1>5. Walked(Current, c)
  <2>1. (kept \cap First(Current, c)) \ Range(got) = {}
        /\ Range(got) \cap (Range(Current) \ First(Current, c)) = {}
    BY <1>3, <1>4
  <2> QED
    <3>1. Cardinality({}) = 0
      BY FS_EmptySet
    <3>2. /\ Cardinality((kept \cap First(Current, c)) \ Range(got)) = 0
          /\ Cardinality(Range(got) \cap (Range(Current) \ First(Current, c))) = 0
      BY <2>1, <3>1
    <3>3. left = 0 /\ entered = 0 /\ Repeats = 0
      BY <1>2, <1>3
    <3> QED
      BY <3>2, <3>3 DEF Walked
<1>6. mode = "walk" => unread = {0}
  BY DEF Init
<1> QED
  BY <1>2, <1>3, <1>4, <1>5, <1>6, 0 \in Nat DEF WalkInv

LEMMA ReadWalk ==
  ASSUME TypeOK, WalkInv, NEW p \in unread, ReadPage(p)
  PROVE  WalkInv'
<1>0. /\ UNCHANGED <<mode, limit, kept, entered, left>> /\ Current' = Current
      /\ p \in Nat /\ limit \in Nat /\ p * limit \in Nat /\ pc = "reading"
      /\ IsList(Current) /\ Len(Current) \in Nat
  BY ReadEffect, ItemsAreAList DEF fixed, IsList
<1>1. kept' \subseteq Range(Current')
  BY <1>0 DEF WalkInv
<1>2. CASE mode # "walk"
  BY <1>0, <1>1, <1>2 DEF WalkInv
<1>3. CASE mode = "walk" /\ pc' = "failed" /\ UNCHANGED <<got, unread>>
  <2>1. Repeats' = Repeats
    BY <1>3 DEF Repeats
  <2> QED
    BY <1>0, <1>1, <1>3, <2>1 DEF WalkInv
<1>4. ASSUME mode = "walk", NEW next \in SUBSET Nat,
             next = IF (p + 1) * limit < Len(Current) THEN {p + 1} ELSE {},
             got' = got \o Slice(Current, p * limit, limit), unread' = next,
             pc' = IF next = {} THEN "done" ELSE "reading"
      PROVE  WalkInv'
  <2> DEFINE c == p * limit
             d == (p + 1) * limit
             K == (kept \cap First(Current, c)) \ Range(got)
             K1 == (kept \cap First(Current, d)) \ Range(got')
             G == Range(got) \cap (Range(Current) \ First(Current, c))
             G1 == Range(got') \cap (Range(Current) \ First(Current, d))
  <2>1. d = c + limit /\ d \in Nat
    BY <1>0, Products
  <2>2. Walked(Current, c)
    BY <1>0, <1>4 DEF WalkInv
  <2>3. got \in Seq(Ids) /\ got' \in Seq(Ids) /\ entered \in Nat /\ left \in Nat
    <3>1. Slice(Current, c, limit) \in Seq(Ids)
      BY <1>0, SliceProperties DEF IsList
    <3> QED
      BY <1>4, <3>1, ConcatRange DEF TypeOK
  <2>4. K1 \subseteq K /\ Repeats' + Cardinality(G1) = Repeats + Cardinality(G)
    <3>1. /\ (kept \cap First(Current, c + limit)) \ Range(got') \subseteq K
          /\ Excess(got', Range(Current) \ First(Current, c + limit))
               = Excess(got, Range(Current) \ First(Current, c))
      <4>1. PICK L, g, h, n, m, e : /\ L = Current /\ g = got /\ h = got'
                                    /\ n = c /\ m = limit /\ e = c + limit
        OBVIOUS
      <4>2. IsList(L) /\ n \in Nat /\ m \in Nat /\ e = n + m /\ g \in Seq(Ids) /\ h = g \o Slice(L, n, m)
        BY <4>1, <1>0, <1>4, <2>3
      <4>3. PICK R, S, T : R = Range(L) /\ S = First(L, n) /\ T = First(L, e)
        OBVIOUS
      <4>4. OnePageRead(R, S, T, g, h)
        <5>1. OnePageRead(Range(L), First(L, n), First(L, e), g, h)
          BY <4>2, SliceRead
        <5> QED
          BY <4>3, <5>1
      <4>5. /\ T \ Range(h) \subseteq S \ Range(g)
            /\ Excess(h, R \ T) = Excess(g, R \ S)
        BY <4>4, OnePage
      <4> QED
        BY <4>1, <4>3, <4>5
    <3> QED
      BY <2>1, <3>1 DEF Repeats, Excess
  <2>5. Cardinality(K) <= left /\ Repeats + Cardinality(G) <= entered
    BY <2>2 DEF Walked
  <2>6. /\ IsFiniteSet(K) /\ IsFiniteSet(G1) /\ Cardinality(G1) \in Nat /\ Repeats' \in Int
        /\ Cardinality(K) \in Nat
    <3>1. IsFiniteSet(First(Current, c))
      BY <1>0, FirstProperties
    <3>2. IsFiniteSet(Range(got')) /\ Cardinality(Range(got')) \in Nat /\ Len(got') \in Nat
      BY <2>3, RangeFinite
    <3>3. Repeats' \in Int
      BY <3>2 DEF Repeats
    <3> QED
      BY <3>1, <3>2, <3>3, FS_Intersection, FS_Difference, FS_CardinalityType
  <2>7. Cardinality(K1) <= left
    <3>1. Cardinality(K1) <= Cardinality(K) /\ IsFiniteSet(K1)
      BY <2>4, <2>6, FS_Subset
    <3>2. Cardinality(K1) \in Nat
      BY <3>1, FS_CardinalityType
    <3> HIDE DEF K, K1
    <3> QED
      BY <2>3, <2>5, <2>6, <3>1, <3>2
  <2>8. Repeats' + Cardinality(G1) <= entered /\ Repeats' <= entered
    <3> HIDE DEF G, G1
    <3> QED
      BY <2>3, <2>4, <2>5, <2>6
  <2>9. Walked(Current, d)'
    BY <1>0, <2>7, <2>8 DEF Walked
  <2>10. CASE d < Len(Current)
    <3>1. pc' = "reading" /\ unread' = {p + 1} /\ p + 1 \in Nat /\ d' = d
      BY <1>0, <1>4, <2>10
    <3> QED
      BY <1>1, <2>8, <1>0, <2>9, <3>1 DEF WalkInv
  <2>11. CASE ~ (d < Len(Current))
    <3>1. pc' = "done"
      BY <1>4, <2>11
    <3>2. First(Current, d) = Range(Current)
      BY <1>0, <2>1, <2>11, FirstProperties
    <3>3. Missed' = K1
      BY <1>0, <1>1, <3>2 DEF Missed
    <3> QED
      BY <1>0, <1>1, <2>7, <2>8, <3>1, <3>3 DEF WalkInv
  <2> QED
    BY <2>10, <2>11
<1> QED
  BY <1>2, <1>3, <1>4, ReadEffect

LEMMA ChangeWalk ==
  ASSUME TypeOK, WalkInv, NEW i \in Ids, Added(i) \/ Removed(i) \/ StatusChanges(i)
  PROVE  WalkInv'
<1>1. PICK s, act : /\ IsList(s) /\ act \subseteq Ids /\ Changes(s, act)
                    /\ Grows(Current, Listed(s, act)) \/ Grows(Listed(s, act), Current)
  BY ChangeEffect
<1>2. PICK L, M : L = Current /\ M = Listed(s, act)
  OBVIOUS
<1>3. /\ pc = "reading" /\ pc' = pc /\ got' = got /\ UNCHANGED <<mode, limit, unread>>
      /\ Current' = M /\ IsList(M) /\ IsList(L)
      /\ kept' = kept \cap Range(M)
      /\ Cardinality(Range(M) \ Range(L)) \in Nat
      /\ Cardinality(Range(L) \ Range(M)) \in Nat
      /\ entered' = entered + Cardinality(Range(M) \ Range(L))
      /\ left' = left + Cardinality(Range(L) \ Range(M))
  <2>1. /\ pc = "reading" /\ UNCHANGED <<fixed, client>>
        /\ Current' = M /\ IsList(M) /\ IsList(Current)
        /\ kept' = kept \cap Range(M)
        /\ Cardinality(Range(M) \ Range(Current)) \in Nat
        /\ Cardinality(Range(Current) \ Range(M)) \in Nat
        /\ entered' = entered + Cardinality(Range(M) \ Range(Current))
        /\ left' = left + Cardinality(Range(Current) \ Range(M))
    <3>1. IsList(s) /\ Changes(s, act) /\ M = Listed(s, act)
      BY <1>1, <1>2
    <3> QED
      BY <3>1, ChangedCounters
  <2>2. pc' = pc /\ got' = got /\ UNCHANGED <<mode, limit, unread>>
    BY <2>1 DEF fixed, client
  <2> QED
    BY <1>2, <2>1, <2>2
<1>4. Repeats' = Repeats /\ Repeats \in Int /\ IsFiniteSet(Range(got))
  BY <1>3, RepeatsType DEF Repeats
<1>5. kept \subseteq Range(L) /\ kept' \subseteq Range(M)
  BY <1>2, <1>3 DEF WalkInv
<1>6. entered \in Nat /\ left \in Nat /\ limit \in Nat
  BY ItemsAreAList DEF TypeOK
<1>7. CASE mode # "walk"
  BY <1>3, <1>5, <1>7 DEF WalkInv
<1>8. CASE mode = "walk"
  <2>1. PICK p \in Nat : unread = {p} /\ Walked(L, p * limit)
    BY <1>2, <1>3, <1>8 DEF WalkInv
  <2>2. PICK c \in Nat : c = p * limit
    BY <1>6, Products
  <2> DEFINE K == (kept \cap First(L, c)) \ Range(got)
             K1 == (kept' \cap First(M, c)) \ Range(got)
             G == Range(got) \cap (Range(L) \ First(L, c))
             G1 == Range(got) \cap (Range(M) \ First(M, c))
             In == Cardinality(Range(M) \ Range(L))
             Out == Cardinality(Range(L) \ Range(M))
  <2>3. /\ Cardinality(K1) <= Cardinality(K) + Out
        /\ Cardinality(G1) <= Cardinality(G) + In
    BY <1>1, <1>2, <1>3, <1>4, <1>5, OneChange
  <2>4. Cardinality(K) <= left /\ Repeats + Cardinality(G) <= entered
    BY <2>1, <2>2 DEF Walked
  <2>5. /\ Cardinality(K) \in Nat /\ Cardinality(K1) \in Nat
        /\ Cardinality(G) \in Nat /\ Cardinality(G1) \in Nat
    <3>1. IsFiniteSet(First(L, c)) /\ IsFiniteSet(First(M, c))
      BY <1>3, FirstProperties
    <3>2. IsFiniteSet(K) /\ IsFiniteSet(K1) /\ IsFiniteSet(G) /\ IsFiniteSet(G1)
      BY <1>4, <3>1, FS_Intersection, FS_Difference
    <3> QED
      BY <3>2, FS_CardinalityType
  <2>6. Cardinality(K1) <= left' /\ Repeats + Cardinality(G1) <= entered' /\ Repeats <= entered'
    <3>1. In \in Nat /\ Out \in Nat /\ entered' = entered + In /\ left' = left + Out
      BY <1>3
    <3> HIDE DEF K, K1, G, G1, In, Out
    <3> QED
      BY <1>4, <1>6, <2>3, <2>4, <2>5, <3>1
  <2>7. Walked(Current, p * limit)'
    BY <1>3, <1>4, <2>2, <2>6 DEF Walked
  <2> QED
    BY <1>3, <1>4, <1>5, <2>1, <2>6, <2>7 DEF WalkInv
<1> QED
  BY <1>7, <1>8

LEMMA StepWalk ==
  ASSUME TypeOK, WalkInv, [Next]_vars
  PROVE  WalkInv'
<1>1. CASE UNCHANGED vars
  BY <1>1 DEF vars, WalkInv, Walked, Current, Listed, Wanted, Repeats, Missed
<1> QED
  BY <1>1, ReadWalk, ChangeWalk DEF Next

\* The inductive invariant of a walk: at the border between the pages read and
\* those to come, what was missed and what will repeat is paid for by changes.
THEOREM WalkInvHolds == Spec => [](TypeOK /\ WalkInv)
<1>1. TypeOK /\ WalkInv /\ [Next]_vars => TypeOK' /\ WalkInv'
  BY StepType, StepWalk
<1>2. Init => TypeOK /\ WalkInv
  BY InitType, InitWalk
<1> QED
  BY <1>1, <1>2, PTL DEF Spec

\* However servers come, go and change status between the requests, a forward
\* walk over slices of lists fetched anew (list_vms, list_flavors, list_images)
\* misses no more of the items that were listed all the time than others left
\* the list, for every number of ids, page size and number of changes.
THEOREM WalkMisses == Spec => []WalkMissesAreBounded
<1>1. TypeOK /\ WalkInv => WalkMissesAreBounded
  BY DEF WalkInv, WalkMissesAreBounded
<1> QED
  BY <1>1, WalkInvHolds, PTL

\* And it receives an item again no more often than others came into the list.
THEOREM WalkRepeats == Spec => []WalkRepeatsAreBounded
<1>1. TypeOK /\ WalkInv => WalkRepeatsAreBounded
  BY DEF WalkInv, WalkRepeatsAreBounded
<1> QED
  BY <1>1, WalkInvHolds, PTL

-----------------------------------------------------------------------------
(* Blocks.                                                                 *)

\* What the pages b of a list L hold, n to a page.
Pages(L, n, b) ==
  {L[j] : j \in {k \in 1 .. Len(L) : \E a \in b : a * n < k /\ k <= a * n + n}}

\* As long as nothing came or went, the pages read are pages of one list.
BlocksInv ==
  mode = "blocks" /\ entered = 0 /\ left = 0 =>
    /\ kept = Range(Current)
    /\ unread \subseteq Blocks
    /\ pc = "done" => unread = {}
    /\ Range(got) = Pages(Current, limit, Blocks \ unread)
    /\ Repeats = 0

LEMMA InitBlocks ==
  ASSUME Init
  PROVE  BlocksInv
<1>1. kept = Range(Current) /\ got = <<>> /\ pc = "reading"
  BY DEF Init, Current
<1>2. mode = "blocks" => unread = Blocks
  BY DEF Init
<1>3. Range(got) = {} /\ Repeats = 0
  <2>1. Range(got) = {} /\ Len(got) = 0
    BY <1>1 DEF Range
  <2>2. Cardinality({}) = 0
    BY FS_EmptySet
  <2> QED
    BY <2>1, <2>2 DEF Repeats
<1>4. Pages(Current, limit, {}) = {}
  BY DEF Pages
<1>5. mode = "blocks" => Pages(Current, limit, Blocks \ unread) = {}
  <2>1. mode = "blocks" => Blocks \ unread = {}
    BY <1>2
  <2> QED
    BY <2>1, <1>4
<1> QED
  BY <1>1, <1>2, <1>3, <1>5 DEF BlocksInv

\* A page adds what it holds, all of it new.
LEMMA PagesAdd ==
  ASSUME NEW L, IsList(L), NEW n \in Nat, NEW b \in SUBSET Nat, NEW p \in Nat \ b
  PROVE  /\ Pages(L, n, b \cup {p}) = Pages(L, n, b) \cup Range(Slice(L, p * n, n))
         /\ Pages(L, n, b) \cap Range(Slice(L, p * n, n)) = {}
<1>0. p * n \in Nat /\ Len(L) \in Nat /\ \A k, l \in 1 .. Len(L) : L[k] = L[l] => k = l
  BY Products DEF IsList, IsInjective
<1>1. Range(Slice(L, p * n, n)) = {L[j] : j \in {k \in 1 .. Len(L) : p * n < k /\ k <= p * n + n}}
  <2>1. PICK c \in Nat : c = p * n
    BY <1>0
  <2>2. Range(Slice(L, c, n)) = {L[j] : j \in {k \in 1 .. Len(L) : c < k /\ k <= c + n}}
    BY SliceProperties
  <2> QED
    BY <2>1, <2>2
<1>2. ASSUME NEW a \in b, NEW k \in 1 .. Len(L),
             a * n < k, k <= a * n + n, p * n < k, k <= p * n + n
      PROVE  FALSE
  <2>1. a \in Nat /\ a # p /\ a * n \in Nat /\ (a + 1) * n = a * n + n /\ (p + 1) * n = p * n + n
    BY Products
  <2>2. CASE a < p
    <3>1. (a + 1) * n <= p * n
      BY <2>1, <2>2, ProductsGrow
    <3> QED
      BY <3>1, <2>1, <1>0, <1>2
  <2>3. CASE p < a
    <3>1. (p + 1) * n <= a * n
      BY <2>1, <2>3, ProductsGrow
    <3> QED
      BY <3>1, <2>1, <1>0, <1>2
  <2> QED
    BY <2>1, <2>2, <2>3
<1>3. Pages(L, n, b) \cap Range(Slice(L, p * n, n)) = {}
  <2>1. ASSUME NEW x \in Pages(L, n, b), x \in Range(Slice(L, p * n, n))
        PROVE  FALSE
    <3>1. PICK k \in 1 .. Len(L), a \in b : x = L[k] /\ a * n < k /\ k <= a * n + n
      BY DEF Pages
    <3>2. PICK l \in 1 .. Len(L) : x = L[l] /\ p * n < l /\ l <= p * n + n
      BY <1>1, <2>1
    <3> QED
      BY <3>1, <3>2, <1>0, <1>2
  <2> QED
    BY <2>1
<1>4. Pages(L, n, b \cup {p}) = Pages(L, n, b) \cup Range(Slice(L, p * n, n))
  BY <1>1 DEF Pages
<1> QED
  BY <1>3, <1>4

LEMMA ReadBlock ==
  ASSUME TypeOK, BlocksInv, NEW p \in unread, ReadPage(p)
  PROVE  BlocksInv'
<1>0. /\ UNCHANGED <<mode, limit, kept, entered, left>> /\ Current' = Current
      /\ p \in Nat /\ limit \in Nat /\ p * limit \in Nat /\ pc = "reading"
      /\ IsList(Current)
  BY ReadEffect, ItemsAreAList DEF fixed
<1>1. CASE ~ (mode = "blocks" /\ entered = 0 /\ left = 0)
  BY <1>0, <1>1 DEF BlocksInv
<1>2. CASE mode = "blocks" /\ entered = 0 /\ left = 0 /\ pc' = "failed" /\ UNCHANGED <<got, unread>>
  <2>1. Repeats' = Repeats
    BY <1>2 DEF Repeats
  <2> QED
    BY <1>0, <1>2, <2>1 DEF BlocksInv
<1>3. ASSUME mode = "blocks", entered = 0, left = 0, NEW next \in SUBSET Nat,
             next = unread \ {p},
             got' = got \o Slice(Current, p * limit, limit), unread' = next,
             pc' = IF next = {} THEN "done" ELSE "reading"
      PROVE  BlocksInv'
  <2>1. PICK L, d, g, b : /\ L = Current /\ d = Slice(Current, p * limit, limit) /\ g = got
                          /\ b = Blocks \ unread
    OBVIOUS
  <2>2. /\ kept = Range(L) /\ unread \subseteq Blocks
        /\ Range(g) = Pages(L, limit, b) /\ Len(g) - Cardinality(Range(g)) = 0
    BY <1>3, <2>1 DEF BlocksInv, Repeats
  <2>3. g \in Seq(Ids) /\ IsList(d) /\ d \in Seq(Ids)
    <3>1. IsList(Slice(Current, p * limit, limit))
      BY <1>0, SliceProperties
    <3> QED
      BY <2>1, <3>1 DEF TypeOK, IsList
  <2>4. Blocks \ unread' = b \cup {p} /\ b \in SUBSET Nat /\ p \in Nat \ b
    BY <1>0, <1>3, <2>1, <2>2, BlocksAssumption
  <2>5. Range(got') = Range(g) \cup Range(d) /\ Len(got') = Len(g) + Len(d)
    <3>1. Range(g \o d) = Range(g) \cup Range(d) /\ Len(g \o d) = Len(g) + Len(d)
      BY <2>3, ConcatRange
    <3> QED
      BY <1>3, <2>1, <3>1
  <2>6. /\ Pages(L, limit, b \cup {p}) = Pages(L, limit, b) \cup Range(d)
        /\ Pages(L, limit, b) \cap Range(d) = {}
    <3>1. PICK n : n = limit
      OBVIOUS
    <3>2. /\ Pages(L, n, b \cup {p}) = Pages(L, n, b) \cup Range(Slice(L, p * n, n))
          /\ Pages(L, n, b) \cap Range(Slice(L, p * n, n)) = {}
      <4>1. IsList(L) /\ n \in Nat
        BY <1>0, <2>1, <3>1
      <4> QED
        BY <4>1, <2>4, PagesAdd
    <3> QED
      BY <2>1, <3>1, <3>2
  <2>7. Len(got') - Cardinality(Range(got')) = 0
    <3>1. IsFiniteSet(Range(d)) /\ Cardinality(Range(d)) = Len(d) /\ Len(d) \in Nat
      BY <2>3, FirstProperties, RangeFinite, 0 \in Nat
    <3>2. IsFiniteSet(Range(g)) /\ Cardinality(Range(g)) \in Nat /\ Len(g) \in Nat
      BY <2>3, RangeFinite
    <3>3. Cardinality(Range(g) \cap Range(d)) = 0
      BY <2>2, <2>6, FS_EmptySet
    <3>4. Cardinality(Range(g) \cup Range(d))
            = Cardinality(Range(g)) + Cardinality(Range(d)) - Cardinality(Range(g) \cap Range(d))
      BY <3>1, <3>2, FS_Union
    <3>5. Cardinality(Range(got')) = Cardinality(Range(g)) + Len(d)
      BY <2>5, <3>1, <3>2, <3>3, <3>4
    <3> QED
      BY <2>2, <2>5, <3>1, <3>2, <3>5
  <2>8. Range(got') = Pages(Current, limit, Blocks \ unread')
    BY <2>1, <2>2, <2>4, <2>5, <2>6
  <2>9. unread' \subseteq Blocks /\ (pc' = "done" => unread' = {})
    BY <1>3, <2>2
  <2> QED
    BY <1>0, <2>1, <2>2, <2>7, <2>8, <2>9 DEF BlocksInv, Repeats
<1> QED
  <2>1. CASE mode = "blocks" /\ entered = 0 /\ left = 0
    BY <1>2, <1>3, <2>1, ReadEffect
  <2> QED
    BY <1>1, <2>1

LEMMA ChangeBlocks ==
  ASSUME TypeOK, BlocksInv, NEW i \in Ids, Added(i) \/ Removed(i) \/ StatusChanges(i)
  PROVE  BlocksInv'
<1>1. PICK s, act : /\ IsList(s) /\ act \subseteq Ids /\ Changes(s, act)
                    /\ Grows(Current, Listed(s, act)) \/ Grows(Listed(s, act), Current)
  BY ChangeEffect
<1>2. PICK L, M : L = Current /\ M = Listed(s, act)
  OBVIOUS
<1>3. /\ pc' = pc /\ got' = got /\ UNCHANGED <<mode, limit, unread>>
      /\ Current' = M /\ IsList(M) /\ IsList(L)
      /\ kept' = kept \cap Range(M)
      /\ Cardinality(Range(M) \ Range(L)) \in Nat
      /\ Cardinality(Range(L) \ Range(M)) \in Nat
      /\ entered' = entered + Cardinality(Range(M) \ Range(L))
      /\ left' = left + Cardinality(Range(L) \ Range(M))
      /\ IsFiniteSet(Range(M)) /\ IsFiniteSet(Range(L))
  <2>1. /\ pc = "reading" /\ UNCHANGED <<fixed, client>>
        /\ Current' = M /\ IsList(M) /\ IsList(Current)
        /\ kept' = kept \cap Range(M)
        /\ Cardinality(Range(M) \ Range(Current)) \in Nat
        /\ Cardinality(Range(Current) \ Range(M)) \in Nat
        /\ entered' = entered + Cardinality(Range(M) \ Range(Current))
        /\ left' = left + Cardinality(Range(Current) \ Range(M))
    <3>1. IsList(s) /\ Changes(s, act) /\ M = Listed(s, act)
      BY <1>1, <1>2
    <3> QED
      BY <3>1, ChangedCounters
  <2>2. pc' = pc /\ got' = got /\ UNCHANGED <<mode, limit, unread>>
    BY <2>1 DEF fixed, client
  <2>3. IsFiniteSet(Range(M)) /\ IsFiniteSet(Range(L))
    BY <1>2, <2>1, FirstProperties, 0 \in Nat
  <2> QED
    BY <1>2, <2>1, <2>2, <2>3
<1>4. CASE ~ (mode = "blocks" /\ entered' = 0 /\ left' = 0)
  BY <1>3, <1>4 DEF BlocksInv
<1>5. CASE mode = "blocks" /\ entered' = 0 /\ left' = 0
  <2>1. /\ entered = 0 /\ left = 0
        /\ Cardinality(Range(M) \ Range(L)) = 0 /\ Cardinality(Range(L) \ Range(M)) = 0
    BY <1>3, <1>5 DEF TypeOK
  <2>2. Range(L) = Range(M)
    <3>1. IsFiniteSet(Range(M) \ Range(L)) /\ IsFiniteSet(Range(L) \ Range(M))
      BY <1>3, FS_Difference
    <3>2. Range(M) \ Range(L) = {} /\ Range(L) \ Range(M) = {}
      BY <2>1, <3>1, FS_EmptySet
    <3> QED
      BY <3>2
  <2>3. L = M
    BY <1>1, <1>2, <1>3, <2>2, GrowsByNothing
  <2>4. Repeats' = Repeats /\ Current' = Current
    BY <1>2, <1>3, <2>3 DEF Repeats
  <2>5. kept = Range(L)
    BY <1>2, <1>5, <1>3, <2>1 DEF BlocksInv
  <2> QED
    BY <1>2, <1>3, <1>5, <2>1, <2>2, <2>4, <2>5 DEF BlocksInv
<1> QED
  BY <1>4, <1>5, <1>3

LEMMA StepBlocks ==
  ASSUME TypeOK, BlocksInv, [Next]_vars
  PROVE  BlocksInv'
<1>1. CASE UNCHANGED vars
  BY <1>1 DEF vars, BlocksInv, Current, Listed, Wanted, Repeats
<1> QED
  BY <1>1, ReadBlock, ChangeBlocks DEF Next

\* The inductive invariant of the blocks: they are pages of one list, each new.
THEOREM BlocksInvHolds == Spec => [](TypeOK /\ BlocksInv)
<1>1. TypeOK /\ BlocksInv /\ [Next]_vars => TypeOK' /\ BlocksInv'
  BY StepType, StepBlocks
<1>2. Init => TypeOK /\ BlocksInv
  BY InitType, InitBlocks
<1> QED
  BY <1>1, <1>2, PTL DEF Spec

\* Data sources whose pages cover the list hold each of its items, and none
\* twice, in whatever order Terraform reads them, if nothing came or went.
THEOREM BlocksPartition == Spec => []BlocksPartitionTheList
<1>1. ASSUME TypeOK, BlocksInv
      PROVE  BlocksPartitionTheList
  <2>1. SUFFICES ASSUME mode = "blocks", pc = "done", entered = 0, left = 0,
                        Blocks = 0 .. Cardinality(Blocks) - 1,
                        Cardinality(kept) <= limit * Cardinality(Blocks)
                 PROVE  Missed = {} /\ Repeats = 0
    BY DEF BlocksPartitionTheList
  <2>2. /\ kept = Range(Current) /\ Repeats = 0 /\ IsList(Current) /\ limit \in Nat
        /\ Range(got) = Pages(Current, limit, Blocks)
    <3>1. unread = {}
      BY <1>1, <2>1 DEF BlocksInv
    <3>2. Blocks \ unread = Blocks
      BY <3>1
    <3> QED
      BY <1>1, <2>1, <3>2, ItemsAreAList DEF BlocksInv
  <2>3. PICK B : B = Cardinality(Blocks) /\ B \in Nat
    BY BlocksAssumption, FS_CardinalityType
  <2>4. Len(Current) <= limit * B /\ Len(Current) \in Nat
    <3>1. Cardinality(Range(Current)) = Len(Current)
      BY <2>2, FirstProperties, 0 \in Nat
    <3> QED
      BY <2>1, <2>2, <2>3, <3>1 DEF IsList
  <2>5. ASSUME NEW j \in 1 .. Len(Current)
        PROVE  \E a \in Blocks : a * limit < j /\ j <= a * limit + limit
    <3> DEFINE a == (j - 1) \div limit
    <3>1. limit > 0
      BY <2>2, <2>3, <2>4, <2>5
    <3>2. a \in Nat /\ a * limit <= j - 1 /\ j - 1 < a * limit + limit
      BY <2>2, <2>4, <3>1
    <3> HIDE DEF a
    <3>3. a < B
      <4>1. SUFFICES ASSUME B <= a
                     PROVE  FALSE
        BY <2>3, <3>2
      <4>2. B * limit <= a * limit
        BY <2>2, <2>3, <3>2, <4>1, ProductsGrow
      <4> QED
        BY <2>2, <2>3, <2>4, <3>2, <4>2
    <3>4. a \in Blocks
      BY <2>1, <2>3, <3>2, <3>3
    <3> QED
      BY <2>2, <2>4, <3>2, <3>4
  <2>6. kept \subseteq Range(got)
    <3>1. DOMAIN Current = 1 .. Len(Current)
      BY <2>2 DEF IsList
    <3> QED
      BY <2>2, <2>5, <3>1 DEF Range, Pages
  <2> QED
    BY <2>2, <2>6 DEF Missed
<1> QED
  BY <1>1, BlocksInvHolds, PTL
=============================================================================
