-------------------------- MODULE PoolQueueProofs ---------------------------
(***************************************************************************)
(* Theorems about the queues that feed the thread pool, for any finite     *)
(* sets of objects, threads and buckets, and any programs: the lists of    *)
(* the timer queue, the buckets of the wait queue, the shape of the pool's *)
(* state that both rest on, and what they rely on the pool for: a timer    *)
(* that is queued is not shut down, a wait object that is held has not     *)
(* left the program's hands without leaving its bucket.  The last part     *)
(* says what is known of the record of one object and of the numbers of    *)
(* those who use it (ObjOK), and that each operation on the record keeps   *)
(* it.                                                                     *)
(***************************************************************************)
EXTENDS PoolService, FiniteSetTheorems, SequenceTheorems, TLAPS

-----------------------------------------------------------------------------
(* Lists.  Induction over the natural numbers is used in the form that a    *)
(* set with 0 and all successors is Nat.                                    *)

Smaller == {r \in Nat \X Nat : r[1] < r[2]}

(* The order of the naturals is well founded. *)
LEMMA SmallerWellFounded == IsWellFoundedOn(Smaller, Nat)
  BY NatLessThanWellFounded DEF OpToRel, Smaller

(* A set of naturals that is not empty has a least member. *)
LEMMA LeastNat ==
  ASSUME NEW T \in SUBSET Nat, T # {}
  PROVE  \E x \in T : \A y \in T : x <= y
<1>1. PICK x \in T : \A y \in T : ~(<<y, x>> \in Smaller)
  BY SmallerWellFounded, WFMin
<1>2. ASSUME NEW y \in T, ~(x <= y) PROVE FALSE
  <2>1. x \in Nat /\ y \in Nat /\ y < x
    BY <1>2
  <2>2. <<y, x>> \in Smaller
    BY <2>1 DEF Smaller
  <2> QED
    BY <1>1, <2>2
<1> QED
  BY <1>2

(* A set of naturals with 0 and all its successors is Nat. *)
LEMMA AllNat ==
  ASSUME NEW T \in SUBSET Nat, 0 \in T, \A n \in T : n + 1 \in T
  PROVE  T = Nat
<1> SUFFICES ASSUME Nat \ T # {} PROVE FALSE
  OBVIOUS
<1>1. PICK x \in Nat \ T : \A y \in Nat \ T : x <= y
  BY LeastNat
<1>2. x # 0 /\ x - 1 \in Nat /\ x - 1 < x
  BY <1>1
<1>3. x - 1 \in T
  BY <1>1, <1>2
<1> QED
  BY <1>3

(* A bounded set of naturals that is not empty has a greatest member. *)
LEMMA GreatestNat ==
  ASSUME NEW T \in SUBSET Nat, T # {}, NEW m \in Nat, \A y \in T : y <= m
  PROVE  \E x \in T : \A y \in T : y <= x
<1> DEFINE D == {m - y : y \in T}
<1>0. \A y \in T : m - y \in Nat
  OBVIOUS
<1>1. D \in SUBSET Nat /\ D # {}
  BY <1>0
<1>2. PICK d \in D : \A e \in D : d <= e
  BY <1>1, LeastNat
<1>3. PICK x \in T : d = m - x
  BY <1>2
<1>4. \A y \in T : m - x <= m - y
  BY <1>2, <1>3
<1> QED
  BY <1>3, <1>4

Rng(s) == {s[i] : i \in 1..Len(s)}
Once(s) == \A i, j \in 1..Len(s) : s[i] = s[j] => i = j

(* The recursive definition in Without defines something. *)
RestVal(s, T, g, n) ==
    IF n = 0 THEN <<>> ELSE IF s[n] \in T THEN g[n-1] ELSE Append(g[n-1], s[n])
Rest(s, T) == CHOOSE g : g = [n \in 0..Len(s) |-> RestVal(s, T, g, n)]

(* Rest(s, T)[n] is the first n entries of s less those in T. *)
LEMMA RestDef ==
  ASSUME NEW S, NEW s \in Seq(S), NEW T
  PROVE  /\ Without(s, T) = Rest(s, T)[Len(s)]
         /\ Rest(s, T)[0] = <<>>
         /\ \A n \in 1..Len(s) : Rest(s, T)[n] =
              IF s[n] \in T THEN Rest(s, T)[n-1] ELSE Append(Rest(s, T)[n-1], s[n])
<1> DEFINE Is(g, m) == g = [n \in 0..m |-> RestVal(s, T, g, n)]
           U == {m \in Nat : \E g : Is(g, m)}
<1>0. Len(s) \in Nat
  BY LenProperties
<1>1. 0 \in U
  <2>1. Is([n \in 0..0 |-> <<>>], 0)
    BY DEF RestVal
  <2> QED
    BY <2>1
<1>2. ASSUME NEW m \in U PROVE m + 1 \in U
  <2>1. PICK g : Is(g, m)
    BY <1>2
  <2>0. m \in Nat
    BY <1>2
  <2> DEFINE h == [n \in 0..(m+1) |-> IF n = m + 1 THEN RestVal(s, T, g, m+1) ELSE g[n]]
  <2>2. \A n \in 0..m : g[n] = RestVal(s, T, g, n)
    BY <2>1
  <2>3. \A n \in 0..m : h[n] = g[n]
    BY <2>0
  <2>4. \A n \in 0..(m+1) : n # 0 => n - 1 \in 0..m
    BY <2>0
  <2>5. \A n \in 0..(m+1) : RestVal(s, T, h, n) = RestVal(s, T, g, n)
    BY <2>3, <2>4 DEF RestVal
  <2>6. \A n \in 0..(m+1) : h[n] = RestVal(s, T, h, n)
    <3> SUFFICES ASSUME NEW n \in 0..(m+1) PROVE h[n] = RestVal(s, T, g, n)
      BY <2>5
    <3>1. CASE n = m + 1
      BY <3>1
    <3>2. CASE n # m + 1
      <4>1. n \in 0..m
        BY <2>0, <3>2
      <4> QED
        BY <2>2, <2>3, <4>1
    <3> QED
      BY <3>1, <3>2
  <2>7. Is(h, m + 1)
    <3>1. h = [n \in 0..(m+1) |-> h[n]]
      OBVIOUS
    <3> QED
      BY <2>6, <3>1
  <2>8. \E k : Is(k, m + 1)
    <3> HIDE DEF h, Is
    <3> QED
      BY <2>7
  <2> QED
    BY <2>0, <2>8
<1>3. U = Nat
  <2>1. U \in SUBSET Nat
    OBVIOUS
  <2> HIDE DEF U
  <2> QED
    BY <1>1, <1>2, <2>1, AllNat
<1>4. \E g : Is(g, Len(s))
  BY <1>3, <1>0
<1>5. Rest(s, T) = CHOOSE g : Is(g, Len(s))
  BY DEF Rest
<1>6. Is(Rest(s, T), Len(s))
  BY <1>4, <1>5
<1>7. Without(s, T) = Rest(s, T)[Len(s)]
  BY DEF Without, Rest, RestVal
<1>8. \A n \in 0..Len(s) : Rest(s, T)[n] = RestVal(s, T, Rest(s, T), n)
  BY <1>6
<1>9. 0 \in 0..Len(s) /\ \A n \in 1..Len(s) : n \in 0..Len(s) /\ n # 0
  BY <1>0
<1>10. Rest(s, T)[0] = <<>>
  BY <1>8, <1>9 DEF RestVal
<1>11. \A n \in 1..Len(s) : Rest(s, T)[n] =
              IF s[n] \in T THEN Rest(s, T)[n-1] ELSE Append(Rest(s, T)[n-1], s[n])
  BY <1>8, <1>9 DEF RestVal
<1> QED
  BY <1>7, <1>10, <1>11

(* f leads from the entries of r, in order, to those of the first n entries *)
(* of s that are not in T.                                                  *)
Embeds(r, s, n, T, f) ==
    /\ f \in [1..Len(r) -> 1..n]
    /\ \A i \in 1..Len(r) : r[i] = s[f[i]] /\ s[f[i]] \notin T
    /\ \A i, j \in 1..Len(r) : i < j => f[i] < f[j]
    /\ \A k \in 1..n : s[k] \notin T => \E i \in 1..Len(r) : f[i] = k

(* One more entry of s, which is kept. *)
LEMMA EmbedsAppend ==
  ASSUME NEW S, NEW s \in Seq(S), NEW T, NEW n \in Nat, n + 1 \in 1..Len(s),
         NEW r \in Seq(S), NEW f, Embeds(r, s, n, T, f), s[n+1] \notin T
  PROVE  /\ Append(r, s[n+1]) \in Seq(S)
         /\ \E h : Embeds(Append(r, s[n+1]), s, n + 1, T, h)
<1> DEFINE q == Append(r, s[n+1])
           h == [i \in 1..(Len(r) + 1) |-> IF i = Len(r) + 1 THEN n + 1 ELSE f[i]]
<1>1. s[n+1] \in S /\ Len(r) \in Nat
  BY LenProperties, ElementOfSeq
<1>2. /\ q \in Seq(S) /\ Len(q) = Len(r) + 1
      /\ \A i \in 1..Len(r) : q[i] = r[i]
      /\ q[Len(r) + 1] = s[n+1]
  BY <1>1, AppendProperties
<1> HIDE DEF q
<1>3. \A i \in 1..Len(r) : f[i] \in 1..n /\ h[i] = f[i]
  <2>1. \A i \in 1..Len(r) : i \in 1..(Len(r) + 1) /\ i # Len(r) + 1
    BY <1>1
  <2>2. \A i \in 1..Len(r) : f[i] \in 1..n
    BY DEF Embeds
  <2> QED
    BY <2>1, <2>2
<1>4. h[Len(r) + 1] = n + 1
  BY <1>1
<1>5. \A i \in 1..Len(q) : i \in 1..Len(r) \/ i = Len(r) + 1
  BY <1>1, <1>2
<1>6. h \in [1..Len(q) -> 1..(n + 1)]
  <2>1. n + 1 \in 1..(n + 1) /\ \A x \in 1..n : x \in 1..(n + 1)
    OBVIOUS
  <2>2. \A i \in 1..Len(q) : h[i] \in 1..(n + 1)
    BY <1>3, <1>4, <1>5, <2>1
  <2> QED
    BY <1>2, <2>2
<1> HIDE DEF h
<1>7. \A i \in 1..Len(q) : q[i] = s[h[i]] /\ s[h[i]] \notin T
  BY <1>2, <1>3, <1>4, <1>5 DEF Embeds
<1>8. \A i, j \in 1..Len(q) : i < j => h[i] < h[j]
  <2> SUFFICES ASSUME NEW i \in 1..Len(q), NEW j \in 1..Len(q), i < j PROVE h[i] < h[j]
    OBVIOUS
  <2>1. i \in 1..Len(r)
    BY <1>1, <1>2
  <2>2. CASE j = Len(r) + 1
    BY <2>1, <2>2, <1>3, <1>4
  <2>3. CASE j \in 1..Len(r)
    BY <2>1, <2>3, <1>3 DEF Embeds
  <2> QED
    BY <2>2, <2>3, <1>5
<1>9. \A k \in 1..(n + 1) : s[k] \notin T => \E i \in 1..Len(q) : h[i] = k
  <2> SUFFICES ASSUME NEW k \in 1..(n + 1), s[k] \notin T PROVE \E i \in 1..Len(q) : h[i] = k
    OBVIOUS
  <2>1. CASE k = n + 1
    BY <2>1, <1>1, <1>2, <1>4
  <2>2. CASE k \in 1..n
    <3>1. PICK i \in 1..Len(r) : f[i] = k
      BY <2>2 DEF Embeds
    <3>2. i \in 1..Len(q) /\ h[i] = k
      BY <3>1, <1>1, <1>2, <1>3
    <3> QED
      BY <3>2
  <2> QED
    BY <2>1, <2>2
<1>10. Embeds(q, s, n + 1, T, h)
  BY <1>6, <1>7, <1>8, <1>9 DEF Embeds
<1>11. Embeds(Append(r, s[n+1]), s, n + 1, T, h)
  BY <1>10 DEF q
<1> QED
  BY <1>2, <1>11 DEF q

(* Without(s, T) is the entries of s that are not in T, in their order. *)
LEMMA WithoutEmbeds ==
  ASSUME NEW S, NEW s \in Seq(S), NEW T
  PROVE  /\ Without(s, T) \in Seq(S)
         /\ \E f : Embeds(Without(s, T), s, Len(s), T, f)
<1> DEFINE R == Rest(s, T)
           U == {n \in Nat : n <= Len(s) => R[n] \in Seq(S) /\ \E f : Embeds(R[n], s, n, T, f)}
<1>0. Len(s) \in Nat
  BY LenProperties
<1>1. 0 \in U
  <2>1. R[0] = <<>> /\ Len(<<>>) = 0 /\ <<>> \in Seq(S)
    BY RestDef
  <2>2. Embeds(<<>>, s, 0, T, [i \in 1..0 |-> i])
    BY DEF Embeds
  <2>3. \E f : Embeds(<<>>, s, 0, T, f)
    BY <2>2
  <2> QED
    BY <2>1, <2>3
<1>2. ASSUME NEW n \in U PROVE n + 1 \in U
  <2>0. n \in Nat
    BY <1>2
  <2> SUFFICES ASSUME n + 1 <= Len(s)
               PROVE  R[n+1] \in Seq(S) /\ \E f : Embeds(R[n+1], s, n + 1, T, f)
    BY <2>0
  <2>1. R[n] \in Seq(S) /\ \E f : Embeds(R[n], s, n, T, f)
    BY <1>2, <2>0, <1>0
  <2>2. PICK f : Embeds(R[n], s, n, T, f)
    BY <2>1
  <2>3. n + 1 \in 1..Len(s) /\ (n + 1) - 1 = n
    BY <2>0, <1>0
  <2>4. R[n+1] = IF s[n+1] \in T THEN R[n] ELSE Append(R[n], s[n+1])
    BY <2>3, RestDef
  <2>5. CASE s[n+1] \in T
    <3>1. Embeds(R[n], s, n + 1, T, f)
      <4>1. \A k \in 1..(n + 1) : s[k] \notin T => k \in 1..n
        BY <2>0, <2>5
      <4>2. f \in [1..Len(R[n]) -> 1..(n+1)]
        BY <2>0, <2>2 DEF Embeds
      <4> QED
        BY <2>2, <4>1, <4>2 DEF Embeds
    <3> QED
      BY <3>1, <2>1, <2>4, <2>5
  <2>6. CASE s[n+1] \notin T
    BY <2>0, <2>1, <2>2, <2>3, <2>4, <2>6, EmbedsAppend
  <2> QED
    BY <2>5, <2>6
<1>3. U = Nat
  <2>1. U \in SUBSET Nat
    OBVIOUS
  <2> HIDE DEF U
  <2> QED
    BY <1>1, <1>2, <2>1, AllNat
<1>4. R[Len(s)] \in Seq(S) /\ \E f : Embeds(R[Len(s)], s, Len(s), T, f)
  BY <1>0, <1>3
<1> QED
  BY <1>4, RestDef

(* What the other proofs use of it: the range, no repetition, the order, a  *)
(* bound on the length, and what is left alone when nothing is removed.     *)
LEMMA WithoutIs ==
  ASSUME NEW S, NEW s \in Seq(S), NEW T
  PROVE  /\ Without(s, T) \in Seq(S)
         /\ Rng(Without(s, T)) = Rng(s) \ T
         /\ Once(s) => Once(Without(s, T))
         /\ \A i, j \in 1..Len(Without(s, T)) : i < j =>
              \E a, b \in 1..Len(s) : a < b /\ s[a] = Without(s, T)[i] /\ s[b] = Without(s, T)[j]
         /\ Len(Without(s, T)) \in Nat /\ Len(Without(s, T)) <= Len(s)
<1> DEFINE r == Without(s, T)
<1>0. r \in Seq(S) /\ Len(r) \in Nat /\ Len(s) \in Nat
  BY WithoutEmbeds, LenProperties
<1>1. PICK f : Embeds(r, s, Len(s), T, f)
  BY WithoutEmbeds
<1> HIDE DEF r
<1>2. Rng(r) = Rng(s) \ T
  <2>1. \A i \in 1..Len(r) : r[i] \in Rng(s) \ T
    BY <1>1 DEF Rng, Embeds
  <2>2. \A k \in 1..Len(s) : s[k] \notin T => \E i \in 1..Len(r) : s[k] = r[i]
    BY <1>1 DEF Embeds
  <2> QED
    BY <2>1, <2>2 DEF Rng
<1>3. Once(s) => Once(r)
  <2> SUFFICES ASSUME Once(s), NEW i \in 1..Len(r), NEW j \in 1..Len(r), r[i] = r[j], i < j PROVE FALSE
    BY <1>0 DEF Once
  <2>1. f[i] \in 1..Len(s) /\ f[j] \in 1..Len(s) /\ f[i] < f[j] /\ s[f[i]] = s[f[j]]
    BY <1>1 DEF Embeds
  <2> QED
    BY <2>1 DEF Once
<1>4. \A i, j \in 1..Len(r) : i < j => \E a, b \in 1..Len(s) : a < b /\ s[a] = r[i] /\ s[b] = r[j]
  BY <1>1 DEF Embeds
<1>5. Len(r) <= Len(s)
  <2>1. f \in Injection(1..Len(r), 1..Len(s))
    <3>1. f \in [1..Len(r) -> 1..Len(s)]
      BY <1>1 DEF Embeds
    <3>2. \A i, j \in 1..Len(r) : f[i] = f[j] => i = j
      <4> SUFFICES ASSUME NEW i \in 1..Len(r), NEW j \in 1..Len(r), f[i] = f[j], i # j PROVE FALSE
        OBVIOUS
      <4>1. i < j \/ j < i
        BY <1>0
      <4> QED
        BY <4>1, <1>1, <3>1 DEF Embeds
    <3> QED
      BY <3>1, <3>2 DEF Injection, IsInjective
  <2>2. IsFiniteSet(1..Len(s)) /\ Cardinality(1..Len(r)) <= Cardinality(1..Len(s))
    BY <2>1, <1>0, FS_Interval, FS_Injection
  <2>3. \A n \in Nat : Cardinality(1..n) = n
    BY FS_Interval
  <2>4. Cardinality(1..Len(r)) = Len(r) /\ Cardinality(1..Len(s)) = Len(s)
    BY <1>0, <2>3
  <2> QED
    BY <2>2, <2>4
<1> QED
  BY <1>0, <1>2, <1>3, <1>4, <1>5 DEF r

(* Nothing is removed that is not there. *)
LEMMA WithoutNone ==
  ASSUME NEW S, NEW s \in Seq(S), NEW T, Rng(s) \cap T = {}
  PROVE  Without(s, T) = s
<1> DEFINE R == Rest(s, T)
           U == {n \in Nat : n <= Len(s) => R[n] = SubSeq(s, 1, n)}
<1>0. Len(s) \in Nat
  BY LenProperties
<1>1. 0 \in U
  <2>1. SubSeq(s, 1, 0) = <<>>
    BY SubSeqEmpty
  <2> QED
    BY <2>1, RestDef
<1>2. ASSUME NEW n \in U PROVE n + 1 \in U
  <2>0. n \in Nat
    BY <1>2
  <2> SUFFICES ASSUME n + 1 <= Len(s) PROVE  R[n+1] = SubSeq(s, 1, n + 1)
    BY <2>0
  <2>1. R[n] = SubSeq(s, 1, n)
    BY <1>2, <2>0, <1>0
  <2>2. n + 1 \in 1..Len(s) /\ (n + 1) - 1 = n
    BY <2>0, <1>0
  <2>3. R[n+1] = IF s[n+1] \in T THEN R[n] ELSE Append(R[n], s[n+1])
    BY <2>2, RestDef
  <2>4. s[n+1] \in Rng(s)
    BY <2>2 DEF Rng
  <2>5. SubSeq(s, 1, n + 1) = Append(SubSeq(s, 1, n), s[n+1])
    BY <2>0, <2>2, SubSeqRecursiveSecond
  <2> QED
    BY <2>1, <2>3, <2>4, <2>5
<1>3. U = Nat
  <2>1. U \in SUBSET Nat
    OBVIOUS
  <2> HIDE DEF U
  <2> QED
    BY <1>1, <1>2, <2>1, AllNat
<1>4. R[Len(s)] = SubSeq(s, 1, Len(s))
  BY <1>0, <1>3
<1>5. SubSeq(s, 1, Len(s)) = s
  BY SubSeqFull
<1> QED
  BY <1>4, <1>5, RestDef

(* The entries of a list. *)
LEMMA RngIs ==
  ASSUME NEW S, NEW s \in Seq(S)
  PROVE  /\ Len(s) \in Nat /\ DOMAIN s = 1..Len(s)
         /\ {s[i] : i \in DOMAIN s} = Rng(s) /\ Rng(s) \subseteq S
         /\ (Rng(s) = {}) <=> (s = <<>>)
         /\ (Len(s) = 0) <=> (s = <<>>)
<1>1. Len(s) \in Nat /\ DOMAIN s = 1..Len(s) /\ s \in [1..Len(s) -> S]
  BY LenProperties
<1>2. (Len(s) = 0) <=> (s = <<>>)
  BY EmptySeq
<1>3. (Rng(s) = {}) <=> (Len(s) = 0)
  BY <1>1 DEF Rng
<1> QED
  BY <1>1, <1>2, <1>3 DEF Rng

(* A list without repetition is as long as it has members. *)
LEMMA OnceCard ==
  ASSUME NEW S, NEW s \in Seq(S), Once(s)
  PROVE  IsFiniteSet(Rng(s)) /\ Cardinality(Rng(s)) = Len(s)
<1>1. Len(s) \in Nat /\ s \in [1..Len(s) -> S]
  BY LenProperties
<1>2. IsFiniteSet(1..Len(s)) /\ Cardinality(1..Len(s)) = Len(s)
  BY <1>1, FS_Interval
<1>3. s \in Bijection(1..Len(s), Rng(s))
  <2>1. s \in [1..Len(s) -> Rng(s)]
    BY <1>1 DEF Rng
  <2> QED
    BY <2>1 DEF Bijection, Injection, Surjection, IsInjective, Rng, Once
<1>4. ExistsBijection(1..Len(s), Rng(s))
  BY <1>3 DEF ExistsBijection
<1> QED
  BY <1>2, <1>4, FS_Bijection

(* list_add_tail. *)
LEMMA AppendIs ==
  ASSUME NEW S, NEW s \in Seq(S), NEW x \in S
  PROVE  /\ Append(s, x) \in Seq(S)
         /\ Len(s) \in Nat /\ Len(Append(s, x)) = Len(s) + 1
         /\ \A i \in 1..Len(s) : Append(s, x)[i] = s[i]
         /\ Append(s, x)[Len(s) + 1] = x
         /\ Rng(Append(s, x)) = Rng(s) \cup {x}
         /\ Once(s) /\ x \notin Rng(s) => Once(Append(s, x))
<1> DEFINE q == Append(s, x)
<1>1. Len(s) \in Nat
  BY LenProperties
<1>2. /\ q \in Seq(S) /\ Len(q) = Len(s) + 1
      /\ \A i \in 1..Len(s) : q[i] = s[i]
      /\ q[Len(s) + 1] = x
  BY AppendProperties
<1> HIDE DEF q
<1>3. \A i : i \in 1..Len(q) <=> i \in 1..Len(s) \/ i = Len(s) + 1
  BY <1>1, <1>2
<1>4. Rng(q) = Rng(s) \cup {x}
  BY <1>2, <1>3 DEF Rng
<1>5. Once(s) /\ x \notin Rng(s) => Once(q)
  BY <1>2, <1>3 DEF Rng, Once
<1> QED
  BY <1>1, <1>2, <1>4, <1>5 DEF q

(* Taking the head of a list off. *)
LEMMA TailIs ==
  ASSUME NEW S, NEW s \in Seq(S), s # <<>>
  PROVE  /\ Len(s) \in Nat \ {0} /\ Head(s) = s[1] /\ Head(s) \in S
         /\ Tail(s) \in Seq(S) /\ Len(Tail(s)) = Len(s) - 1
         /\ \A i \in 1..Len(Tail(s)) : Tail(s)[i] = s[i+1]
         /\ Rng(s) = {Head(s)} \cup Rng(Tail(s))
         /\ Once(s) => Once(Tail(s)) /\ Head(s) \notin Rng(Tail(s))
<1> DEFINE q == Tail(s)
<1>1. Len(s) \in Nat /\ Len(s) # 0 /\ Head(s) = s[1]
  BY LenProperties, EmptySeq
<1>2. /\ Head(s) \in S /\ q \in Seq(S) /\ Len(q) = Len(s) - 1
      /\ \A i \in 1..Len(q) : q[i] = s[i+1]
  BY HeadTailProperties
<1> HIDE DEF q
<1>3. \A i \in 1..Len(q) : i + 1 \in 1..Len(s) /\ i + 1 # 1
  BY <1>1, <1>2
<1>4. \A i \in 1..Len(s) : i # 1 => i - 1 \in 1..Len(q) /\ (i - 1) + 1 = i
  BY <1>1, <1>2
<1>5. 1 \in 1..Len(s)
  BY <1>1
<1>6. Rng(s) \subseteq {Head(s)} \cup Rng(q)
  <2> SUFFICES ASSUME NEW i \in 1..Len(s), i # 1 PROVE s[i] \in Rng(q)
    BY <1>1 DEF Rng
  <2>1. i - 1 \in 1..Len(q) /\ q[i-1] = s[i]
    BY <1>2, <1>4
  <2> QED
    BY <2>1 DEF Rng
<1>7. {Head(s)} \cup Rng(q) \subseteq Rng(s)
  BY <1>1, <1>2, <1>3, <1>5 DEF Rng
<1>8. ASSUME Once(s) PROVE Once(q) /\ Head(s) \notin Rng(q)
  <2>1. \A i, j \in 1..Len(q) : i + 1 = j + 1 => i = j
    BY <1>2, <1>1
  <2> QED
    BY <1>1, <1>2, <1>3, <1>5, <1>8, <2>1 DEF Rng, Once
<1> QED
  BY <1>1, <1>2, <1>6, <1>7, <1>8 DEF q

(* list_move_tail. *)
LEMMA ConcatIs ==
  ASSUME NEW S, NEW s \in Seq(S), NEW u \in Seq(S)
  PROVE  /\ s \o u \in Seq(S) /\ Len(s) \in Nat /\ Len(u) \in Nat
         /\ Len(s \o u) = Len(s) + Len(u)
         /\ Rng(s \o u) = Rng(s) \cup Rng(u)
         /\ Once(s \o u) <=> Once(s) /\ Once(u) /\ Rng(s) \cap Rng(u) = {}
<1> DEFINE q == s \o u
<1>1. Len(s) \in Nat /\ Len(u) \in Nat
  BY LenProperties
<1>2. /\ q \in Seq(S) /\ Len(q) = Len(s) + Len(u)
      /\ \A i \in 1..(Len(s) + Len(u)) : q[i] = IF i <= Len(s) THEN s[i] ELSE u[i - Len(s)]
  BY ConcatProperties
<1> HIDE DEF q
<1>3. \A i \in 1..Len(s) : i \in 1..Len(q) /\ q[i] = s[i]
  BY <1>1, <1>2
<1>4. \A i \in 1..Len(u) : i + Len(s) \in 1..Len(q) /\ q[i + Len(s)] = u[i]
  <2> SUFFICES ASSUME NEW i \in 1..Len(u)
               PROVE  i + Len(s) \in 1..Len(q) /\ q[i + Len(s)] = u[i]
    OBVIOUS
  <2>1. i + Len(s) \in 1..(Len(s) + Len(u)) /\ ~(i + Len(s) <= Len(s)) /\ (i + Len(s)) - Len(s) = i
    BY <1>1
  <2> QED
    BY <1>2, <2>1
<1>5. \A i \in 1..Len(q) : \/ i \in 1..Len(s) /\ q[i] = s[i]
                           \/ i - Len(s) \in 1..Len(u) /\ q[i] = u[i - Len(s)]
  BY <1>1, <1>2
<1>6. Rng(q) = Rng(s) \cup Rng(u)
  <2>1. Rng(q) \subseteq Rng(s) \cup Rng(u)
    BY <1>5 DEF Rng
  <2>2. Rng(s) \subseteq Rng(q)
    BY <1>3 DEF Rng
  <2>3. Rng(u) \subseteq Rng(q)
    BY <1>4 DEF Rng
  <2> QED
    BY <2>1, <2>2, <2>3
<1>7. ASSUME Once(q) PROVE Once(s) /\ Once(u) /\ Rng(s) \cap Rng(u) = {}
  <2>1. Once(s)
    BY <1>3, <1>7 DEF Once
  <2>2. Once(u)
    <3> SUFFICES ASSUME NEW i \in 1..Len(u), NEW j \in 1..Len(u), u[i] = u[j] PROVE i = j
      BY DEF Once
    <3>1. i + Len(s) = j + Len(s)
      BY <1>4, <1>7 DEF Once
    <3> QED
      BY <3>1, <1>1
  <2>3. Rng(s) \cap Rng(u) = {}
    <3> SUFFICES ASSUME NEW i \in 1..Len(s), NEW j \in 1..Len(u), s[i] = u[j] PROVE FALSE
      BY DEF Rng
    <3>1. i = j + Len(s)
      BY <1>3, <1>4, <1>7 DEF Once
    <3> QED
      BY <3>1, <1>1
  <2> QED
    BY <2>1, <2>2, <2>3
<1>8. ASSUME Once(s), Once(u), Rng(s) \cap Rng(u) = {} PROVE Once(q)
  <2> SUFFICES ASSUME NEW i \in 1..Len(q), NEW j \in 1..Len(q), q[i] = q[j] PROVE i = j
    BY DEF Once
  <2>1. CASE i \in 1..Len(s) /\ q[i] = s[i] /\ j \in 1..Len(s) /\ q[j] = s[j]
    BY <2>1, <1>8 DEF Once
  <2>2. CASE i - Len(s) \in 1..Len(u) /\ q[i] = u[i - Len(s)]
              /\ j - Len(s) \in 1..Len(u) /\ q[j] = u[j - Len(s)]
    <3>1. i - Len(s) = j - Len(s)
      BY <2>2, <1>8 DEF Once
    <3> QED
      BY <3>1, <1>1, <1>2
  <2>3. \A a \in 1..Len(s), b \in 1..Len(u) : s[a] # u[b]
    BY <1>8 DEF Rng
  <2> QED
    BY <1>5, <2>1, <2>2, <2>3
<1> QED
  BY <1>1, <1>2, <1>6, <1>7, <1>8 DEF q

(* list_add_before. *)
LEMMA BeforeIs ==
  ASSUME NEW S, NEW s \in Seq(S), NEW x \in S, NEW k \in 1..(Len(s) + 1)
  PROVE  /\ Before(s, k, x) \in Seq(S) /\ Len(s) \in Nat /\ Len(Before(s, k, x)) = Len(s) + 1
         /\ \A i \in 1..(Len(s) + 1) : Before(s, k, x)[i] =
              IF i < k THEN s[i] ELSE IF i = k THEN x ELSE s[i-1]
<1>1. Len(s) \in Nat /\ \A i \in 1..Len(s) : s[i] \in S
  BY LenProperties, ElementOfSeq
<1> DEFINE a == SubSeq(s, 1, k - 1)
           b == SubSeq(s, k, Len(s))
<1>2. /\ a \in Seq(S) /\ Len(a) = k - 1 /\ \A i \in 1..(k - 1) : a[i] = s[i]
      /\ b \in Seq(S) /\ Len(b) = (Len(s) - k) + 1 /\ \A i \in 1..((Len(s) - k) + 1) : b[i] = s[(k + i) - 1]
  <2>1. \A i \in 1..(k-1) : s[i] \in S
    BY <1>1
  <2>2. \A i \in k..Len(s) : s[i] \in S
    BY <1>1
  <2>3. k - 1 \in Int /\ k \in Int /\ Len(s) \in Int
    BY <1>1
  <2>4. /\ a \in Seq(S) /\ Len(a) = IF 1 <= k - 1 THEN ((k - 1) - 1) + 1 ELSE 0
        /\ \A i \in 1..(((k - 1) - 1) + 1) : a[i] = s[(1 + i) - 1]
    BY <2>1, <2>3, SubSeqProperties
  <2>5. /\ b \in Seq(S) /\ Len(b) = IF k <= Len(s) THEN (Len(s) - k) + 1 ELSE 0
        /\ \A i \in 1..((Len(s) - k) + 1) : b[i] = s[(k + i) - 1]
    BY <2>2, <2>3, SubSeqProperties
  <2> QED
    BY <2>4, <2>5, <1>1
<1> HIDE DEF a, b
<1> DEFINE c == a \o <<x>>
<1>3. /\ c \in Seq(S) /\ Len(c) = k /\ \A i \in 1..k : c[i] = IF i < k THEN s[i] ELSE x
  <2>1. <<x>> \in Seq(S) /\ Len(<<x>>) = 1 /\ <<x>>[1] = x
    OBVIOUS
  <2>2. /\ c \in Seq(S) /\ Len(c) = Len(a) + 1
        /\ \A i \in 1..(Len(a) + 1) : c[i] = IF i <= Len(a) THEN a[i] ELSE <<x>>[i - Len(a)]
    BY <1>2, <2>1, ConcatProperties
  <2> HIDE DEF c
  <2>3. Len(c) = k /\ \A i \in 1..k : c[i] = IF i <= k - 1 THEN a[i] ELSE <<x>>[i - (k - 1)]
    BY <1>2, <2>2
  <2>4. ASSUME NEW i \in 1..k PROVE c[i] = IF i < k THEN s[i] ELSE x
    <3>1. CASE i < k
      <4>1. i \in 1..(k-1)
        BY <3>1
      <4> QED
        BY <4>1, <3>1, <1>2, <2>3
    <3>2. CASE i = k
      <4>1. ~(i <= k - 1) /\ i - (k - 1) = 1
        BY <3>2
      <4> QED
        BY <4>1, <3>2, <2>1, <2>3
    <3> QED
      BY <3>1, <3>2
  <2> QED
    BY <2>2, <2>3, <2>4
<1> HIDE DEF c
<1>4. Before(s, k, x) = c \o b
  BY DEF Before, a, b, c
<1>5. /\ c \o b \in Seq(S) /\ Len(c \o b) = Len(c) + Len(b)
      /\ \A i \in 1..(Len(c) + Len(b)) : (c \o b)[i] = IF i <= Len(c) THEN c[i] ELSE b[i - Len(c)]
  BY <1>2, <1>3, ConcatProperties
<1>6. Len(c) + Len(b) = Len(s) + 1
  BY <1>1, <1>2, <1>3
<1> DEFINE q == c \o b
<1> HIDE DEF q
<1>7. \A i \in 1..(Len(s) + 1) : q[i] = IF i <= k THEN c[i] ELSE b[i - k]
  BY <1>5, <1>6, <1>3 DEF q
<1>8. ASSUME NEW i \in 1..(Len(s) + 1)
      PROVE  q[i] = IF i < k THEN s[i] ELSE IF i = k THEN x ELSE s[i-1]
  <2>1. CASE i <= k
    BY <2>1, <1>1, <1>3, <1>7
  <2>2. CASE i > k
    <3>1. i - k \in 1..((Len(s) - k) + 1) /\ (k + (i - k)) - 1 = i - 1
      BY <2>2, <1>1
    <3>2. b[i - k] = s[i - 1]
      BY <3>1, <1>2
    <3> QED
      BY <3>2, <2>2, <1>7, <1>1
  <2> QED
    BY <2>1, <2>2
<1> QED
  BY <1>1, <1>4, <1>5, <1>6, <1>8 DEF q

-----------------------------------------------------------------------------
(* The timer queue.  What its operations keep is stated for timers tm and a *)
(* queue q, so that it can be used between the parts of an operation.       *)

TimerRec == [initialized : BOOLEAN, pending : BOOLEAN, set : BOOLEAN,
             timeout : Nat, period : Nat, window : Nat]
TimerQ == [objcount : Nat, thread : {"none", "start", "scan", "wait", "woken"},
           list : [Kinds -> Seq(Timers)], due : [Kinds -> Nat]]

SortedBy(tm, s) ==
    \A i, j \in 1..Len(s) : i < j => s[i] # s[j] /\ tm[s[i]].timeout <= tm[s[j]].timeout

ListsOK(tm, q) ==
    /\ \A k \in Kinds : SortedBy(tm, q.list[k])
    /\ Rng(q.list["abs"]) \cap Rng(q.list["rel"]) = {}
    /\ \A o \in Timers : tm[o].pending <=> o \in Rng(q.list["abs"]) \cup Rng(q.list["rel"])

(* The timers that are initialized are counted, and only they are armed. *)
Initialized(tm) == {o \in Timers : tm[o].initialized}
CountOK(tm, q) ==
    /\ q.objcount = Cardinality(Initialized(tm))
    /\ \A o \in Timers : tm[o].pending => tm[o].initialized
    /\ q.objcount > 0 => q.thread # "none"

(* The kernel timer of a list is set for its head. *)
DueOK(tm, q) ==
    \A k \in Kinds : q.list[k] # <<>> =>
      \/ q.due[k] <= now
      \/ \E n \in UsedWindows : q.due[k] <= tm[q.list[k][1]].timeout + n

TimerInv ==
    /\ now \in Nat
    /\ timer \in [Timers -> TimerRec] /\ timerq \in TimerQ
    /\ \A o \in Timers : timer[o].window \in UsedWindows
    /\ ListsOK(timer, timerq) /\ CountOK(timer, timerq)
    /\ timerq.thread = "wait" => DueOK(timer, timerq)

(* The steps of the pool, as far as the timer queue sees them. *)
TimerStep ==
    \/ UNCHANGED timerVars /\ now' \in {now, now + 1}
    \/ /\ now' = now
       /\ \/ \E o \in Timers : timer[o].initialized = FALSE /\ tp_timerqueue_lock(o)
          \/ \E S \in SUBSET Timers : tp_timerqueue_unlock(S)
          \/ \E o \in Timers, at \in Timeouts, p \in Nat, n \in UsedWindows :
               TpSetTimerEx(o, at, p, n)
          \/ \E shut \in BOOLEAN : submit_expired_timers(shut)
          \/ TimerThreadWaits \/ TimerThreadWakes \/ TimerThreadEnters

(* The timers of a finite process are finitely many. *)
LEMMA TimersFinite == IsFiniteSet(Timers) /\ Timers \subseteq Objects
  BY PoolConstants, KindsOfObjects, FS_Subset

(* Windows are natural numbers. *)
LEMMA UsedWindowsNat == UsedWindows \subseteq Nat /\ 0 \in UsedWindows
  BY CallsOfPrograms DEF UsedWindows

(* A timer before the first one that is later: the list stays sorted. *)
LEMMA InsertedIs ==
  ASSUME NEW tm, \A x \in Timers : tm[x].timeout \in Nat,
         NEW s \in Seq(Timers), SortedBy(tm, s),
         NEW o \in Timers, o \notin Rng(s)
  PROVE  /\ Inserted(s, o, tm) \in Seq(Timers)
         /\ SortedBy(tm, Inserted(s, o, tm))
         /\ Rng(Inserted(s, o, tm)) = Rng(s) \cup {o}
         /\ Inserted(s, o, tm) # <<>>
         /\ Inserted(s, o, tm)[1] = o \/ (s # <<>> /\ Inserted(s, o, tm)[1] = s[1])
<1> DEFINE Later == {i \in DOMAIN s : tm[o].timeout < tm[s[i]].timeout}
           k == IF Later = {} THEN Len(s) + 1 ELSE CHOOSE i \in Later : \A j \in Later : i <= j
           r == Before(s, k, o)
<1>0. /\ Len(s) \in Nat /\ DOMAIN s = 1..Len(s) /\ \A i \in 1..Len(s) : s[i] \in Timers
      /\ (Len(s) = 0) <=> (s = <<>>)
  BY RngIs, ElementOfSeq
<1>1. Later \subseteq 1..Len(s)
  BY <1>0
<1>2. ASSUME Later # {} PROVE k \in Later /\ \A j \in Later : k <= j
  <2>1. Later \in SUBSET Nat
    BY <1>0, <1>1
  <2>2. \E i \in Later : \A j \in Later : i <= j
    BY <1>2, <2>1, LeastNat
  <2> HIDE DEF Later
  <2> QED
    BY <1>2, <2>2
<1>3. k \in 1..(Len(s) + 1)
  BY <1>0, <1>1, <1>2
<1>4. \A i \in 1..Len(s) : i < k => tm[s[i]].timeout <= tm[o].timeout
  <2> SUFFICES ASSUME NEW i \in 1..Len(s), i < k, ~(tm[s[i]].timeout <= tm[o].timeout) PROVE FALSE
    OBVIOUS
  <2>1. i \in Later
    BY <1>0
  <2>2. k <= i
    BY <2>1, <1>2
  <2> QED
    BY <2>2, <1>3, <1>0
<1>5. \A i \in 1..Len(s) : i >= k => tm[o].timeout <= tm[s[i]].timeout
  <2> SUFFICES ASSUME NEW i \in 1..Len(s), i >= k PROVE tm[o].timeout <= tm[s[i]].timeout
    OBVIOUS
  <2>1. Later # {}
    BY <1>0
  <2>2. k \in 1..Len(s) /\ tm[o].timeout < tm[s[k]].timeout
    BY <2>1, <1>2, <1>0
  <2>3. tm[s[k]].timeout <= tm[s[i]].timeout
    <3> HIDE DEF k
    <3>1. CASE i = k
      <4>1. tm[s[i]].timeout \in Nat
        BY <1>0
      <4> QED
        BY <3>1, <4>1
    <3>2. CASE i # k
      <4>1. k < i
        BY <3>2, <1>3, <1>0
      <4> QED
        BY <4>1, <2>2 DEF SortedBy
    <3> QED
      BY <3>1, <3>2
  <2>4. tm[o].timeout \in Nat /\ tm[s[k]].timeout \in Nat /\ tm[s[i]].timeout \in Nat
    BY <1>0, <2>2
  <2> HIDE DEF k
  <2> QED
    BY <2>2, <2>3, <2>4
<1>6. Inserted(s, o, tm) = r
  BY DEF Inserted
<1> HIDE DEF k
<1>7. /\ r \in Seq(Timers) /\ Len(r) = Len(s) + 1
      /\ \A i \in 1..(Len(s) + 1) : r[i] = IF i < k THEN s[i] ELSE IF i = k THEN o ELSE s[i-1]
  BY <1>3, BeforeIs
<1> HIDE DEF r
<1>8. \A i \in 1..(Len(s) + 1) : \/ i < k /\ i \in 1..Len(s) /\ r[i] = s[i]
                                 \/ i = k /\ r[i] = o
                                 \/ i > k /\ i - 1 >= k /\ i - 1 \in 1..Len(s) /\ r[i] = s[i-1]
  <2> SUFFICES ASSUME NEW i \in 1..(Len(s) + 1)
               PROVE  \/ i < k /\ i \in 1..Len(s) /\ r[i] = s[i]
                      \/ i = k /\ r[i] = o
                      \/ i > k /\ i - 1 >= k /\ i - 1 \in 1..Len(s) /\ r[i] = s[i-1]
    OBVIOUS
  <2>1. r[i] = IF i < k THEN s[i] ELSE IF i = k THEN o ELSE s[i-1]
    BY <1>7
  <2>2. (i < k /\ i \in 1..Len(s)) \/ i = k \/ (i > k /\ i - 1 >= k /\ i - 1 \in 1..Len(s))
    <3>1. PICK n \in Nat : n = Len(s)
      BY <1>0
    <3>2. i \in 1..(n + 1) /\ k \in 1..(n + 1)
      BY <3>1, <1>3
    <3>3. (i < k /\ i \in 1..n) \/ i = k \/ (i > k /\ i - 1 >= k /\ i - 1 \in 1..n)
      BY <3>2
    <3> QED
      BY <3>1, <3>3
  <2> QED
    BY <2>1, <2>2, <1>0, <1>3
<1>9. Rng(r) = Rng(s) \cup {o}
  <2>1. Rng(r) \subseteq Rng(s) \cup {o}
    BY <1>7, <1>8 DEF Rng
  <2>2. o \in Rng(r)
    <3>1. k \in 1..Len(r) /\ r[k] = o
      BY <1>3, <1>7, <1>0
    <3> QED
      BY <3>1 DEF Rng
  <2>3. ASSUME NEW i \in 1..Len(s) PROVE s[i] \in Rng(r)
    <3>1. CASE i < k
      <4>1. i \in 1..Len(r) /\ r[i] = s[i]
        BY <3>1, <1>7, <1>0
      <4> QED
        BY <4>1 DEF Rng
    <3>2. CASE ~(i < k)
      <4>1. i + 1 \in 1..(Len(s) + 1) /\ ~(i + 1 < k) /\ i + 1 # k /\ (i + 1) - 1 = i
        BY <3>2, <1>3, <1>0
      <4>2. i + 1 \in 1..Len(r) /\ r[i+1] = s[i]
        BY <4>1, <1>7
      <4> QED
        BY <4>2 DEF Rng
    <3> QED
      BY <3>1, <3>2
  <2> QED
    BY <2>1, <2>2, <2>3 DEF Rng
<1>10. SortedBy(tm, r)
  <2> SUFFICES ASSUME NEW i \in 1..Len(r), NEW j \in 1..Len(r), i < j
               PROVE  r[i] # r[j] /\ tm[r[i]].timeout <= tm[r[j]].timeout
    BY DEF SortedBy
  <2>0. i \in 1..(Len(s) + 1) /\ j \in 1..(Len(s) + 1) /\ k \in Nat
    BY <1>7, <1>3, <1>0
  <2>1. \A a \in 1..Len(s) : s[a] # o
    BY DEF Rng
  <2>2. CASE j < k
    <3>1. i \in 1..Len(s) /\ j \in 1..Len(s) /\ r[i] = s[i] /\ r[j] = s[j]
      BY <2>0, <2>2, <1>7, <1>3, <1>0
    <3> QED
      BY <3>1 DEF SortedBy
  <2>3. CASE j = k
    <3>1. i < k /\ i \in 1..Len(s) /\ r[i] = s[i] /\ r[j] = o
      BY <2>0, <2>3, <1>7, <1>3, <1>0
    <3> QED
      BY <3>1, <2>1, <1>4
  <2>4. CASE j > k
    <3>1. j - 1 >= k /\ j - 1 \in 1..Len(s) /\ r[j] = s[j-1]
      BY <2>0, <2>4, <1>8
    <3>2. CASE i < k
      <4>1. i \in 1..Len(s) /\ r[i] = s[i] /\ i < j - 1
        BY <2>0, <3>1, <3>2, <1>7, <1>3, <1>0
      <4> QED
        BY <4>1, <3>1 DEF SortedBy
    <3>3. CASE i = k
      <4>1. r[i] = o
        BY <2>0, <3>3, <1>7
      <4> QED
        BY <4>1, <3>1, <2>1, <1>5
    <3>4. CASE i > k
      <4>1. i - 1 \in 1..Len(s) /\ r[i] = s[i-1] /\ i - 1 < j - 1
        BY <2>0, <3>4, <1>8
      <4> QED
        BY <4>1, <3>1 DEF SortedBy
    <3> QED
      BY <3>2, <3>3, <3>4, <2>0
  <2> QED
    BY <2>2, <2>3, <2>4, <2>0
<1>11. r # <<>>
  BY <1>7, <1>0, RngIs
<1>12. r[1] = o \/ (s # <<>> /\ r[1] = s[1])
  <2>1. 1 \in 1..(Len(s) + 1) /\ r[1] = IF 1 < k THEN s[1] ELSE IF 1 = k THEN o ELSE s[1-1]
    BY <1>0, <1>7
  <2>2. 1 < k => Len(s) # 0
    BY <1>3, <1>0
  <2> QED
    BY <2>1, <2>2, <1>0, <1>3
<1> QED
  BY <1>6, <1>7, <1>9, <1>10, <1>11, <1>12

(* Removing timers keeps a list sorted, and its head only gets later. *)
LEMMA SortedWithout ==
  ASSUME NEW tm, \A x \in Timers : tm[x].timeout \in Nat,
         NEW s \in Seq(Timers), SortedBy(tm, s), NEW T
  PROVE  /\ Without(s, T) \in Seq(Timers)
         /\ SortedBy(tm, Without(s, T))
         /\ Rng(Without(s, T)) = Rng(s) \ T
         /\ Without(s, T) # <<>> =>
              s # <<>> /\ tm[s[1]].timeout <= tm[Without(s, T)[1]].timeout
<1> DEFINE r == Without(s, T)
<1>1. /\ r \in Seq(Timers) /\ Rng(r) = Rng(s) \ T
      /\ \A i, j \in 1..Len(r) : i < j =>
           \E a, b \in 1..Len(s) : a < b /\ s[a] = r[i] /\ s[b] = r[j]
  BY WithoutIs
<1> HIDE DEF r
<1>2. SortedBy(tm, r)
  <2> SUFFICES ASSUME NEW i \in 1..Len(r), NEW j \in 1..Len(r), i < j
               PROVE  r[i] # r[j] /\ tm[r[i]].timeout <= tm[r[j]].timeout
    BY DEF SortedBy
  <2>1. PICK a \in 1..Len(s), b \in 1..Len(s) : a < b /\ s[a] = r[i] /\ s[b] = r[j]
    BY <1>1
  <2>2. s[a] # s[b] /\ tm[s[a]].timeout <= tm[s[b]].timeout
    BY <2>1 DEF SortedBy
  <2> QED
    BY <2>1, <2>2
<1>3. ASSUME r # <<>> PROVE s # <<>> /\ tm[s[1]].timeout <= tm[r[1]].timeout
  <2>1. 1 \in 1..Len(r)
    BY <1>1, <1>3, RngIs
  <2>2. r[1] \in Rng(s)
    BY <1>1, <2>1 DEF Rng
  <2>3. PICK a \in 1..Len(s) : s[a] = r[1]
    BY <2>2 DEF Rng
  <2>4. s # <<>> /\ 1 \in 1..Len(s) /\ s[1] \in Timers
    BY <2>3, RngIs, ElementOfSeq
  <2>5. CASE a = 1
    BY <2>3, <2>4, <2>5
  <2>6. CASE a # 1
    <3>1. 1 < a
      BY <2>6
    <3> QED
      BY <2>3, <2>4, <3>1 DEF SortedBy
  <2> QED
    BY <2>4, <2>5, <2>6
<1> QED
  BY <1>1, <1>2, <1>3 DEF r

(* Only the timeouts of the timers on a list matter for its order. *)
LEMMA SortedSame ==
  ASSUME NEW tm, NEW tn, NEW s \in Seq(Timers), SortedBy(tm, s),
         \A x \in Rng(s) : tn[x].timeout = tm[x].timeout
  PROVE  SortedBy(tn, s)
  BY DEF SortedBy, Rng

(* The time get_next_timeout computes is that of a timer of the list, and   *)
(* lies in the windows of all before it.                                    *)
LEMMA NextTimeoutIs ==
  ASSUME NEW tm \in [Timers -> TimerRec], NEW l \in Seq(Timers), l # <<>>
  PROVE  \E k \in 1..Len(l) :
           /\ get_next_timeout(l, tm) = tm[l[k]].timeout
           /\ \A j \in 1..(k - 1) : tm[l[k]].timeout < tm[l[j]].timeout + tm[l[j]].window
<1> DEFINE Merged(k) == \A i \in 1..k : \A j \in 1..(i - 1) :
                          tm[l[i]].timeout < tm[l[j]].timeout + tm[l[j]].window
           M == {k \in DOMAIN l : Merged(k)}
           last == CHOOSE k \in DOMAIN l : Merged(k) /\ \A n \in DOMAIN l : Merged(n) => n <= k
<1>0. Len(l) \in Nat /\ Len(l) # 0 /\ DOMAIN l = 1..Len(l)
  BY RngIs
<1>1. M \in SUBSET Nat /\ \A y \in M : y <= Len(l)
  BY <1>0
<1>2. 1 \in M
  BY <1>0
<1>3. PICK m \in M : \A y \in M : y <= m
  <2> HIDE DEF M
  <2> QED
    BY <1>0, <1>1, <1>2, GreatestNat
<1>4. m \in DOMAIN l /\ Merged(m) /\ \A n \in DOMAIN l : Merged(n) => n <= m
  BY <1>3
<1>5. last \in DOMAIN l /\ Merged(last)
  <2> HIDE DEF Merged
  <2> QED
    BY <1>4
<1>6. get_next_timeout(l, tm) = tm[l[last]].timeout
  BY DEF get_next_timeout
<1> HIDE DEF last
<1>7. last \in 1..Len(l) /\ last \in 1..last
  BY <1>0, <1>5
<1> QED
  BY <1>5, <1>6, <1>7

(* The time computed for a sorted list lies in the window of each timer, or *)
(* is not after it.                                                         *)
LEMMA NextTimeoutKept ==
  ASSUME NEW tm \in [Timers -> TimerRec], NEW l \in Seq(Timers), l # <<>>, SortedBy(tm, l),
         \A x \in Timers : tm[x].window \in UsedWindows
  PROVE  /\ get_next_timeout(l, tm) \in Nat
         /\ \A o \in Rng(l) : get_next_timeout(l, tm) <= tm[o].timeout + tm[o].window
         /\ \E n \in UsedWindows : get_next_timeout(l, tm) <= tm[l[1]].timeout + n
<1>1. PICK k \in 1..Len(l) :
         /\ get_next_timeout(l, tm) = tm[l[k]].timeout
         /\ \A j \in 1..(k - 1) : tm[l[k]].timeout < tm[l[j]].timeout + tm[l[j]].window
  BY NextTimeoutIs
<1>2. \A i \in 1..Len(l) : l[i] \in Timers /\ tm[l[i]].timeout \in Nat /\ tm[l[i]].window \in Nat
  BY ElementOfSeq DEF TimerRec
<1>3. ASSUME NEW i \in 1..Len(l) PROVE tm[l[k]].timeout <= tm[l[i]].timeout + tm[l[i]].window
  <2>0. /\ tm[l[k]].timeout \in Nat /\ tm[l[i]].timeout \in Nat /\ tm[l[i]].window \in Nat
    BY <1>2
  <2>1. CASE i < k
    <3>1. i \in 1..(k - 1)
      BY <2>1
    <3> QED
      BY <3>1, <2>0, <1>1
  <2>2. CASE i = k
    BY <2>2, <2>0
  <2>3. CASE k < i
    <3>1. tm[l[k]].timeout <= tm[l[i]].timeout
      BY <2>3 DEF SortedBy
    <3> QED
      BY <3>1, <2>0
  <2> QED
    BY <2>1, <2>2, <2>3
<1>4. \A o \in Rng(l) : tm[l[k]].timeout <= tm[o].timeout + tm[o].window
  BY <1>3 DEF Rng
<1>5. 1 \in 1..Len(l)
  BY <1>1
<1>6. tm[l[k]].timeout <= tm[l[1]].timeout + tm[l[1]].window /\ tm[l[1]].window \in UsedWindows
  BY <1>2, <1>3, <1>5
<1> QED
  BY <1>1, <1>2, <1>4, <1>6

(* What update_timers does to the queue. *)
LEMMA UpdateIs ==
  ASSUME now \in Nat, NEW tm \in [Timers -> TimerRec], NEW q \in TimerQ,
         \A x \in Timers : tm[x].window \in UsedWindows,
         \A k \in Kinds : SortedBy(tm, q.list[k]),
         q.objcount = 0 => q.list["rel"] = <<>>
  PROVE  /\ update_timers(q, tm) \in TimerQ
         /\ update_timers(q, tm).list = q.list
         /\ update_timers(q, tm).objcount = q.objcount
         /\ update_timers(q, tm).thread = q.thread
         /\ DueOK(tm, update_timers(q, tm))
<1> DEFINE u == update_timers(q, tm)
           g(k) == get_next_timeout(q.list[k], tm)
<1>0. "abs" \in Kinds /\ "rel" \in Kinds /\ Kinds = {"abs", "rel"}
  BY DEF Kinds
<1>1. Never \in Nat /\ Linger \in Nat
  BY TimeIsBounded, LingerNat DEF Never
<1>2. \A k \in Kinds : q.list[k] \in Seq(Timers) /\ (q.list[k] = <<>> => g(k) = Never)
  BY DEF TimerQ, get_next_timeout
<1>3. \A k \in Kinds : q.list[k] # <<>> =>
         g(k) \in Nat /\ \E n \in UsedWindows : g(k) <= tm[q.list[k][1]].timeout + n
  BY <1>2, NextTimeoutKept
<1>4. \A k \in Kinds : g(k) \in Nat
  BY <1>1, <1>2, <1>3
<1> DEFINE d == [k \in Kinds |-> IF k = "abs" THEN g("abs")
                                 ELSE IF q.objcount = 0 THEN now + Linger
                                 ELSE IF g("rel") > now THEN g("rel") ELSE now]
<1>5. u = [q EXCEPT !.due = d]
  BY DEF update_timers
<1> HIDE DEF u, g
<1>6. d \in [Kinds -> Nat]
  BY <1>0, <1>1, <1>4
<1>7. \A k \in Kinds : q.list[k] # <<>> =>
        d[k] <= now \/ \E n \in UsedWindows : d[k] <= tm[q.list[k][1]].timeout + n
  <2> SUFFICES ASSUME NEW k \in Kinds, q.list[k] # <<>>
               PROVE  d[k] <= now \/ \E n \in UsedWindows : d[k] <= tm[q.list[k][1]].timeout + n
    OBVIOUS
  <2>1. CASE k = "abs"
    <3>1. d[k] = g(k)
      BY <2>1
    <3> QED
      BY <3>1, <1>3
  <2>2. CASE k = "rel"
    <3>1. d[k] = g(k) \/ d[k] = now
      BY <2>2
    <3> QED
      BY <3>1, <1>3
  <2> QED
    BY <2>1, <2>2, <1>0
<1> HIDE DEF d
<1>8. u \in TimerQ /\ u.list = q.list /\ u.objcount = q.objcount /\ u.thread = q.thread /\ u.due = d
  BY <1>5, <1>6 DEF TimerQ
<1>9. DueOK(tm, u)
  BY <1>7, <1>8 DEF DueOK
<1> QED
  BY <1>8, <1>9 DEF u

(* The invariant, for what the timers and the queue have become. *)
LEMMA TimerInvBecomes ==
  ASSUME now \in Nat, now' \in {now, now + 1}, program' = program,
         NEW tm \in [Timers -> TimerRec], NEW q \in TimerQ, timer' = tm, timerq' = q,
         \A o \in Timers : tm[o].window \in UsedWindows,
         ListsOK(tm, q), CountOK(tm, q), q.thread = "wait" => DueOK(tm, q)
  PROVE  TimerInv'
<1>1. UsedWindows' = UsedWindows
  BY DEF UsedWindows, Can
<1>2. now' \in Nat /\ now <= now'
  OBVIOUS
<1>3. (\A o \in Timers : timer[o].window \in UsedWindows)'
  BY <1>1
<1>4. ListsOK(timer, timerq)' /\ CountOK(timer, timerq)'
  BY DEF ListsOK, CountOK, SortedBy, Initialized
<1>5. ASSUME q.thread = "wait" PROVE DueOK(timer, timerq)'
  <2> SUFFICES ASSUME NEW k \in Kinds, q.list[k] # <<>>
               PROVE  \/ q.due[k] <= now'
                      \/ \E n \in UsedWindows : q.due[k] <= tm[q.list[k][1]].timeout + n
    BY <1>1 DEF DueOK
  <2>1. q.due[k] \in Nat
    BY DEF TimerQ
  <2> QED
    BY <1>2, <1>5, <2>1 DEF DueOK
<1> QED
  BY <1>2, <1>3, <1>4, <1>5 DEF TimerInv

(* A timer that is on no list may change. *)
LEMMA ListsSame ==
  ASSUME NEW tm \in [Timers -> TimerRec], NEW q \in TimerQ, ListsOK(tm, q),
         NEW tn \in [Timers -> TimerRec], NEW r \in TimerQ, r.list = q.list,
         \A x \in Timers : tn[x].pending = tm[x].pending,
         \A x \in Timers : tm[x].pending => tn[x].timeout = tm[x].timeout
  PROVE  ListsOK(tn, r)
<1>0. "abs" \in Kinds /\ "rel" \in Kinds /\ Kinds = {"abs", "rel"}
  BY DEF Kinds
<1>1. \A k \in Kinds : q.list[k] \in Seq(Timers)
  BY DEF TimerQ
<1>2. \A k \in Kinds : Rng(q.list[k]) \subseteq Timers
  BY <1>1, RngIs
<1>3. \A k \in Kinds : \A x \in Rng(q.list[k]) : tn[x].timeout = tm[x].timeout
  BY <1>0, <1>2 DEF ListsOK
<1>4. \A k \in Kinds : SortedBy(tn, q.list[k])
  BY <1>1, <1>3, SortedSame DEF ListsOK
<1> QED
  BY <1>4 DEF ListsOK

(* The heads of the lists are armed timers. *)
LEMMA HeadsArmed ==
  ASSUME NEW tm \in [Timers -> TimerRec], NEW q \in TimerQ, ListsOK(tm, q),
         NEW k \in Kinds, q.list[k] # <<>>
  PROVE  /\ q.list[k][1] \in Timers /\ tm[q.list[k][1]].pending /\ Head(q.list[k]) = q.list[k][1]
         /\ q.list[k][1] \in Rng(q.list[k])
<1>1. q.list[k] \in Seq(Timers)
  BY DEF TimerQ
<1>2. q.list[k][1] \in Timers /\ q.list[k][1] \in Rng(q.list[k]) /\ Head(q.list[k]) = q.list[k][1]
  BY <1>1, TailIs
<1> QED
  BY <1>2 DEF ListsOK, Kinds

(* No object, no armed timer. *)
LEMMA NoneArmed ==
  ASSUME NEW tm \in [Timers -> TimerRec], NEW q \in TimerQ, ListsOK(tm, q), CountOK(tm, q),
         q.objcount = 0
  PROVE  \A k \in Kinds : q.list[k] = <<>>
<1>1. Initialized(tm) = {}
  <2>1. IsFiniteSet(Initialized(tm))
    BY TimersFinite, FS_Subset DEF Initialized
  <2> QED
    BY <2>1, FS_EmptySet DEF CountOK
<1>2. \A o \in Timers : ~tm[o].pending
  BY <1>1 DEF CountOK, Initialized
<1> QED
  BY <1>2, HeadsArmed

(* tp_timerqueue_lock keeps the invariant. *)
LEMMA TimerLockKeeps ==
  ASSUME TimerInv, program' = program, now' = now,
         NEW o \in Timers, timer[o].initialized = FALSE, tp_timerqueue_lock(o)
  PROVE  TimerInv'
<1> DEFINE tm == [timer EXCEPT ![o] = [NoTimer EXCEPT !.initialized = TRUE]]
           q == [timerq EXCEPT !.objcount = @ + 1, !.thread = IF @ = "none" THEN "start" ELSE @]
<1>0. /\ now \in Nat /\ timer \in [Timers -> TimerRec] /\ timerq \in TimerQ
      /\ ListsOK(timer, timerq) /\ CountOK(timer, timerq)
      /\ \A x \in Timers : timer[x].window \in UsedWindows
  BY DEF TimerInv
<1>1. timer' = tm /\ timerq' = q
  BY DEF tp_timerqueue_lock
<1>2. /\ tm \in [Timers -> TimerRec] /\ tm[o] = [NoTimer EXCEPT !.initialized = TRUE]
      /\ \A x \in Timers \ {o} : tm[x] = timer[x]
      /\ tm[o].initialized = TRUE /\ tm[o].pending = FALSE /\ tm[o].window = 0
  BY <1>0 DEF TimerRec, NoTimer
<1>3. /\ q \in TimerQ /\ q.list = timerq.list /\ q.due = timerq.due
      /\ q.objcount = timerq.objcount + 1 /\ q.thread # "none"
      /\ q.thread = "wait" => timerq.thread = "wait"
  <2>1. timerq.objcount + 1 \in Nat
    BY <1>0 DEF TimerQ
  <2>2. (IF timerq.thread = "none" THEN "start" ELSE timerq.thread)
          \in {"none", "start", "scan", "wait", "woken"} \ {"none"}
    BY <1>0 DEF TimerQ
  <2>3. q \in TimerQ
    BY <1>0, <2>1, <2>2 DEF TimerQ
  <2>4. /\ q.list = timerq.list /\ q.due = timerq.due /\ q.objcount = timerq.objcount + 1
        /\ q.thread = IF timerq.thread = "none" THEN "start" ELSE timerq.thread
    BY <1>0 DEF TimerQ
  <2> QED
    BY <2>2, <2>3, <2>4
<1>4. timer[o].pending = FALSE
  BY <1>0 DEF CountOK, TimerRec
<1> HIDE DEF tm, q
<1>5. ListsOK(tm, q)
  <2>1. \A x \in Timers : tm[x].pending = timer[x].pending
    BY <1>2, <1>4
  <2>2. \A x \in Timers : timer[x].pending => tm[x].timeout = timer[x].timeout
    BY <1>2, <1>4
  <2> QED
    BY <1>0, <1>2, <1>3, <2>1, <2>2, ListsSame
<1>6. CountOK(tm, q)
  <2>1. Initialized(tm) = Initialized(timer) \cup {o} /\ o \notin Initialized(timer)
    BY <1>2 DEF Initialized
  <2>2. IsFiniteSet(Initialized(timer))
    BY TimersFinite, FS_Subset DEF Initialized
  <2>3. Cardinality(Initialized(tm)) = Cardinality(Initialized(timer)) + 1
    BY <2>1, <2>2, FS_AddElement
  <2> QED
    BY <1>0, <1>2, <1>3, <2>3 DEF CountOK
<1>7. q.thread = "wait" => DueOK(tm, q)
  <2>1. \A k \in Kinds : timerq.list[k] # <<>> => tm[timerq.list[k][1]] = timer[timerq.list[k][1]]
    BY <1>0, <1>2, <1>4, HeadsArmed
  <2> QED
    BY <1>3, <2>1 DEF DueOK, TimerInv
<1>8. \A x \in Timers : tm[x].window \in UsedWindows
  BY <1>0, <1>2, UsedWindowsNat
<1> QED
  BY <1>0, <1>1, <1>2, <1>3, <1>5, <1>6, <1>7, <1>8, TimerInvBecomes

(* tn and r are tm and q after the timers of S were taken off their lists. *)
TakenOff(tm, q, S, tn, r) ==
    /\ tm \in [Timers -> TimerRec] /\ q \in TimerQ
    /\ S \in SUBSET Timers
    /\ tn \in [Timers -> TimerRec] /\ r \in TimerQ
    /\ \A k \in Kinds : r.list[k] = Without(q.list[k], S)
    /\ \A x \in Timers \ S : tn[x] = tm[x]
    /\ \A x \in S : tn[x].pending = FALSE

(* Timers taken off their lists: both stay sorted. *)
LEMMA ListsLess ==
  ASSUME NEW tm, NEW q, NEW S, NEW tn, NEW r, TakenOff(tm, q, S, tn, r), ListsOK(tm, q)
  PROVE  /\ ListsOK(tn, r)
         /\ \A k \in Kinds : Rng(r.list[k]) = Rng(q.list[k]) \ S
         /\ \A k \in Kinds : r.list[k] # <<>> =>
              /\ q.list[k] # <<>>
              /\ tm[q.list[k][1]].timeout <= tn[r.list[k][1]].timeout
              /\ r.list[k][1] \notin S
<1> USE DEF TakenOff
<1>0. "abs" \in Kinds /\ "rel" \in Kinds /\ Kinds = {"abs", "rel"}
  BY DEF Kinds
<1>1. \A k \in Kinds : q.list[k] \in Seq(Timers) /\ SortedBy(tm, q.list[k])
  BY DEF TimerQ, ListsOK
<1>2. \A x \in Timers : tm[x].timeout \in Nat
  BY DEF TimerRec
<1>3. \A k \in Kinds :
        /\ r.list[k] \in Seq(Timers) /\ SortedBy(tm, r.list[k])
        /\ Rng(r.list[k]) = Rng(q.list[k]) \ S
        /\ r.list[k] # <<>> => q.list[k] # <<>> /\ tm[q.list[k][1]].timeout <= tm[r.list[k][1]].timeout
  BY <1>1, <1>2, SortedWithout
<1>4. \A k \in Kinds : Rng(q.list[k]) \subseteq Timers
  BY <1>1, RngIs
<1>5. \A k \in Kinds : \A x \in Rng(r.list[k]) : tn[x] = tm[x] /\ x \notin S
  BY <1>3, <1>4
<1>6. \A k \in Kinds : SortedBy(tn, r.list[k])
  BY <1>3, <1>5, SortedSame
<1>7. \A k \in Kinds : r.list[k] # <<>> => r.list[k][1] \in Rng(r.list[k])
  BY <1>3, TailIs
<1>8. Rng(r.list["abs"]) \cap Rng(r.list["rel"]) = {}
  BY <1>0, <1>3 DEF ListsOK
<1>9. ASSUME NEW x \in Timers
      PROVE  tn[x].pending <=> x \in Rng(r.list["abs"]) \cup Rng(r.list["rel"])
  <2>1. CASE x \in S
    BY <2>1, <1>0, <1>3
  <2>2. CASE x \notin S
    <3>1. tn[x] = tm[x]
      BY <2>2
    <3> QED
      BY <3>1, <2>2, <1>0, <1>3 DEF ListsOK
  <2> QED
    BY <2>1, <2>2
<1>10. ListsOK(tn, r)
  BY <1>6, <1>8, <1>9 DEF ListsOK
<1> QED
  BY <1>3, <1>5, <1>7, <1>10

(* Removing timers makes no kernel timer late. *)
LEMMA DueLess ==
  ASSUME now \in Nat, NEW tm, NEW q, NEW S, NEW tn, NEW r, TakenOff(tm, q, S, tn, r),
         ListsOK(tm, q), r.due = q.due, DueOK(tm, q)
  PROVE  DueOK(tn, r)
<1>1. /\ ListsOK(tn, r)
      /\ \A k \in Kinds : r.list[k] # <<>> =>
           q.list[k] # <<>> /\ tm[q.list[k][1]].timeout <= tn[r.list[k][1]].timeout
  BY ListsLess
<1> SUFFICES ASSUME NEW k \in Kinds, r.list[k] # <<>>, ~(q.due[k] <= now)
             PROVE  \E n \in UsedWindows : q.due[k] <= tn[r.list[k][1]].timeout + n
  BY DEF DueOK
<1>2. PICK n \in UsedWindows : q.due[k] <= tm[q.list[k][1]].timeout + n
  BY <1>1 DEF DueOK
<1>3. tm[q.list[k][1]].timeout <= tn[r.list[k][1]].timeout
  BY <1>1
<1>4. q.list[k][1] \in Timers /\ r.list[k][1] \in Timers
  BY <1>1, HeadsArmed DEF TakenOff
<1>5. /\ tm[q.list[k][1]].timeout \in Nat /\ tn[r.list[k][1]].timeout \in Nat
      /\ n \in Nat /\ q.due[k] \in Nat
  BY <1>4, UsedWindowsNat DEF TimerRec, TimerQ, TakenOff
<1>6. \A a, b, c, d \in Nat : a <= b + c /\ b <= d => a <= d + c
  OBVIOUS
<1>7. q.due[k] <= tn[r.list[k][1]].timeout + n
  BY ONLY <1>2, <1>3, <1>5, <1>6
<1> QED
  BY <1>7

(* tn and r are tm and q after timer o was put on list kind. *)
TakenOn(tm, q, o, kind, tn, r) ==
    /\ tm \in [Timers -> TimerRec] /\ q \in TimerQ
    /\ o \in Timers /\ tm[o].pending = FALSE /\ kind \in Kinds
    /\ tn \in [Timers -> TimerRec] /\ tn[o].pending = TRUE
    /\ r = [q EXCEPT !.list[kind] = Inserted(@, o, tn)]
    /\ \A x \in Timers \ {o} : tn[x] = tm[x]

(* A timer put on a list: both stay sorted. *)
LEMMA ListsMore ==
  ASSUME NEW tm, NEW q, NEW o, NEW kind, NEW tn, NEW r, TakenOn(tm, q, o, kind, tn, r),
         ListsOK(tm, q)
  PROVE  /\ r \in TimerQ /\ ListsOK(tn, r)
         /\ r.objcount = q.objcount /\ r.thread = q.thread /\ r.due = q.due
         /\ r.list[kind] # <<>>
         /\ r.list[kind][1] = o \/ (q.list[kind] # <<>> /\ r.list[kind][1] = q.list[kind][1])
         /\ \A k \in Kinds \ {kind} : r.list[k] = q.list[k]
<1> USE DEF TakenOn
<1>0. "abs" \in Kinds /\ "rel" \in Kinds /\ Kinds = {"abs", "rel"}
  BY DEF Kinds
<1>1. \A k \in Kinds : q.list[k] \in Seq(Timers) /\ SortedBy(tm, q.list[k]) /\ o \notin Rng(q.list[k])
  BY <1>0 DEF TimerQ, ListsOK
<1>2. \A k \in Kinds : Rng(q.list[k]) \subseteq Timers
  BY <1>1, RngIs
<1>3. \A k \in Kinds : SortedBy(tn, q.list[k])
  <2>1. \A k \in Kinds : \A x \in Rng(q.list[k]) : tn[x].timeout = tm[x].timeout
    BY <1>1, <1>2
  <2> QED
    BY <1>1, <2>1, SortedSame
<1> DEFINE l == Inserted(q.list[kind], o, tn)
<1>4. /\ l \in Seq(Timers) /\ SortedBy(tn, l) /\ Rng(l) = Rng(q.list[kind]) \cup {o} /\ l # <<>>
      /\ l[1] = o \/ (q.list[kind] # <<>> /\ l[1] = q.list[kind][1])
  <2>1. \A x \in Timers : tn[x].timeout \in Nat
    BY DEF TimerRec
  <2>2. q.list[kind] \in Seq(Timers) /\ SortedBy(tn, q.list[kind]) /\ o \notin Rng(q.list[kind])
    BY <1>1, <1>3
  <2>3. o \in Timers
    OBVIOUS
  <2> QED
    BY ONLY <2>1, <2>2, <2>3, InsertedIs
<1>5. r = [q EXCEPT !.list[kind] = l]
  OBVIOUS
<1> HIDE DEF l
<1>6. /\ r \in TimerQ /\ r.objcount = q.objcount /\ r.thread = q.thread /\ r.due = q.due
      /\ r.list[kind] = l /\ \A k \in Kinds \ {kind} : r.list[k] = q.list[k]
  <2>1. q \in TimerQ /\ kind \in Kinds
    OBVIOUS
  <2> DEFINE L == [q.list EXCEPT ![kind] = l]
  <2>2. L \in [Kinds -> Seq(Timers)] /\ L[kind] = l /\ \A k \in Kinds \ {kind} : L[k] = q.list[k]
    BY ONLY <2>1, <1>4 DEF TimerQ
  <2>3. r = [q EXCEPT !.list = L]
    BY ONLY <2>1, <1>5 DEF TimerQ
  <2> HIDE DEF L
  <2> QED
    BY ONLY <2>1, <2>2, <2>3 DEF TimerQ
<1>7. \A k \in Kinds : SortedBy(tn, r.list[k])
  BY <1>3, <1>4, <1>6
<1>8. Rng(r.list["abs"]) \cap Rng(r.list["rel"]) = {}
  BY <1>0, <1>1, <1>4, <1>6 DEF ListsOK
<1>9. ASSUME NEW x \in Timers
      PROVE  tn[x].pending <=> x \in Rng(r.list["abs"]) \cup Rng(r.list["rel"])
  <2>1. CASE x = o
    BY <2>1, <1>0, <1>4, <1>6
  <2>2. CASE x # o
    <3>1. tn[x] = tm[x]
      BY <2>2
    <3> QED
      BY <3>1, <2>2, <1>0, <1>4, <1>6 DEF ListsOK
  <2> QED
    BY <2>1, <2>2
<1>10. ListsOK(tn, r)
  BY <1>7, <1>8, <1>9 DEF ListsOK
<1> QED
  BY <1>4, <1>6, <1>10

(* tp_timerqueue_unlock keeps the invariant. *)
LEMMA TimerUnlockKeeps ==
  ASSUME TimerInv, program' = program, now' = now,
         NEW S \in SUBSET Timers, tp_timerqueue_unlock(S)
  PROVE  TimerInv'
<1> DEFINE locked == {o \in S : timer[o].initialized}
           tm == [o \in Timers |-> IF o \in S THEN NoTimer ELSE timer[o]]
           q == [timerq EXCEPT !.objcount = @ - Cardinality(locked),
                   !.list = [k \in Kinds |-> Without(timerq.list[k], S)]]
           p == IF locked # {} /\ q.objcount = 0 THEN update_timers(q, tm) ELSE q
<1>0. /\ now \in Nat /\ timer \in [Timers -> TimerRec] /\ timerq \in TimerQ
      /\ ListsOK(timer, timerq) /\ CountOK(timer, timerq)
      /\ \A x \in Timers : timer[x].window \in UsedWindows
  BY DEF TimerInv
<1>1. timer' = tm /\ timerq' = p
  BY DEF tp_timerqueue_unlock
<1>2. /\ tm \in [Timers -> TimerRec]
      /\ \A x \in Timers \ S : tm[x] = timer[x]
      /\ \A x \in S : tm[x].initialized = FALSE /\ tm[x].pending = FALSE /\ tm[x].window = 0
  BY <1>0 DEF TimerRec, NoTimer
<1> HIDE DEF tm
<1>3. /\ Cardinality(Initialized(tm)) = Cardinality(Initialized(timer)) - Cardinality(locked)
      /\ Cardinality(Initialized(tm)) \in Nat
  <2>1. Initialized(tm) = Initialized(timer) \ locked /\ locked = Initialized(timer) \cap locked
    BY <1>2 DEF Initialized
  <2>2. IsFiniteSet(Initialized(timer)) /\ IsFiniteSet(Initialized(tm))
    BY TimersFinite, FS_Subset DEF Initialized
  <2> HIDE DEF locked
  <2>3. Cardinality(Initialized(timer) \ locked)
          = Cardinality(Initialized(timer)) - Cardinality(Initialized(timer) \cap locked)
    BY <2>2, FS_Difference
  <2> QED
    BY <2>1, <2>2, <2>3, FS_CardinalityType
<1>4. \A k \in Kinds : Without(timerq.list[k], S) \in Seq(Timers)
  BY <1>0, WithoutIs DEF TimerQ
<1>5. q.objcount = Cardinality(Initialized(tm)) /\ q.objcount \in Nat
  BY <1>0, <1>3 DEF CountOK, TimerQ
<1>6. /\ q \in TimerQ /\ q.thread = timerq.thread /\ q.due = timerq.due
      /\ \A k \in Kinds : q.list[k] = Without(timerq.list[k], S)
  BY <1>0, <1>4, <1>5 DEF TimerQ
<1> HIDE DEF q
<1>7. /\ ListsOK(tm, q)
      /\ \A k \in Kinds : q.list[k] # <<>> =>
           timerq.list[k] # <<>> /\ timer[timerq.list[k][1]].timeout <= tm[q.list[k][1]].timeout
  <2>1. TakenOff(timer, timerq, S, tm, q)
    BY <1>0, <1>2, <1>6 DEF TakenOff
  <2> QED
    BY <1>0, <2>1, ListsLess
<1>8. CountOK(tm, q)
  <2>1. \A x \in Timers : tm[x].pending => tm[x].initialized
    BY <1>0, <1>2 DEF CountOK
  <2>2. q.objcount > 0 => timerq.objcount > 0
    <3>1. Cardinality(locked) \in Nat
      BY TimersFinite, FS_Subset, FS_CardinalityType
    <3> QED
      BY <1>0, <1>3, <1>5, <3>1 DEF CountOK, TimerQ
  <2> QED
    BY <1>0, <1>5, <1>6, <2>1, <2>2 DEF CountOK
<1>9. \A x \in Timers : tm[x].window \in UsedWindows
  BY <1>0, <1>2, UsedWindowsNat
<1>10. q.thread = "wait" => DueOK(tm, q)
  <2>1. TakenOff(timer, timerq, S, tm, q)
    BY <1>0, <1>2, <1>6 DEF TakenOff
  <2> QED
    BY <1>0, <1>6, <2>1, DueLess DEF TimerInv
<1>11. CASE p = q
  BY <1>0, <1>1, <1>2, <1>6, <1>7, <1>8, <1>9, <1>10, <1>11, TimerInvBecomes
<1>12. CASE p = update_timers(q, tm) /\ q.objcount = 0
  <2>1. \A k \in Kinds : q.list[k] = <<>>
    BY <1>2, <1>6, <1>7, <1>8, <1>12, NoneArmed
  <2>2. \A k \in Kinds : SortedBy(tm, q.list[k])
    BY <1>7 DEF ListsOK
  <2>3. "rel" \in Kinds
    BY DEF Kinds
  <2>4. /\ p \in TimerQ /\ p.list = q.list /\ p.objcount = q.objcount /\ p.thread = q.thread
        /\ DueOK(tm, p)
    BY <1>0, <1>2, <1>6, <1>9, <1>12, <2>1, <2>2, <2>3, UpdateIs
  <2> HIDE DEF p
  <2>5. ListsOK(tm, p) /\ CountOK(tm, p)
    BY <1>7, <1>8, <2>4 DEF ListsOK, CountOK
  <2> QED
    BY <1>0, <1>1, <1>2, <1>9, <2>4, <2>5, TimerInvBecomes
<1> QED
  BY <1>11, <1>12

(* TpSetTimerEx keeps the invariant. *)
LEMMA TimerSetKeeps ==
  ASSUME TimerInv, program' = program, now' = now,
         NEW o \in Timers, NEW at \in Timeouts, NEW period \in Nat, NEW window \in UsedWindows,
         TpSetTimerEx(o, at, period, window)
  PROVE  TimerInv'
<1> DEFINE kind == IF at[1] = "abs" THEN "abs" ELSE "rel"
           when == CASE at[1] = "abs" -> at[2] [] at[1] = "rel" -> now + at[2]
                     [] OTHER -> now + period
           arm == at[1] \in Kinds \/ (at[1] = "zero" /\ period > 0)
           tm == [timer EXCEPT ![o].set = at[1] # "null", ![o].pending = arm,
                    ![o].timeout = IF arm THEN when ELSE @, ![o].period = IF arm THEN period ELSE @,
                    ![o].window = IF arm THEN window ELSE @]
           off == [timerq EXCEPT !.list = [k \in Kinds |-> Without(timerq.list[k], {o})]]
           on == [off EXCEPT !.list[kind] = Inserted(@, o, tm)]
           mid == [timer EXCEPT ![o].pending = FALSE]
<1>0. /\ now \in Nat /\ timer \in [Timers -> TimerRec] /\ timerq \in TimerQ
      /\ ListsOK(timer, timerq) /\ CountOK(timer, timerq)
      /\ \A x \in Timers : timer[x].window \in UsedWindows
      /\ timerq.thread = "wait" => DueOK(timer, timerq)
  BY DEF TimerInv
<1>1. /\ timer[o].initialized = TRUE /\ timer' = tm
      /\ timerq' = IF ~arm THEN off ELSE IF Head(on.list[kind]) = o THEN update_timers(on, tm) ELSE on
  <2>1. timer[o].initialized \in BOOLEAN
    BY <1>0 DEF TimerRec
  <2> QED
    BY <2>1 DEF TpSetTimerEx
<1>2. kind \in Kinds
  BY DEF Kinds
<1>3. when \in Nat /\ arm \in BOOLEAN /\ (at[1] # "null") \in BOOLEAN
  <2>1. at \in Kinds \X Nat \/ at = <<"zero", 0>> \/ at = <<"null", 0>>
    BY CallsOfPrograms
  <2>2. CASE at \in Kinds \X Nat
    <3>1. (at[1] = "abs" \/ at[1] = "rel") /\ at[2] \in Nat
      BY <2>2 DEF Kinds
    <3> QED
      BY <3>1, <1>0
  <2>3. CASE at = <<"zero", 0>> \/ at = <<"null", 0>>
    <3>1. at[1] # "abs" /\ at[1] # "rel"
      BY <2>3
    <3>2. when = now + period
      BY <3>1
    <3> QED
      BY <3>2, <1>0
  <2> QED
    BY <2>1, <2>2, <2>3
<1> HIDE DEF kind, when, arm
<1>4. window \in Nat
  BY UsedWindowsNat
<1>5. /\ tm \in [Timers -> TimerRec] /\ tm[o].pending = arm /\ tm[o].initialized = TRUE
      /\ tm[o].window \in UsedWindows
      /\ \A x \in Timers \ {o} : tm[x] = timer[x]
  <2> DEFINE rec == [initialized |-> TRUE, pending |-> arm, set |-> at[1] # "null",
                     timeout |-> IF arm THEN when ELSE timer[o].timeout,
                     period |-> IF arm THEN period ELSE timer[o].period,
                     window |-> IF arm THEN window ELSE timer[o].window]
  <2>0. timer[o] \in TimerRec
    BY <1>0
  <2>1. tm[o] = rec
    BY <1>0, <1>1, <2>0 DEF TimerRec
  <2>2. rec \in TimerRec /\ rec.pending = arm /\ rec.initialized = TRUE /\ rec.window \in UsedWindows
    BY <1>0, <1>3, <1>4, <2>0 DEF TimerRec
  <2>3. \A x \in Timers \ {o} : tm[x] = timer[x]
    BY <1>0
  <2>4. DOMAIN tm = Timers /\ tm = [x \in Timers |-> tm[x]]
    BY <1>0
  <2> HIDE DEF tm, rec
  <2>5. \A x \in Timers : tm[x] \in TimerRec
    BY <1>0, <2>1, <2>2, <2>3
  <2>6. tm \in [Timers -> TimerRec]
    BY <2>4, <2>5
  <2> QED
    BY <2>1, <2>2, <2>3, <2>6
<1>6. /\ mid \in [Timers -> TimerRec] /\ mid[o].pending = FALSE
      /\ \A x \in Timers \ {o} : mid[x] = timer[x]
  BY <1>0 DEF TimerRec
<1>7. \A k \in Kinds : Without(timerq.list[k], {o}) \in Seq(Timers)
  BY <1>0, WithoutIs DEF TimerQ
<1>8. /\ off \in TimerQ /\ off.objcount = timerq.objcount /\ off.thread = timerq.thread
      /\ off.due = timerq.due /\ \A k \in Kinds : off.list[k] = Without(timerq.list[k], {o})
  BY <1>0, <1>7 DEF TimerQ
<1> HIDE DEF tm, mid, off
<1>9. \A x \in Timers : tm[x].window \in UsedWindows
  BY <1>0, <1>5
<1>10. ASSUME NEW q \in TimerQ, q.objcount = timerq.objcount, q.thread = timerq.thread
       PROVE  CountOK(tm, q)
  <2>1. Initialized(tm) = Initialized(timer)
    BY <1>1, <1>5 DEF Initialized
  <2>2. \A x \in Timers : tm[x].pending => tm[x].initialized
    BY <1>0, <1>5 DEF CountOK
  <2> QED
    BY <1>0, <1>10, <2>1, <2>2 DEF CountOK
<1>11. CASE ~arm
  <2>1. timerq' = off
    BY <1>1, <1>11
  <2>2. TakenOff(timer, timerq, {o}, tm, off)
    BY <1>0, <1>3, <1>5, <1>8, <1>11 DEF TakenOff
  <2>3. ListsOK(tm, off)
    BY <1>0, <2>2, ListsLess
  <2>4. off.thread = "wait" => DueOK(tm, off)
    BY <1>0, <1>8, <2>2, DueLess
  <2>5. CountOK(tm, off)
    BY <1>8, <1>10
  <2> QED
    BY <1>0, <1>1, <1>5, <1>8, <1>9, <2>1, <2>3, <2>4, <2>5, TimerInvBecomes
<1>12. CASE arm
  <2>1. TakenOff(timer, timerq, {o}, mid, off)
    BY <1>0, <1>6, <1>8 DEF TakenOff
  <2>2. ListsOK(mid, off)
    BY <1>0, <2>1, ListsLess
  <2>3. off.thread = "wait" => DueOK(mid, off)
    BY <1>0, <1>8, <2>1, DueLess
  <2>4. TakenOn(mid, off, o, kind, tm, on)
    BY <1>2, <1>5, <1>6, <1>8, <1>12 DEF TakenOn
  <2> HIDE DEF on
  <2>5. /\ on \in TimerQ /\ ListsOK(tm, on)
        /\ on.objcount = off.objcount /\ on.thread = off.thread /\ on.due = off.due
        /\ on.list[kind] # <<>>
        /\ on.list[kind][1] = o \/ (off.list[kind] # <<>> /\ on.list[kind][1] = off.list[kind][1])
        /\ \A k \in Kinds \ {kind} : on.list[k] = off.list[k]
    BY <2>2, <2>4, ListsMore
  <2>6. CountOK(tm, on)
    BY <1>8, <1>10, <2>5
  <2>7. Head(on.list[kind]) = on.list[kind][1]
    BY <1>2, <1>5, <2>5, HeadsArmed
  <2>8. CASE Head(on.list[kind]) = o
    <3> DEFINE u == update_timers(on, tm)
    <3>1. timerq' = u
      BY <1>1, <1>12, <2>8
    <3>2. on.objcount = 0 => on.list["rel"] = <<>>
      BY <1>5, <2>5, <2>6, NoneArmed DEF Kinds
    <3>3. \A k \in Kinds : SortedBy(tm, on.list[k])
      BY <2>5 DEF ListsOK
    <3>4. /\ u \in TimerQ /\ u.list = on.list /\ u.objcount = on.objcount /\ u.thread = on.thread
          /\ DueOK(tm, u)
      BY <1>0, <1>5, <1>9, <2>5, <3>2, <3>3, UpdateIs
    <3> HIDE DEF u
    <3>5. ListsOK(tm, u) /\ CountOK(tm, u)
      BY <2>5, <2>6, <3>4 DEF ListsOK, CountOK
    <3> QED
      BY <1>0, <1>1, <1>5, <1>9, <3>1, <3>4, <3>5, TimerInvBecomes
  <2>9. CASE Head(on.list[kind]) # o
    <3>1. timerq' = on
      BY <1>1, <1>12, <2>9
    <3>2. ASSUME on.thread = "wait" PROVE DueOK(tm, on)
      <4>1. DueOK(mid, off)
        BY <2>3, <2>5, <3>2
      <4>2. \A k \in Kinds : on.list[k] # <<>> =>
              off.list[k] # <<>> /\ on.list[k][1] = off.list[k][1]
        BY <2>5, <2>7, <2>9
      <4>3. \A k \in Kinds : off.list[k] # <<>> =>
              /\ off.list[k][1] \in Timers /\ off.list[k][1] # o
        BY <1>6, <1>8, <2>2, HeadsArmed
      <4>4. \A k \in Kinds : off.list[k] # <<>> => tm[off.list[k][1]] = mid[off.list[k][1]]
        BY <1>5, <1>6, <4>3
      <4> QED
        BY <2>5, <4>1, <4>2, <4>4 DEF DueOK
    <3> QED
      BY <1>0, <1>1, <1>5, <1>9, <2>5, <2>6, <3>1, <3>2, TimerInvBecomes
  <2> QED
    BY <2>8, <2>9
<1> QED
  BY <1>11, <1>12

(* Where the expired timer is. *)
LEMMA ExpiredIs ==
  ASSUME TimerInv, AnyExpired
  PROVE  /\ ExpiredKind \in Kinds /\ timerq.list[ExpiredKind] # <<>>
         /\ ExpiredTimer \in Timers /\ timer[ExpiredTimer].pending
         /\ ExpiredTimer = timerq.list[ExpiredKind][1]
         /\ timer[ExpiredTimer].timeout <= now
<1>1. ExpiredKind \in Kinds /\ Expired(ExpiredKind)
  BY DEF AnyExpired, ExpiredKind, Kinds
<1>2. timerq.list[ExpiredKind] # <<>> /\ timer[Head(timerq.list[ExpiredKind])].timeout <= now
  BY <1>1 DEF Expired
<1>3. timer \in [Timers -> TimerRec] /\ timerq \in TimerQ /\ ListsOK(timer, timerq)
  BY DEF TimerInv
<1>4. /\ timerq.list[ExpiredKind][1] \in Timers /\ timer[timerq.list[ExpiredKind][1]].pending
      /\ Head(timerq.list[ExpiredKind]) = timerq.list[ExpiredKind][1]
  BY <1>1, <1>2, <1>3, HeadsArmed
<1> QED
  BY <1>1, <1>2, <1>4 DEF ExpiredTimer

(* submit_expired_timers keeps the invariant. *)
LEMMA TimerExpiryKeeps ==
  ASSUME TimerInv, program' = program, now' = now,
         NEW shut \in BOOLEAN, submit_expired_timers(shut)
  PROVE  TimerInv'
<1> DEFINE o == ExpiredTimer
           kind == ExpiredKind
           again == timer[o].period > 0 /\ ~shut
           base == IF kind = "abs" THEN now ELSE timer[o].timeout
           next == IF base + timer[o].period > now THEN base + timer[o].period ELSE now + 1
           tm == [timer EXCEPT ![o].pending = again, ![o].timeout = IF again THEN next ELSE @]
           q == [timerq EXCEPT !.list[kind] = Tail(@)]
           on == [q EXCEPT !.list["rel"] = Inserted(@, o, tm)]
           mid == [timer EXCEPT ![o].pending = FALSE]
<1>0. /\ now \in Nat /\ timer \in [Timers -> TimerRec] /\ timerq \in TimerQ
      /\ ListsOK(timer, timerq) /\ CountOK(timer, timerq)
      /\ \A x \in Timers : timer[x].window \in UsedWindows
  BY DEF TimerInv
<1>1. /\ timerq.thread = "scan" /\ AnyExpired /\ timer' = tm
      /\ timerq' = IF again THEN on ELSE q
  BY DEF submit_expired_timers
<1>2. /\ kind \in Kinds /\ timerq.list[kind] # <<>> /\ o \in Timers /\ timer[o].pending
      /\ o = timerq.list[kind][1]
  BY <1>1, ExpiredIs
<1>3. timer[o] \in TimerRec
  BY <1>0, <1>2
<1>4. next \in Nat /\ again \in BOOLEAN
  <2>1. timer[o].timeout \in Nat /\ timer[o].period \in Nat
    BY <1>3 DEF TimerRec
  <2> QED
    BY <1>0, <2>1
<1>5. timer[o].initialized = TRUE
  BY <1>0, <1>2, <1>3 DEF CountOK, TimerRec
<1> HIDE DEF o, kind, next, again
<1>6. /\ tm \in [Timers -> TimerRec] /\ tm[o].pending = again /\ tm[o].initialized = TRUE
      /\ tm[o].window = timer[o].window
      /\ \A x \in Timers \ {o} : tm[x] = timer[x]
  BY <1>0, <1>2, <1>3, <1>4, <1>5 DEF TimerRec
<1>7. /\ mid \in [Timers -> TimerRec] /\ mid[o].pending = FALSE
      /\ \A x \in Timers \ {o} : mid[x] = timer[x]
  BY <1>0, <1>2 DEF TimerRec
<1> HIDE DEF tm, mid
<1>8. \A k \in Kinds : timerq.list[k] \in Seq(Timers) /\ SortedBy(timer, timerq.list[k])
  BY <1>0 DEF TimerQ, ListsOK
<1> DEFINE l == Tail(timerq.list[kind])
<1>9. /\ l \in Seq(Timers) /\ Len(l) = Len(timerq.list[kind]) - 1 /\ Len(timerq.list[kind]) \in Nat
      /\ \A i \in 1..Len(l) : l[i] = timerq.list[kind][i+1]
      /\ Rng(timerq.list[kind]) = {o} \cup Rng(l)
      /\ Once(timerq.list[kind]) => Once(l) /\ o \notin Rng(l)
  BY <1>2, <1>8, TailIs
<1>10. Once(timerq.list[kind])
  <2>1. \A i, j \in 1..Len(timerq.list[kind]) : i < j => timerq.list[kind][i] # timerq.list[kind][j]
    BY <1>2, <1>8 DEF SortedBy
  <2>2. \A i, j \in 1..Len(timerq.list[kind]) : i < j \/ j < i \/ i = j
    BY <1>9
  <2> QED
    BY <2>1, <2>2 DEF Once
<1>11. SortedBy(timer, l)
  <2> SUFFICES ASSUME NEW i \in 1..Len(l), NEW j \in 1..Len(l), i < j
               PROVE  l[i] # l[j] /\ timer[l[i]].timeout <= timer[l[j]].timeout
    BY DEF SortedBy
  <2>1. i + 1 \in 1..Len(timerq.list[kind]) /\ j + 1 \in 1..Len(timerq.list[kind]) /\ i + 1 < j + 1
    BY <1>9
  <2> QED
    BY <2>1, <1>2, <1>8, <1>9 DEF SortedBy
<1> HIDE DEF l
<1>12. /\ q \in TimerQ /\ q.objcount = timerq.objcount /\ q.thread = timerq.thread
       /\ q.list[kind] = l /\ \A k \in Kinds \ {kind} : q.list[k] = timerq.list[k]
  BY <1>0, <1>2, <1>9 DEF TimerQ, l
<1>13. ASSUME NEW tn \in [Timers -> TimerRec], tn[o].pending = FALSE,
              \A x \in Timers \ {o} : tn[x] = timer[x]
       PROVE  ListsOK(tn, q)
  <2>0. "abs" \in Kinds /\ "rel" \in Kinds /\ Kinds = {"abs", "rel"}
    BY DEF Kinds
  <2>1. \A k \in Kinds : q.list[k] \in Seq(Timers) /\ SortedBy(timer, q.list[k])
    BY <1>8, <1>9, <1>11, <1>12
  <2>2. \A k \in Kinds : Rng(q.list[k]) = Rng(timerq.list[k]) \ {o}
    <3>1. \A k \in Kinds \ {kind} : o \notin Rng(timerq.list[k])
      <4>1. o \in Rng(timerq.list[kind])
        BY <1>9
      <4> QED
        BY <4>1, <2>0, <1>0, <1>2 DEF ListsOK
    <3>2. Rng(q.list[kind]) = Rng(timerq.list[kind]) \ {o}
      BY <1>9, <1>10, <1>12
    <3>3. \A k \in Kinds \ {kind} : Rng(q.list[k]) = Rng(timerq.list[k])
      BY <1>12
    <3> QED
      BY <3>1, <3>2, <3>3
  <2>3. \A k \in Kinds : Rng(timerq.list[k]) \subseteq Timers
    BY <1>8, RngIs
  <2>4. \A k \in Kinds : \A x \in Rng(q.list[k]) : tn[x].timeout = timer[x].timeout
    BY <1>13, <2>2, <2>3
  <2>5. \A k \in Kinds : SortedBy(tn, q.list[k])
    BY <2>1, <2>4, SortedSame
  <2>6. Rng(q.list["abs"]) \cap Rng(q.list["rel"]) = {}
    BY <2>0, <2>2, <1>0 DEF ListsOK
  <2>7. ASSUME NEW x \in Timers
        PROVE  tn[x].pending <=> x \in Rng(q.list["abs"]) \cup Rng(q.list["rel"])
    <3>1. CASE x = o
      BY <3>1, <1>13, <2>0, <2>2
    <3>2. CASE x # o
      <4>1. tn[x] = timer[x]
        BY <3>2, <1>13
      <4> QED
        BY <4>1, <3>2, <2>0, <2>2, <1>0 DEF ListsOK
    <3> QED
      BY <3>1, <3>2
  <2> QED
    BY <2>5, <2>6, <2>7 DEF ListsOK
<1>14. ASSUME NEW r \in TimerQ, r.objcount = timerq.objcount, r.thread = timerq.thread
       PROVE  CountOK(tm, r)
  <2>1. Initialized(tm) = Initialized(timer)
    BY <1>5, <1>6 DEF Initialized
  <2>2. \A x \in Timers : tm[x].pending => tm[x].initialized
    BY <1>0, <1>6 DEF CountOK
  <2> QED
    BY <1>0, <1>14, <2>1, <2>2 DEF CountOK
<1>15. \A x \in Timers : tm[x].window \in UsedWindows
  BY <1>0, <1>2, <1>6
<1> HIDE DEF q
<1>16. CASE ~again
  <2>1. ListsOK(tm, q)
    BY <1>4, <1>6, <1>13, <1>16
  <2>2. CountOK(tm, q) /\ timerq' = q /\ q.thread # "wait"
    BY <1>1, <1>12, <1>14, <1>16
  <2> QED
    BY <1>0, <1>1, <1>6, <1>12, <1>15, <2>1, <2>2, TimerInvBecomes
<1>17. CASE again
  <2>1. ListsOK(mid, q)
    BY <1>7, <1>13
  <2>2. TakenOn(mid, q, o, "rel", tm, on)
    BY <1>2, <1>6, <1>7, <1>12, <1>17 DEF TakenOn, Kinds
  <2> HIDE DEF on
  <2>3. /\ on \in TimerQ /\ ListsOK(tm, on)
        /\ on.objcount = q.objcount /\ on.thread = q.thread
    BY <2>1, <2>2, ListsMore
  <2>4. CountOK(tm, on) /\ timerq' = on /\ on.thread # "wait"
    BY <1>1, <1>12, <1>14, <1>17, <2>3
  <2> QED
    BY <1>0, <1>1, <1>6, <1>15, <2>3, <2>4, TimerInvBecomes
<1> QED
  BY <1>16, <1>17

(* The steps of the thread itself keep the invariant. *)
LEMMA TimerThreadKeeps ==
  ASSUME TimerInv, program' = program, now' = now,
         TimerThreadWaits \/ TimerThreadWakes \/ TimerThreadEnters
  PROVE  TimerInv'
<1>0. /\ now \in Nat /\ timer \in [Timers -> TimerRec] /\ timerq \in TimerQ
      /\ ListsOK(timer, timerq) /\ CountOK(timer, timerq)
      /\ \A x \in Timers : timer[x].window \in UsedWindows
  BY DEF TimerInv
<1>1. CASE TimerThreadWaits
  <2> DEFINE u == update_timers(timerq, timer)
             q == [u EXCEPT !.thread = "wait"]
  <2>1. timerq.thread = "scan" /\ timerq' = q /\ timer' = timer
    BY <1>1 DEF TimerThreadWaits
  <2>2. timerq.objcount = 0 => timerq.list["rel"] = <<>>
    BY <1>0, NoneArmed DEF Kinds
  <2>3. \A k \in Kinds : SortedBy(timer, timerq.list[k])
    BY <1>0 DEF ListsOK
  <2>4. /\ u \in TimerQ /\ u.list = timerq.list /\ u.objcount = timerq.objcount
        /\ DueOK(timer, u)
    BY <1>0, <2>2, <2>3, UpdateIs
  <2> HIDE DEF u
  <2>5. q \in TimerQ /\ q.list = u.list /\ q.objcount = u.objcount /\ q.due = u.due /\ q.thread = "wait"
    BY <2>4 DEF TimerQ
  <2> HIDE DEF q
  <2>6. ListsOK(timer, q) /\ CountOK(timer, q)
    BY <1>0, <2>4, <2>5 DEF ListsOK, CountOK
  <2>7. DueOK(timer, q)
    BY <2>4, <2>5 DEF DueOK
  <2> QED
    BY <1>0, <2>1, <2>5, <2>6, <2>7, TimerInvBecomes
<1>2. CASE TimerThreadWakes \/ (TimerThreadEnters /\ timerq' = [timerq EXCEPT !.thread = "scan"])
  <2>1. PICK c \in {"woken", "scan"} : timerq' = [timerq EXCEPT !.thread = c] /\ timer' = timer
    BY <1>2 DEF TimerThreadWakes, TimerThreadEnters
  <2> DEFINE q == [timerq EXCEPT !.thread = c]
  <2>2. /\ q \in TimerQ /\ q.list = timerq.list /\ q.objcount = timerq.objcount
        /\ q.thread # "wait" /\ q.thread # "none"
    BY <1>0 DEF TimerQ
  <2> HIDE DEF q
  <2>3. ListsOK(timer, q) /\ CountOK(timer, q)
    BY <1>0, <2>2 DEF ListsOK, CountOK
  <2>4. timerq' = q
    BY <2>1 DEF q
  <2> QED
    BY <1>0, <2>1, <2>2, <2>3, <2>4, TimerInvBecomes
<1>3. CASE TimerThreadEnters /\ timerq.objcount = 0 /\ timerq' = NoQueue
  <2>1. \A k \in Kinds : timerq.list[k] = <<>>
    BY <1>0, <1>3, NoneArmed
  <2>2. /\ NoQueue \in TimerQ /\ NoQueue.objcount = 0 /\ NoQueue.thread = "none"
        /\ \A k \in Kinds : NoQueue.list[k] = <<>>
    BY TimeIsBounded DEF NoQueue, TimerQ, Never
  <2>3. NoQueue.list = timerq.list
    BY <1>0, <2>1, <2>2 DEF NoQueue, TimerQ
  <2>4. ListsOK(timer, NoQueue) /\ CountOK(timer, NoQueue)
    BY <1>0, <1>3, <2>2, <2>3 DEF ListsOK, CountOK
  <2>5. timer' = timer
    BY <1>3 DEF TimerThreadEnters
  <2> QED
    BY <1>0, <1>3, <2>2, <2>4, <2>5, TimerInvBecomes
<1> QED
  BY <1>1, <1>2, <1>3 DEF TimerThreadEnters

(* Whatever happens to the timer queue keeps the invariant. *)
LEMMA TimerStepKeeps ==
  ASSUME TimerInv, program' = program, TimerStep
  PROVE  TimerInv'
<1>1. CASE UNCHANGED timerVars /\ now' \in {now, now + 1}
  BY <1>1, TimerInvBecomes DEF TimerInv, timerVars
<1> QED
  BY <1>1, TimerLockKeeps, TimerUnlockKeeps, TimerSetKeeps, TimerExpiryKeeps, TimerThreadKeeps
     DEF TimerStep

(* The queue starts empty. *)
LEMMA TimerInitInv == TimerInit /\ now = 0 => TimerInv
<1> SUFFICES ASSUME TimerInit, now = 0 PROVE TimerInv
  OBVIOUS
<1>1. timer \in [Timers -> TimerRec] /\ \A o \in Timers : timer[o] = NoTimer
  BY DEF TimerInit, NoTimer, TimerRec
<1>2. /\ timerq \in TimerQ /\ timerq.objcount = 0 /\ timerq.thread = "none"
      /\ \A k \in Kinds : timerq.list[k] = <<>>
  BY TimeIsBounded DEF TimerInit, NoQueue, TimerQ, Never
<1>3. ListsOK(timer, timerq)
  <2>1. Rng(<<>>) = {} /\ Len(<<>>) = 0
    BY DEF Rng
  <2>2. "abs" \in Kinds /\ "rel" \in Kinds
    BY DEF Kinds
  <2> QED
    BY <1>1, <1>2, <2>1, <2>2 DEF ListsOK, NoTimer, SortedBy
<1>4. CountOK(timer, timerq)
  <2>1. Initialized(timer) = {}
    BY <1>1 DEF Initialized, NoTimer
  <2> QED
    BY <1>1, <1>2, <2>1, FS_EmptySet DEF CountOK, NoTimer
<1> QED
  BY <1>1, <1>2, <1>3, <1>4, UsedWindowsNat DEF TimerInv, NoTimer

(* What the runs check of the timer queue follows. *)
LEMMA TimerInvGives ==
  ASSUME TimerInv
  PROVE  TimerTypeOK /\ TimerListsSound /\ NoTimerMissed
<1>0. /\ now \in Nat /\ timer \in [Timers -> TimerRec] /\ timerq \in TimerQ
      /\ ListsOK(timer, timerq) /\ CountOK(timer, timerq)
      /\ \A x \in Timers : timer[x].window \in UsedWindows
      /\ timerq.thread = "wait" => DueOK(timer, timerq)
      /\ "abs" \in Kinds /\ "rel" \in Kinds
  BY DEF TimerInv, Kinds
<1>1. TimerTypeOK
  BY <1>0 DEF TimerTypeOK, TimerRec, TimerQ
<1>2. \A k \in Kinds : /\ timerq.list[k] \in Seq(Timers) /\ SortedBy(timer, timerq.list[k])
                       /\ DOMAIN timerq.list[k] = 1..Len(timerq.list[k])
                       /\ Armed(k) = Rng(timerq.list[k])
  <2>1. \A k \in Kinds : timerq.list[k] \in Seq(Timers) /\ SortedBy(timer, timerq.list[k])
    BY <1>0 DEF TimerQ, ListsOK
  <2> QED
    BY <2>1, RngIs DEF Armed
<1>3. TimerListsSound
  <2>1. \A k \in Kinds : \A i, j \in DOMAIN timerq.list[k] :
          i < j => /\ timerq.list[k][i] # timerq.list[k][j]
                   /\ timer[timerq.list[k][i]].timeout <= timer[timerq.list[k][j]].timeout
    BY <1>2 DEF SortedBy
  <2>2. Armed("abs") \cap Armed("rel") = {}
    BY <1>0, <1>2 DEF ListsOK
  <2>3. {o \in Timers : timer[o].pending} = Armed("abs") \cup Armed("rel")
    <3>1. Rng(timerq.list["abs"]) \subseteq Timers /\ Rng(timerq.list["rel"]) \subseteq Timers
      BY <1>0, <1>2, RngIs
    <3> QED
      BY <1>0, <1>2, <3>1 DEF ListsOK
  <2> QED
    BY <2>1, <2>2, <2>3 DEF TimerListsSound
<1>4. TimerThreadServes
  BY <1>0 DEF CountOK, TimerThreadServes
<1>5. WindowsKept
  <2> SUFFICES ASSUME NEW k \in Kinds, NEW o \in Armed(k)
               PROVE  get_next_timeout(timerq.list[k], timer) <= timer[o].timeout + timer[o].window
    BY DEF WindowsKept
  <2>1. timerq.list[k] # <<>> /\ o \in Rng(timerq.list[k])
    BY <1>2, RngIs
  <2> QED
    BY <1>0, <1>2, <2>1, NextTimeoutKept
<1>6. WakesInTime(UsedWindows)
  <2> SUFFICES ASSUME timerq.thread = "wait", NEW k \in Kinds, NEW o \in Armed(k),
                      ~(timerq.due[k] <= now)
               PROVE  \E n \in UsedWindows : timerq.due[k] <= timer[o].timeout + n
    BY DEF WakesInTime
  <2>1. timerq.list[k] # <<>> /\ o \in Rng(timerq.list[k])
    BY <1>2, RngIs
  <2>2. PICK n \in UsedWindows : timerq.due[k] <= timer[timerq.list[k][1]].timeout + n
    BY <1>0, <2>1 DEF DueOK
  <2>3. PICK i \in 1..Len(timerq.list[k]) : o = timerq.list[k][i]
    BY <2>1 DEF Rng
  <2>4. 1 \in 1..Len(timerq.list[k]) /\ (i = 1 \/ 1 < i)
    BY <2>3
  <2>5. /\ timer[timerq.list[k][1]].timeout \in Nat /\ timer[o].timeout \in Nat
        /\ n \in Nat /\ timerq.due[k] \in Nat
    BY <1>0, <1>2, <2>3, <2>4, ElementOfSeq, UsedWindowsNat DEF TimerRec, TimerQ
  <2>6. timer[timerq.list[k][1]].timeout <= timer[o].timeout
    BY <1>2, <2>3, <2>4, <2>5 DEF SortedBy
  <2>7. \A a, b, c, d \in Nat : a <= b + c /\ b <= d => a <= d + c
    OBVIOUS
  <2>8. timerq.due[k] <= timer[o].timeout + n
    BY ONLY <2>2, <2>5, <2>6, <2>7
  <2> QED
    BY <2>8
<1> QED
  BY <1>1, <1>3, <1>4, <1>5, <1>6 DEF NoTimerMissed

-----------------------------------------------------------------------------
(* The wait queue.  What holds of a bucket b is stated for what it has      *)
(* become, c, and for what the wait objects have become, wt.                *)

WaitRec == [bucket : Buckets \cup {NoBucket}, pending : BOOLEAN, timeout : Nat,
            handle : {NoBucket}, duped : Handles \cup {NoBucket}, serial : Nat]
BucketRec == [pc : {"none", "start", "scan", "linger", "block", "back", "late", "drop"},
              objcount : 0..MaxInBucket, reserved : Seq(Waits), waiting : Seq(Waits),
              update : BOOLEAN, held : Seq(HeldRecord), hit : Nat]

(* Its lists are those of the wait objects that name it. *)
ListPart(b, c, wt) ==
    /\ Once(c.reserved) /\ Once(c.waiting)
    /\ \A o \in Waits : o \in Rng(c.reserved) <=> (wt[o].bucket = b /\ wt[o].pending = FALSE)
    /\ \A o \in Waits : o \in Rng(c.waiting) <=> (wt[o].bucket = b /\ wt[o].pending = TRUE)
    /\ c.objcount = Len(c.reserved) + Len(c.waiting)

(* What its thread holds and was woken for; an object stays in the bucket   *)
(* whose thread holds it, unless it is shut down.                           *)
ThreadPart(b, c, wt) ==
    /\ c.pc = "none" => c.objcount = 0
    /\ c.pc # "back" => c.hit = 0
    /\ c.hit <= Len(c.held) /\ Len(c.held) <= MaxInBucket
    /\ c.pc \in {"none", "start", "scan", "linger", "late"} => c.held = <<>>
    /\ \A i \in 1..Len(c.held) : wt[c.held[i].obj].bucket \in {b, NoBucket}

Watched(wt, o) == [obj |-> o, handle |-> wt[o].duped, serial |-> wt[o].serial,
                   timeout |-> wt[o].timeout]

(* What it blocks on is what is on its waiting list. *)
NotStale(c, wt) ==
    c.pc = "block" /\ c.update = FALSE =>
      /\ Len(c.held) = Len(c.waiting)
      /\ \A i \in 1..Len(c.held) : c.held[i] = Watched(wt, c.waiting[i])

BucketOK(b, c, wt) ==
    c \in BucketRec /\ ListPart(b, c, wt) /\ ThreadPart(b, c, wt) /\ NotStale(c, wt)

WaitsOK(wt) ==
    /\ wt \in [Waits -> WaitRec]
    /\ \A o \in Waits : wt[o].pending => wt[o].duped \in Handles

WaitInv ==
    /\ WaitsOK(wait) /\ buckets \in Seq(Buckets)
    /\ event \in [Handles -> [set : BOOLEAN, sent : Nat]]
    /\ bucket \in [Buckets -> BucketRec]
    /\ \A b \in Buckets : BucketOK(b, bucket[b], wait)
    /\ \A b \in Buckets : (bucket[b].pc = "none") <=> (b \notin Rng(buckets))

(* No bucket's thread holds o. *)
NotHeld(o) == \A b \in Buckets : \A i \in 1..Len(bucket[b].held) : bucket[b].held[i].obj # o

(* The steps of the pool, as far as the wait queue sees them. *)
WaitStep ==
    \/ UNCHANGED waitVars
    \/ \E o \in Waits : wait[o].bucket = NoBucket /\ NotHeld(o) /\ tp_waitqueue_lock(o)
    \/ \E S \in SUBSET Waits : tp_waitqueue_unlock(S)
    \/ \E o \in Waits, h \in Handles \cup {NoBucket}, delay \in Nat : TpSetWaitEx(o, h, delay)
    \/ \E h \in Handles : SetEvent(h)
    \/ \E b \in Buckets : \/ WaitThreadStep(b) \/ WaitElapses(b) \/ WaitThreadBlocks(b)
                          \/ WaitFires(b) \/ WaitThreadDrops(b)

(* The wait objects of a finite process are finitely many. *)
LEMMA WaitsFinite == IsFiniteSet(Waits) /\ Waits \subseteq Objects
  BY PoolConstants, KindsOfObjects, FS_Subset

(* How much shorter a list gets. *)
LEMMA WithoutLen ==
  ASSUME NEW S, NEW s \in Seq(S), Once(s), NEW T
  PROVE  /\ IsFiniteSet(Rng(s) \cap T) /\ Cardinality(Rng(s) \cap T) \in Nat
         /\ Len(s) \in Nat /\ Len(Without(s, T)) \in Nat
         /\ Len(Without(s, T)) + Cardinality(Rng(s) \cap T) = Len(s)
<1>1. Without(s, T) \in Seq(S) /\ Rng(Without(s, T)) = Rng(s) \ T /\ Once(Without(s, T))
  BY WithoutIs
<1>2. IsFiniteSet(Rng(s)) /\ Cardinality(Rng(s)) = Len(s)
  BY OnceCard
<1>3. Cardinality(Rng(s) \ T) = Len(Without(s, T))
  BY <1>1, OnceCard
<1>4. Cardinality(Rng(s) \ T) = Cardinality(Rng(s)) - Cardinality(Rng(s) \cap T)
  BY <1>2, FS_Difference
<1>5. IsFiniteSet(Rng(s) \cap T) /\ Cardinality(Rng(s) \cap T) \in Nat
  BY <1>2, FS_Intersection, FS_CardinalityType
<1>6. Len(s) \in Nat /\ Len(Without(s, T)) \in Nat
  BY <1>1, LenProperties
<1> QED
  BY <1>2, <1>3, <1>4, <1>5, <1>6

(* One entry less. *)
LEMMA WithoutOne ==
  ASSUME NEW S, NEW s \in Seq(S), Once(s), NEW x
  PROVE  /\ Without(s, {x}) \in Seq(S) /\ Once(Without(s, {x}))
         /\ Rng(Without(s, {x})) = Rng(s) \ {x}
         /\ Len(s) \in Nat /\ Len(Without(s, {x})) \in Nat
         /\ x \in Rng(s) => Len(Without(s, {x})) = Len(s) - 1
         /\ x \notin Rng(s) => Len(Without(s, {x})) = Len(s)
<1>1. /\ Without(s, {x}) \in Seq(S) /\ Once(Without(s, {x}))
      /\ Rng(Without(s, {x})) = Rng(s) \ {x}
  BY WithoutIs
<1>2. /\ Len(s) \in Nat /\ Len(Without(s, {x})) \in Nat
      /\ Len(Without(s, {x})) + Cardinality(Rng(s) \cap {x}) = Len(s)
  BY WithoutLen
<1>3. Cardinality(Rng(s) \cap {x}) = IF x \in Rng(s) THEN 1 ELSE 0
  <2>1. CASE x \in Rng(s)
    <3>1. Rng(s) \cap {x} = {x}
      BY <2>1
    <3> QED
      BY <2>1, <3>1, FS_Singleton
  <2>2. CASE x \notin Rng(s)
    <3>1. Rng(s) \cap {x} = {}
      BY <2>2
    <3> QED
      BY <2>2, <3>1, FS_EmptySet
  <2> QED
    BY <2>1, <2>2
<1>4. PICK n \in Nat : n = Len(s)
  BY <1>2
<1>5. PICK m \in Nat : m = Len(Without(s, {x}))
  BY <1>2
<1>6. CASE x \in Rng(s)
  <2>1. Cardinality(Rng(s) \cap {x}) = 1
    BY <1>3, <1>6
  <2>2. m + 1 = n
    BY ONLY <1>2, <1>4, <1>5, <2>1
  <2>3. m = n - 1
    BY ONLY <2>2, <1>4, <1>5
  <2> QED
    BY <1>1, <1>2, <1>4, <1>5, <1>6, <2>3
<1>7. CASE x \notin Rng(s)
  <2>1. Cardinality(Rng(s) \cap {x}) = 0
    BY <1>3, <1>7
  <2>2. m + 0 = n
    BY ONLY <1>2, <1>4, <1>5, <2>1
  <2>3. m = n
    BY ONLY <2>2, <1>4, <1>5
  <2> QED
    BY <1>1, <1>2, <1>4, <1>5, <1>7, <2>3
<1> QED
  BY <1>6, <1>7

(* An entry moved to the tail of a list. *)
Moved(s, x) == Append(Without(s, {x}), x)

(* It is there once, and the others are as before. *)
LEMMA MovedIs ==
  ASSUME NEW S, NEW s \in Seq(S), Once(s), NEW x \in S
  PROVE  /\ Moved(s, x) \in Seq(S) /\ Once(Moved(s, x))
         /\ Rng(Moved(s, x)) = Rng(s) \cup {x}
         /\ Len(s) \in Nat
         /\ x \in Rng(s) => Len(Moved(s, x)) = Len(s)
         /\ x \notin Rng(s) => Len(Moved(s, x)) = Len(s) + 1
<1> DEFINE r == Without(s, {x})
<1>1. /\ r \in Seq(S) /\ Once(r) /\ Rng(r) = Rng(s) \ {x}
      /\ Len(s) \in Nat /\ Len(r) \in Nat
      /\ x \in Rng(s) => Len(r) = Len(s) - 1
      /\ x \notin Rng(s) => Len(r) = Len(s)
  BY WithoutOne
<1> HIDE DEF r
<1>2. /\ Append(r, x) \in Seq(S) /\ Len(Append(r, x)) = Len(r) + 1
      /\ Rng(Append(r, x)) = Rng(r) \cup {x}
      /\ Once(r) /\ x \notin Rng(r) => Once(Append(r, x))
  BY <1>1, AppendIs
<1>3. /\ x \in Rng(s) => Len(Append(r, x)) = Len(s)
      /\ x \notin Rng(s) => Len(Append(r, x)) = Len(s) + 1
  BY <1>1, <1>2
<1> QED
  BY <1>1, <1>2, <1>3 DEF r, Moved

(* o moved to the reserved list of bucket c. *)
LEMMA ToReservedIs ==
  ASSUME NEW c \in BucketRec, Once(c.reserved), Once(c.waiting), NEW o \in Waits
  PROVE  LET d == ToReserved(c, o) IN
         /\ d \in BucketRec /\ d.pc = c.pc /\ d.objcount = c.objcount /\ d.update = c.update
         /\ d.held = c.held /\ d.hit = c.hit
         /\ d.waiting = Without(c.waiting, {o})
         /\ Once(d.reserved) /\ Once(d.waiting)
         /\ Rng(d.reserved) = Rng(c.reserved) \cup {o} /\ Rng(d.waiting) = Rng(c.waiting) \ {o}
         /\ Len(d.reserved) \in Nat /\ Len(d.waiting) \in Nat
         /\ o \in Rng(c.reserved) => Len(d.reserved) = Len(c.reserved)
         /\ o \notin Rng(c.reserved) => Len(d.reserved) = Len(c.reserved) + 1
         /\ o \in Rng(c.waiting) => Len(d.waiting) = Len(c.waiting) - 1
         /\ o \notin Rng(c.waiting) => Len(d.waiting) = Len(c.waiting)
<1> DEFINE d == ToReserved(c, o)
           w == Without(c.waiting, {o})
           r == Append(Without(c.reserved, {o}), o)
<1>1. c.reserved \in Seq(Waits) /\ c.waiting \in Seq(Waits)
  BY DEF BucketRec
<1>2. /\ w \in Seq(Waits) /\ Once(w) /\ Rng(w) = Rng(c.waiting) \ {o} /\ Len(w) \in Nat
      /\ o \in Rng(c.waiting) => Len(w) = Len(c.waiting) - 1
      /\ o \notin Rng(c.waiting) => Len(w) = Len(c.waiting)
  BY <1>1, WithoutOne
<1>3. /\ r \in Seq(Waits) /\ Once(r) /\ Rng(r) = Rng(c.reserved) \cup {o}
      /\ o \in Rng(c.reserved) => Len(r) = Len(c.reserved)
      /\ o \notin Rng(c.reserved) => Len(r) = Len(c.reserved) + 1
  <2>1. c.reserved \in Seq(Waits) /\ Once(c.reserved) /\ o \in Waits
    BY <1>1
  <2>2. PICK s \in Seq(Waits) : s = c.reserved
    BY <2>1
  <2>3. Once(s)
    BY <2>1, <2>2
  <2>4. /\ Moved(s, o) \in Seq(Waits) /\ Once(Moved(s, o)) /\ Rng(Moved(s, o)) = Rng(s) \cup {o}
        /\ o \in Rng(s) => Len(Moved(s, o)) = Len(s)
        /\ o \notin Rng(s) => Len(Moved(s, o)) = Len(s) + 1
    BY <2>1, <2>3, MovedIs
  <2> QED
    BY <2>2, <2>4 DEF Moved
<1>4. d = [c EXCEPT !.waiting = w, !.reserved = r]
  BY DEF ToReserved
<1> HIDE DEF w, r
<1>5. Len(r) \in Nat
  BY <1>3, LenProperties
<1>6. /\ d \in BucketRec /\ d.pc = c.pc /\ d.objcount = c.objcount /\ d.update = c.update
      /\ d.held = c.held /\ d.hit = c.hit /\ d.waiting = w /\ d.reserved = r
  BY <1>2, <1>3, <1>4 DEF BucketRec
<1> QED
  BY <1>2, <1>3, <1>5, <1>6 DEF w

(* o moved to the waiting list of bucket c. *)
LEMMA ToWaitingIs ==
  ASSUME NEW c \in BucketRec, Once(c.reserved), Once(c.waiting), NEW o \in Waits
  PROVE  LET d == ToWaiting(c, o) IN
         /\ d \in BucketRec /\ d.pc = c.pc /\ d.objcount = c.objcount /\ d.update = c.update
         /\ d.held = c.held /\ d.hit = c.hit
         /\ Once(d.reserved) /\ Once(d.waiting)
         /\ Rng(d.waiting) = Rng(c.waiting) \cup {o} /\ Rng(d.reserved) = Rng(c.reserved) \ {o}
         /\ Len(d.reserved) \in Nat /\ Len(d.waiting) \in Nat
         /\ o \in Rng(c.waiting) => Len(d.waiting) = Len(c.waiting)
         /\ o \notin Rng(c.waiting) => Len(d.waiting) = Len(c.waiting) + 1
         /\ o \in Rng(c.reserved) => Len(d.reserved) = Len(c.reserved) - 1
         /\ o \notin Rng(c.reserved) => Len(d.reserved) = Len(c.reserved)
<1> DEFINE d == ToWaiting(c, o)
           w == Append(Without(c.waiting, {o}), o)
           r == Without(c.reserved, {o})
<1>1. c.reserved \in Seq(Waits) /\ c.waiting \in Seq(Waits)
  BY DEF BucketRec
<1>2. /\ r \in Seq(Waits) /\ Once(r) /\ Rng(r) = Rng(c.reserved) \ {o} /\ Len(r) \in Nat
      /\ o \in Rng(c.reserved) => Len(r) = Len(c.reserved) - 1
      /\ o \notin Rng(c.reserved) => Len(r) = Len(c.reserved)
  BY <1>1, WithoutOne
<1>3. /\ w \in Seq(Waits) /\ Once(w) /\ Rng(w) = Rng(c.waiting) \cup {o}
      /\ o \in Rng(c.waiting) => Len(w) = Len(c.waiting)
      /\ o \notin Rng(c.waiting) => Len(w) = Len(c.waiting) + 1
  <2>1. c.waiting \in Seq(Waits) /\ Once(c.waiting) /\ o \in Waits
    BY <1>1
  <2>2. PICK s \in Seq(Waits) : s = c.waiting
    BY <2>1
  <2>3. Once(s)
    BY <2>1, <2>2
  <2>4. /\ Moved(s, o) \in Seq(Waits) /\ Once(Moved(s, o)) /\ Rng(Moved(s, o)) = Rng(s) \cup {o}
        /\ o \in Rng(s) => Len(Moved(s, o)) = Len(s)
        /\ o \notin Rng(s) => Len(Moved(s, o)) = Len(s) + 1
    BY <2>1, <2>3, MovedIs
  <2> QED
    BY <2>2, <2>4 DEF Moved
<1>4. d = [c EXCEPT !.reserved = r, !.waiting = w]
  BY DEF ToWaiting
<1> HIDE DEF w, r
<1>5. Len(w) \in Nat
  BY <1>3, LenProperties
<1>6. /\ d \in BucketRec /\ d.pc = c.pc /\ d.objcount = c.objcount /\ d.update = c.update
      /\ d.held = c.held /\ d.hit = c.hit /\ d.waiting = w /\ d.reserved = r
  BY <1>2, <1>3, <1>4 DEF BucketRec
<1> QED
  BY <1>2, <1>3, <1>5, <1>6

(* The step leaves every wait object alone that is not bucket b's, or that  *)
(* no thread holds when it joins b.                                         *)
OnlyOf(b, wt) ==
    \A x \in Waits : \/ wt[x] = wait[x]
                     \/ wait[x].bucket = b /\ wt[x].bucket = b
                     \/ wait[x].bucket = NoBucket /\ wt[x].bucket = b /\ NotHeld(x)

(* What changes of wait objects means to a bucket that has none of them. *)
SameFor(d, c, wt, wn) ==
    /\ \A x \in Waits : wt[x].bucket = d \/ wn[x].bucket = d => wn[x] = wt[x]
    /\ \A i \in 1..Len(c.held) : wn[c.held[i].obj].bucket \in {d, NoBucket}

(* Such a bucket is as sound as before. *)
LEMMA BucketSame ==
  ASSUME NEW d \in Buckets, NEW c \in BucketRec, NEW wt, NEW wn, BucketOK(d, c, wt),
         SameFor(d, c, wt, wn)
  PROVE  BucketOK(d, c, wn)
<1>1. ListPart(d, c, wn)
  BY DEF BucketOK, ListPart, SameFor
<1>2. ThreadPart(d, c, wn)
  BY DEF BucketOK, ThreadPart, SameFor
<1>3. NotStale(c, wn)
  <2> SUFFICES ASSUME c.pc = "block", c.update = FALSE
               PROVE  /\ Len(c.held) = Len(c.waiting)
                      /\ \A i \in 1..Len(c.held) : c.held[i] = Watched(wn, c.waiting[i])
    BY DEF NotStale
  <2>1. /\ Len(c.held) = Len(c.waiting)
        /\ \A i \in 1..Len(c.held) : c.held[i] = Watched(wt, c.waiting[i])
    BY DEF BucketOK, NotStale
  <2>2. ASSUME NEW i \in 1..Len(c.held)
        PROVE  c.held[i] = Watched(wn, c.waiting[i])
    <3>1. c.waiting \in Seq(Waits)
      BY DEF BucketRec
    <3>2. i \in DOMAIN c.waiting
      BY <2>1, <3>1
    <3>3. c.waiting[i] \in Waits /\ c.waiting[i] \in Rng(c.waiting)
      BY <3>1, <3>2 DEF Rng
    <3>4. wt[c.waiting[i]].bucket = d
      BY <3>3 DEF BucketOK, ListPart
    <3>5. wn[c.waiting[i]] = wt[c.waiting[i]]
      BY <3>3, <3>4 DEF SameFor
    <3> QED
      BY <2>1, <3>5 DEF Watched
  <2> QED
    BY <2>1, <2>2
<1> QED
  BY <1>1, <1>2, <1>3 DEF BucketOK

(* The buckets on the list are those with a thread. *)
Linked(bk, bs) ==
    /\ bs \in Seq(Buckets) /\ \A b \in Buckets : (bk[b].pc = "none") <=> (b \notin Rng(bs))

(* When the parts hold of what the state becomes, the invariant is kept. *)
LEMMA WaitInvBecomes ==
  ASSUME NEW wt, NEW bk, NEW bs, NEW ev, WaitsOK(wt), bk \in [Buckets -> BucketRec],
         Linked(bk, bs), \A b \in Buckets : BucketOK(b, bk[b], wt),
         ev \in [Handles -> [set : BOOLEAN, sent : Nat]],
         wait' = wt, bucket' = bk, buckets' = bs, event' = ev
  PROVE  WaitInv'
<1>1. /\ WaitsOK(wt) /\ bs \in Seq(Buckets)
      /\ ev \in [Handles -> [set : BOOLEAN, sent : Nat]]
      /\ bk \in [Buckets -> BucketRec]
      /\ \A b \in Buckets : BucketOK(b, bk[b], wt)
      /\ \A b \in Buckets : (bk[b].pc = "none") <=> (b \notin Rng(bs))
  BY DEF Linked
<1> QED
  BY ONLY <1>1, wait' = wt, bucket' = bk, buckets' = bs, event' = ev
     DEF WaitInv

(* A step of bucket b, which becomes c while the wait objects become wt. *)
BucketStep(b, c, wt) ==
    /\ c \in BucketRec /\ WaitsOK(wt) /\ BucketOK(b, c, wt) /\ OnlyOf(b, wt)
    /\ wait' = wt /\ bucket' = [bucket EXCEPT ![b] = c]
    /\ event' \in [Handles -> [set : BOOLEAN, sent : Nat]]

(* Any step of one bucket keeps the invariant if it keeps that bucket sound.*)
LEMMA BucketStepKeeps ==
  ASSUME WaitInv, NEW b \in Buckets, NEW c, NEW wt, BucketStep(b, c, wt),
         Linked(bucket', buckets')
  PROVE  WaitInv'
<1>1. /\ bucket \in [Buckets -> BucketRec] /\ wait \in [Waits -> WaitRec]
      /\ \A d \in Buckets : BucketOK(d, bucket[d], wait)
  BY DEF WaitInv, WaitsOK
<1> DEFINE bk == [bucket EXCEPT ![b] = c]
<1>2. bk \in [Buckets -> BucketRec] /\ bk[b] = c
  BY <1>1 DEF BucketStep
<1>3. ASSUME NEW d \in Buckets
      PROVE  BucketOK(d, bk[d], wt)
  <2>1. CASE d = b
    BY <2>1, <1>2 DEF BucketStep
  <2>2. CASE d # b
    <3>1. bk[d] = bucket[d] /\ bucket[d] \in BucketRec
      BY <1>1, <2>2
    <3>2. SameFor(d, bucket[d], wait, wt)
      <4>1. NoBucket # d
        BY WaitConstants
      <4>2. OnlyOf(b, wt)
        BY DEF BucketStep
      <4>3. \A x \in Waits : wait[x].bucket = d \/ wt[x].bucket = d => wt[x] = wait[x]
        BY <4>1, <4>2, <2>2 DEF OnlyOf
      <4>4. ASSUME NEW i \in 1..Len(bucket[d].held)
            PROVE  wt[bucket[d].held[i].obj].bucket \in {d, NoBucket}
        <5>1. bucket[d].held \in Seq(HeldRecord)
          BY <3>1 DEF BucketRec
        <5>2. bucket[d].held[i].obj \in Waits
          <6>1. bucket[d].held[i] \in HeldRecord
            BY <5>1
          <6> QED
            BY <6>1 DEF HeldRecord
        <5>3. wait[bucket[d].held[i].obj].bucket \in {d, NoBucket}
          BY <1>1 DEF BucketOK, ThreadPart
        <5>4. ~NotHeld(bucket[d].held[i].obj)
          BY DEF NotHeld
        <5>5. bucket[d].held[i].obj \in Waits => wt[bucket[d].held[i].obj] = wait[bucket[d].held[i].obj]
          BY <5>2, <5>3, <5>4, <4>1, <4>2, <2>2, WaitConstants DEF OnlyOf
        <5> QED
          BY <5>2, <5>3, <5>5
      <4> QED
        BY <4>3, <4>4 DEF SameFor
    <3> QED
      BY <3>1, <3>2, <1>1, BucketSame
  <2> QED
    BY <2>1, <2>2
<1>4. /\ WaitsOK(wt) /\ wait' = wt /\ bucket' = bk
      /\ event' \in [Handles -> [set : BOOLEAN, sent : Nat]]
  BY DEF BucketStep
<1>5. Linked(bk, buckets')
  BY <1>4
<1> HIDE DEF bk
<1>6. PICK bs, ev : bs = buckets' /\ ev = event'
  OBVIOUS
<1> QED
  BY <1>2, <1>3, <1>4, <1>5, <1>6, WaitInvBecomes

(* A step of a bucket's thread that leaves its lists alone. *)
ThreadMoves(b, c) ==
    /\ c \in BucketRec /\ bucket[b].pc # "none" /\ c.pc # "none"
    /\ c.reserved = bucket[b].reserved /\ c.waiting = bucket[b].waiting
    /\ c.objcount = bucket[b].objcount
    /\ ThreadPart(b, c, wait) /\ NotStale(c, wait)
    /\ bucket' = [bucket EXCEPT ![b] = c] /\ wait' = wait /\ buckets' = buckets
    /\ event' \in [Handles -> [set : BOOLEAN, sent : Nat]]

(* It keeps the invariant. *)
LEMMA ThreadMovesKeeps ==
  ASSUME WaitInv, NEW b \in Buckets, NEW c, ThreadMoves(b, c)
  PROVE  WaitInv'
<1>1. /\ bucket \in [Buckets -> BucketRec] /\ WaitsOK(wait) /\ BucketOK(b, bucket[b], wait)
      /\ buckets \in Seq(Buckets)
      /\ \A d \in Buckets : (bucket[d].pc = "none") <=> (d \notin Rng(buckets))
  BY DEF WaitInv
<1>2. ListPart(b, c, wait)
  BY <1>1 DEF BucketOK, ListPart, ThreadMoves
<1>3. BucketOK(b, c, wait)
  BY <1>2 DEF BucketOK, ThreadMoves
<1>4. OnlyOf(b, wait)
  BY DEF OnlyOf
<1>5. BucketStep(b, c, wait)
  BY <1>1, <1>3, <1>4 DEF BucketStep, ThreadMoves
<1>6. Linked(bucket', buckets')
  <2>1. buckets' = buckets /\ bucket' = [bucket EXCEPT ![b] = c]
    BY DEF ThreadMoves
  <2>2. ASSUME NEW d \in Buckets
        PROVE  (bucket'[d].pc = "none") <=> (bucket[d].pc = "none")
    BY <2>1, <1>1 DEF ThreadMoves
  <2> QED
    BY <1>1, <2>1, <2>2 DEF Linked
<1> QED
  BY <1>5, <1>6, BucketStepKeeps

(* What is known of one bucket. *)
LEMMA BucketFacts ==
  ASSUME WaitInv, NEW b \in Buckets
  PROVE  /\ bucket[b] \in BucketRec /\ ListPart(b, bucket[b], wait)
         /\ ThreadPart(b, bucket[b], wait) /\ NotStale(bucket[b], wait)
         /\ bucket \in [Buckets -> BucketRec] /\ wait \in [Waits -> WaitRec] /\ WaitsOK(wait)
         /\ event \in [Handles -> [set : BOOLEAN, sent : Nat]]
         /\ buckets \in Seq(Buckets)
         /\ Len(bucket[b].held) \in Nat /\ Len(bucket[b].waiting) \in Nat
         /\ Len(bucket[b].reserved) \in Nat
<1>1. /\ BucketOK(b, bucket[b], wait) /\ WaitsOK(wait) /\ bucket \in [Buckets -> BucketRec]
      /\ event \in [Handles -> [set : BOOLEAN, sent : Nat]] /\ buckets \in Seq(Buckets)
  BY DEF WaitInv
<1>2. bucket[b] \in BucketRec /\ wait \in [Waits -> WaitRec]
  BY <1>1 DEF WaitsOK
<1>3. bucket[b].held \in Seq(HeldRecord) /\ bucket[b].waiting \in Seq(Waits) /\ bucket[b].reserved \in Seq(Waits)
  BY <1>2 DEF BucketRec
<1>4. Len(bucket[b].held) \in Nat /\ Len(bucket[b].waiting) \in Nat /\ Len(bucket[b].reserved) \in Nat
  BY <1>3, LenProperties
<1> QED
  BY <1>1, <1>2, <1>4 DEF BucketOK

(* The thread starts. *)
LEMMA StartsKeeps ==
  ASSUME WaitInv, NEW b \in Buckets, WaitThreadStarts(b)
  PROVE  WaitInv'
<1> DEFINE c == [bucket[b] EXCEPT !.pc = "scan"]
<1>1. /\ bucket[b] \in BucketRec /\ ThreadPart(b, bucket[b], wait)
      /\ bucket \in [Buckets -> BucketRec]
      /\ event \in [Handles -> [set : BOOLEAN, sent : Nat]]
  BY BucketFacts
<1>2. /\ bucket[b].pc = "start" /\ bucket' = [bucket EXCEPT ![b] = c]
      /\ wait' = wait /\ buckets' = buckets /\ event' = event
  BY <1>1 DEF WaitThreadStarts
<1>3. /\ c \in BucketRec /\ c.pc = "scan" /\ c.hit = bucket[b].hit /\ c.held = bucket[b].held
      /\ c.reserved = bucket[b].reserved /\ c.waiting = bucket[b].waiting
      /\ c.objcount = bucket[b].objcount
  BY <1>1 DEF BucketRec
<1> HIDE DEF c
<1>4. ThreadPart(b, c, wait) /\ NotStale(c, wait)
  BY <1>1, <1>2, <1>3 DEF ThreadPart, NotStale
<1>5. ThreadMoves(b, c)
  BY <1>1, <1>2, <1>3, <1>4 DEF ThreadMoves
<1> QED
  BY <1>5, ThreadMovesKeeps

(* Its wait returns. *)
LEMMA WakesKeeps ==
  ASSUME WaitInv, NEW b \in Buckets, WaitThreadWakes(b)
  PROVE  WaitInv'
<1> DEFINE k == bucket[b]
<1>1. /\ k \in BucketRec /\ ThreadPart(b, k, wait) /\ bucket \in [Buckets -> BucketRec]
      /\ event \in [Handles -> [set : BOOLEAN, sent : Nat]] /\ Len(k.held) \in Nat
  BY BucketFacts
<1>2. k.pc \in {"block", "linger"} /\ wait' = wait /\ buckets' = buckets
  BY DEF WaitThreadWakes
<1>3. k.hit = 0 /\ k.hit \in Nat
  BY <1>1, <1>2 DEF ThreadPart
<1> DEFINE Good(c) == /\ c \in BucketRec /\ c.held = k.held /\ c.reserved = k.reserved
                      /\ c.waiting = k.waiting /\ c.objcount = k.objcount
                      /\ \/ c.pc = "back" /\ c.hit <= Len(k.held)
                         \/ c.pc = "late" /\ c.hit = 0 /\ k.pc = "linger"
                      /\ bucket' = [bucket EXCEPT ![b] = c]
                      /\ event' \in [Handles -> [set : BOOLEAN, sent : Nat]]
<1>4. \E c : Good(c)
  <2>1. CASE SetHandles(b) # {}
    <3>1. PICK i : /\ i = (CHOOSE n \in SetHandles(b) : \A j \in SetHandles(b) : n <= j)
                   /\ bucket' = [bucket EXCEPT ![b].pc = "back", ![b].hit = i]
                   /\ event' = [event EXCEPT ![k.held[i].handle].set = FALSE]
      BY <2>1 DEF WaitThreadWakes
    <3>2. SetHandles(b) \subseteq 1..Len(k.held)
      <4>1. k.held \in Seq(HeldRecord)
        BY <1>1 DEF BucketRec
      <4> QED
        BY <4>1 DEF SetHandles
    <3>3. i \in SetHandles(b)
      <4>1. \E n \in SetHandles(b) : \A j \in SetHandles(b) : n <= j
        <5>1. SetHandles(b) \in SUBSET Nat
          BY <3>2, <1>1
        <5> QED
          BY <5>1, <2>1, LeastNat
      <4> QED
        BY <3>1, <4>1
    <3>4. i \in Nat /\ i <= Len(k.held)
      BY <3>2, <3>3, <1>1
    <3>5. event' \in [Handles -> [set : BOOLEAN, sent : Nat]]
      BY <3>1, <1>1
    <3> DEFINE c == [k EXCEPT !.pc = "back", !.hit = i]
    <3>6. /\ c \in BucketRec /\ c.held = k.held /\ c.reserved = k.reserved
          /\ c.waiting = k.waiting /\ c.objcount = k.objcount /\ c.pc = "back" /\ c.hit = i
      BY <1>1, <3>4 DEF BucketRec
    <3>7. bucket' = [bucket EXCEPT ![b] = c]
      <4>1. b \in Buckets /\ bucket \in [Buckets -> BucketRec] /\ bucket' = [bucket EXCEPT ![b].pc = "back", ![b].hit = i]
        BY <3>1, <1>1
      <4> QED
        BY ONLY <4>1
    <3> HIDE DEF c
    <3> QED
      BY <3>4, <3>5, <3>6, <3>7
  <2>2. CASE SetHandles(b) = {} /\ bucket[b].update
    <3> DEFINE c == [k EXCEPT !.pc = "back", !.update = FALSE]
    <3>1. /\ bucket' = [bucket EXCEPT ![b].pc = "back", ![b].update = FALSE]
          /\ event' = event
      BY <2>2 DEF WaitThreadWakes
    <3>2. bucket' = [bucket EXCEPT ![b] = c]
      BY <3>1, <1>1
    <3>3. /\ c \in BucketRec /\ c.held = k.held /\ c.reserved = k.reserved
          /\ c.waiting = k.waiting /\ c.objcount = k.objcount /\ c.pc = "back" /\ c.hit = 0
      BY <1>1, <1>3 DEF BucketRec
    <3>4. event' \in [Handles -> [set : BOOLEAN, sent : Nat]] /\ 0 <= Len(k.held)
      BY <1>1, <3>1
    <3> HIDE DEF c
    <3> QED
      BY <1>2, <3>2, <3>3, <3>4
  <2>3. CASE SetHandles(b) = {} /\ ~bucket[b].update
    <3> DEFINE c == [k EXCEPT !.pc = IF @ = "linger" THEN "late" ELSE "back"]
    <3>1. /\ bucket' = [bucket EXCEPT ![b].pc = IF @ = "linger" THEN "late" ELSE "back"]
          /\ event' = event
      BY <2>3 DEF WaitThreadWakes
    <3>2. bucket' = [bucket EXCEPT ![b] = c]
      BY <3>1, <1>1
    <3>3. /\ c \in BucketRec /\ c.held = k.held /\ c.reserved = k.reserved
          /\ c.waiting = k.waiting /\ c.objcount = k.objcount /\ c.hit = 0
          /\ c.pc = IF k.pc = "linger" THEN "late" ELSE "back"
      BY <1>1, <1>3 DEF BucketRec
    <3>4. event' \in [Handles -> [set : BOOLEAN, sent : Nat]] /\ 0 <= Len(k.held)
      BY <1>1, <3>1
    <3> HIDE DEF c
    <3> QED
      BY <1>2, <3>2, <3>3, <3>4
  <2> QED
    BY <2>1, <2>2, <2>3
<1>5. PICK c : Good(c)
  BY <1>4
<1>6. k.pc # "none" /\ k.objcount \in Nat
  BY <1>1, <1>2 DEF BucketRec
<1>7. /\ c \in BucketRec /\ c.held = k.held /\ c.reserved = k.reserved
      /\ c.waiting = k.waiting /\ c.objcount = k.objcount /\ c.hit <= Len(k.held)
      /\ \/ c.pc = "back"
         \/ c.pc = "late" /\ c.hit = 0 /\ k.pc = "linger"
  BY <1>5, <1>1
<1>8. ThreadPart(b, c, wait) /\ NotStale(c, wait)
  BY <1>1, <1>6, <1>7 DEF ThreadPart, NotStale
<1>9. ThreadMoves(b, c)
  BY <1>2, <1>5, <1>6, <1>7, <1>8 DEF ThreadMoves
<1> QED
  BY <1>9, ThreadMovesKeeps

(* It takes the lock again, and nothing fires. *)
LEMMA ReturnsKeeps ==
  ASSUME WaitInv, NEW b \in Buckets, WaitReturns(b)
  PROVE  WaitInv'
<1> DEFINE c == [bucket[b] EXCEPT !.pc = "drop", !.hit = 0]
<1>1. /\ bucket[b] \in BucketRec /\ ThreadPart(b, bucket[b], wait)
      /\ bucket \in [Buckets -> BucketRec] /\ Len(bucket[b].held) \in Nat
      /\ event \in [Handles -> [set : BOOLEAN, sent : Nat]]
  BY BucketFacts
<1>2. /\ bucket[b].pc \in {"back", "late"} /\ bucket' = [bucket EXCEPT ![b] = c]
      /\ wait' = wait /\ buckets' = buckets /\ event' = event
  BY <1>1 DEF WaitReturns
<1>3. /\ c \in BucketRec /\ c.pc = "drop" /\ c.hit = 0 /\ c.held = bucket[b].held
      /\ c.reserved = bucket[b].reserved /\ c.waiting = bucket[b].waiting
      /\ c.objcount = bucket[b].objcount
  BY <1>1 DEF BucketRec
<1> HIDE DEF c
<1>4. ThreadPart(b, c, wait) /\ NotStale(c, wait)
  BY <1>1, <1>2, <1>3 DEF ThreadPart, NotStale
<1>5. ThreadMoves(b, c)
  BY <1>1, <1>2, <1>3, <1>4 DEF ThreadMoves
<1> QED
  BY <1>5, ThreadMovesKeeps

(* It releases what it held last. *)
LEMMA DropsKeeps ==
  ASSUME WaitInv, NEW b \in Buckets, WaitThreadDrops(b)
  PROVE  WaitInv'
<1> DEFINE k == bucket[b]
           h == SubSeq(k.held, 1, Len(k.held) - 1)
           c == [k EXCEPT !.held = h]
<1>1. /\ k \in BucketRec /\ ThreadPart(b, k, wait)
      /\ bucket \in [Buckets -> BucketRec] /\ Len(k.held) \in Nat
      /\ event \in [Handles -> [set : BOOLEAN, sent : Nat]]
  BY BucketFacts
<1>2. /\ k.pc = "drop" /\ k.held # <<>> /\ bucket' = [bucket EXCEPT ![b] = c]
      /\ wait' = wait /\ buckets' = buckets /\ event' = event
  BY <1>1 DEF WaitThreadDrops
<1>3. k.held \in Seq(HeldRecord)
  BY <1>1 DEF BucketRec
<1>4. Len(k.held) > 0
  BY <1>2, <1>3, EmptySeq
<1>5. /\ h \in Seq(HeldRecord) /\ Len(h) = Len(k.held) - 1
      /\ \A i \in 1..Len(h) : h[i] = k.held[i]
  BY <1>1, <1>3, <1>4, SubSeqProperties
<1> HIDE DEF h
<1>6. /\ c \in BucketRec /\ c.pc = "drop" /\ c.hit = k.hit /\ c.held = h
      /\ c.reserved = bucket[b].reserved /\ c.waiting = bucket[b].waiting
      /\ c.objcount = bucket[b].objcount
  BY <1>1, <1>2, <1>5 DEF BucketRec
<1> HIDE DEF c
<1>7. \A i \in 1..Len(h) : i \in 1..Len(k.held)
  BY <1>1, <1>5
<1>8. Len(h) <= MaxInBucket /\ 0 <= Len(h)
  BY <1>1, <1>4, <1>5, WaitConstants DEF ThreadPart
<1>9. k.hit = 0
  BY <1>1, <1>2 DEF ThreadPart
<1>10. \A i \in 1..Len(h) : wait[h[i].obj].bucket \in {b, NoBucket}
  BY <1>1, <1>5, <1>7 DEF ThreadPart
<1>11. ThreadPart(b, c, wait) /\ NotStale(c, wait)
  BY <1>6, <1>8, <1>9, <1>10 DEF ThreadPart, NotStale
<1>12. ThreadMoves(b, c)
  BY <1>1, <1>2, <1>6, <1>11 DEF ThreadMoves
<1> QED
  BY <1>12, ThreadMovesKeeps

(* The lists of a bucket that moves an object of its own. *)
LEMMA ListsMoved ==
  ASSUME NEW b \in Buckets, NEW k \in BucketRec, NEW wt \in [Waits -> WaitRec],
         ListPart(b, k, wt), NEW o \in Waits, wt[o].bucket = b,
         NEW w \in WaitRec, w.bucket = b
  PROVE  /\ w.pending = FALSE => ListPart(b, ToReserved(k, o), [wt EXCEPT ![o] = w])
         /\ w.pending = TRUE => ListPart(b, ToWaiting(k, o), [wt EXCEPT ![o] = w])
<1>1. Once(k.reserved) /\ Once(k.waiting) /\ k.objcount = Len(k.reserved) + Len(k.waiting)
  BY DEF ListPart
<1>2. k.reserved \in Seq(Waits) /\ k.waiting \in Seq(Waits) /\ k.objcount \in Nat
  BY DEF BucketRec
<1>3. Len(k.reserved) \in Nat /\ Len(k.waiting) \in Nat
  BY <1>2, LenProperties
<1>4. wt[o].pending \in BOOLEAN
  BY DEF WaitRec
<1>5. \/ o \in Rng(k.reserved) /\ o \notin Rng(k.waiting)
      \/ o \notin Rng(k.reserved) /\ o \in Rng(k.waiting)
  BY <1>4 DEF ListPart
<1> DEFINE wn == [wt EXCEPT ![o] = w]
<1>6. wn[o] = w /\ \A x \in Waits \ {o} : wn[x] = wt[x]
  OBVIOUS
<1> HIDE DEF wn
<1>7. ASSUME w.pending = FALSE
      PROVE  ListPart(b, ToReserved(k, o), wn)
  <2> DEFINE d == ToReserved(k, o)
  <2>1. /\ d.objcount = k.objcount /\ Once(d.reserved) /\ Once(d.waiting)
        /\ Rng(d.reserved) = Rng(k.reserved) \cup {o} /\ Rng(d.waiting) = Rng(k.waiting) \ {o}
        /\ Len(d.reserved) \in Nat /\ Len(d.waiting) \in Nat
        /\ o \in Rng(k.reserved) => Len(d.reserved) = Len(k.reserved)
        /\ o \notin Rng(k.reserved) => Len(d.reserved) = Len(k.reserved) + 1
        /\ o \in Rng(k.waiting) => Len(d.waiting) = Len(k.waiting) - 1
        /\ o \notin Rng(k.waiting) => Len(d.waiting) = Len(k.waiting)
    BY <1>1, ToReservedIs
  <2> HIDE DEF d
  <2>2. d.objcount = Len(d.reserved) + Len(d.waiting)
    <3>1. PICK n \in Nat, m \in Nat : n = Len(k.reserved) /\ m = Len(k.waiting)
      BY <1>3
    <3>2. \/ Len(d.reserved) = n /\ Len(d.waiting) = m
          \/ Len(d.reserved) = n + 1 /\ Len(d.waiting) = m - 1
      BY ONLY <1>5, <2>1, <3>1
    <3>3. d.objcount = n + m
      BY ONLY <1>1, <2>1, <3>1
    <3>4. n + m = (n + 1) + (m - 1)
      OBVIOUS
    <3> QED
      BY ONLY <3>2, <3>3, <3>4
  <2>3. ASSUME NEW x \in Waits
        PROVE  /\ x \in Rng(d.reserved) <=> (wn[x].bucket = b /\ wn[x].pending = FALSE)
               /\ x \in Rng(d.waiting) <=> (wn[x].bucket = b /\ wn[x].pending = TRUE)
    <3>1. CASE x = o
      BY <3>1, <1>6, <1>7, <2>1
    <3>2. CASE x # o
      <4>1. wn[x] = wt[x]
        BY <1>6, <3>2
      <4>2. /\ x \in Rng(k.reserved) <=> (wt[x].bucket = b /\ wt[x].pending = FALSE)
            /\ x \in Rng(k.waiting) <=> (wt[x].bucket = b /\ wt[x].pending = TRUE)
        BY DEF ListPart
      <4> QED
        BY <3>2, <4>1, <4>2, <2>1
    <3> QED
      BY <3>1, <3>2
  <2> QED
    BY <2>1, <2>2, <2>3 DEF ListPart, d
<1>8. ASSUME w.pending = TRUE
      PROVE  ListPart(b, ToWaiting(k, o), wn)
  <2> DEFINE d == ToWaiting(k, o)
  <2>1. /\ d.objcount = k.objcount /\ Once(d.reserved) /\ Once(d.waiting)
        /\ Rng(d.waiting) = Rng(k.waiting) \cup {o} /\ Rng(d.reserved) = Rng(k.reserved) \ {o}
        /\ Len(d.reserved) \in Nat /\ Len(d.waiting) \in Nat
        /\ o \in Rng(k.waiting) => Len(d.waiting) = Len(k.waiting)
        /\ o \notin Rng(k.waiting) => Len(d.waiting) = Len(k.waiting) + 1
        /\ o \in Rng(k.reserved) => Len(d.reserved) = Len(k.reserved) - 1
        /\ o \notin Rng(k.reserved) => Len(d.reserved) = Len(k.reserved)
    BY <1>1, ToWaitingIs
  <2> HIDE DEF d
  <2>2. d.objcount = Len(d.reserved) + Len(d.waiting)
    <3>1. PICK n \in Nat, m \in Nat : n = Len(k.reserved) /\ m = Len(k.waiting)
      BY <1>3
    <3>2. \/ Len(d.reserved) = n /\ Len(d.waiting) = m
          \/ Len(d.reserved) = n - 1 /\ Len(d.waiting) = m + 1
      BY ONLY <1>5, <2>1, <3>1
    <3>3. d.objcount = n + m
      BY ONLY <1>1, <2>1, <3>1
    <3>4. n + m = (n - 1) + (m + 1)
      OBVIOUS
    <3> QED
      BY ONLY <3>2, <3>3, <3>4
  <2>3. ASSUME NEW x \in Waits
        PROVE  /\ x \in Rng(d.reserved) <=> (wn[x].bucket = b /\ wn[x].pending = FALSE)
               /\ x \in Rng(d.waiting) <=> (wn[x].bucket = b /\ wn[x].pending = TRUE)
    <3>1. CASE x = o
      BY <3>1, <1>6, <1>8, <2>1
    <3>2. CASE x # o
      <4>1. wn[x] = wt[x]
        BY <1>6, <3>2
      <4>2. /\ x \in Rng(k.reserved) <=> (wt[x].bucket = b /\ wt[x].pending = FALSE)
            /\ x \in Rng(k.waiting) <=> (wt[x].bucket = b /\ wt[x].pending = TRUE)
        BY DEF ListPart
      <4> QED
        BY <3>2, <4>1, <4>2, <2>1
    <3> QED
      BY <3>1, <3>2
  <2> QED
    BY <2>1, <2>2, <2>3 DEF ListPart, d
<1> QED
  BY <1>7, <1>8 DEF wn

(* A step of bucket b that moves its object o, which becomes w; the thread  *)
(* does not block on what it sees no more.                                  *)
Moves(b, c, d, o, w) ==
    /\ o \in Waits /\ wait[o].bucket = b
    /\ w \in WaitRec /\ w.bucket = b /\ (w.pending => w.duped \in Handles)
    /\ w.pending = FALSE => d = ToReserved(bucket[b], o)
    /\ w.pending = TRUE => d = ToWaiting(bucket[b], o)
    /\ c \in BucketRec /\ c.reserved = d.reserved /\ c.waiting = d.waiting
    /\ c.objcount = d.objcount /\ c.held = bucket[b].held
    /\ bucket[b].pc # "none" /\ c.pc # "none"
    /\ c.pc # "back" => c.hit = 0
    /\ c.hit <= Len(c.held)
    /\ c.pc \in {"start", "scan", "linger", "late"} => c.held = <<>>
    /\ c.pc # "block" \/ c.update = TRUE
    /\ bucket' = [bucket EXCEPT ![b] = c] /\ wait' = [wait EXCEPT ![o] = w]
    /\ buckets' = buckets /\ event' = event

(* Such a step keeps the invariant. *)
LEMMA MovesKeeps ==
  ASSUME WaitInv, NEW b \in Buckets, NEW c, NEW d, NEW o, NEW w, Moves(b, c, d, o, w)
  PROVE  WaitInv'
<1> DEFINE k == bucket[b]
           wn == [wait EXCEPT ![o] = w]
<1>1. /\ k \in BucketRec /\ ListPart(b, k, wait) /\ ThreadPart(b, k, wait)
      /\ bucket \in [Buckets -> BucketRec] /\ wait \in [Waits -> WaitRec] /\ WaitsOK(wait)
      /\ event \in [Handles -> [set : BOOLEAN, sent : Nat]]
      /\ buckets \in Seq(Buckets) /\ Len(k.held) \in Nat
  BY BucketFacts
<1>2. o \in Waits /\ wait[o].bucket = b /\ w \in WaitRec /\ w.bucket = b /\ w.pending \in BOOLEAN
  BY DEF Moves, WaitRec
<1>3. ListPart(b, d, wn) /\ d.objcount = k.objcount
  <2>1. CASE w.pending = FALSE
    <3>1. d = ToReserved(k, o)
      BY <2>1 DEF Moves
    <3>2. ListPart(b, ToReserved(k, o), wn)
      BY <1>1, <1>2, <2>1, ListsMoved
    <3>3. ToReserved(k, o).objcount = k.objcount
      BY <1>1, <1>2, ToReservedIs DEF ListPart
    <3> QED
      BY ONLY <3>1, <3>2, <3>3
  <2>2. CASE w.pending = TRUE
    <3>1. d = ToWaiting(k, o)
      BY <2>2 DEF Moves
    <3>2. ListPart(b, ToWaiting(k, o), wn)
      BY <1>1, <1>2, <2>2, ListsMoved
    <3>3. ToWaiting(k, o).objcount = k.objcount
      BY <1>1, <1>2, ToWaitingIs DEF ListPart
    <3> QED
      BY ONLY <3>1, <3>2, <3>3
  <2> QED
    BY <1>2, <2>1, <2>2
<1>4. /\ c \in BucketRec /\ c.reserved = d.reserved /\ c.waiting = d.waiting
      /\ c.objcount = d.objcount /\ c.held = k.held /\ k.pc # "none" /\ c.pc # "none"
      /\ c.pc # "back" => c.hit = 0
      /\ c.hit <= Len(c.held)
      /\ c.pc \in {"start", "scan", "linger", "late"} => c.held = <<>>
      /\ c.pc # "block" \/ c.update = TRUE
  BY DEF Moves
<1>5. wn[o] = w /\ \A x \in Waits \ {o} : wn[x] = wait[x]
  BY <1>1, <1>2
<1>6. WaitsOK(wn)
  <2>1. wn \in [Waits -> WaitRec]
    BY <1>1, <1>2
  <2>2. ASSUME NEW x \in Waits, wn[x].pending PROVE wn[x].duped \in Handles
    <3>1. CASE x = o
      BY <3>1, <1>5, <2>2 DEF Moves
    <3>2. CASE x # o
      BY <3>2, <1>1, <1>5, <2>2 DEF WaitsOK
    <3> QED
      BY <3>1, <3>2
  <2> QED
    BY <2>1, <2>2 DEF WaitsOK
<1>7. wait' = wn /\ bucket' = [bucket EXCEPT ![b] = c] /\ buckets' = buckets /\ event' = event
  BY DEF Moves
<1> HIDE DEF wn
<1>8. ListPart(b, c, wn)
  BY <1>3, <1>4 DEF ListPart
<1>9. \A i \in 1..Len(k.held) : wn[k.held[i].obj].bucket \in {b, NoBucket}
  <2> SUFFICES ASSUME NEW i \in 1..Len(k.held)
               PROVE  wn[k.held[i].obj].bucket \in {b, NoBucket}
    OBVIOUS
  <2>1. k.held \in Seq(HeldRecord)
    BY <1>1 DEF BucketRec
  <2>2. k.held[i] \in HeldRecord
    BY <2>1
  <2>3. k.held[i].obj \in Waits
    BY <2>2 DEF HeldRecord
  <2>4. wait[k.held[i].obj].bucket \in {b, NoBucket}
    BY <1>1 DEF ThreadPart
  <2> QED
    BY <1>2, <1>5, <2>3, <2>4
<1>10. ThreadPart(b, c, wn)
  BY <1>1, <1>4, <1>9 DEF ThreadPart
<1>11. NotStale(c, wn)
  BY <1>4 DEF NotStale
<1>12. BucketOK(b, c, wn)
  BY <1>4, <1>8, <1>10, <1>11 DEF BucketOK
<1>13. OnlyOf(b, wn)
  BY <1>2, <1>5 DEF OnlyOf
<1>14. BucketStep(b, c, wn)
  BY <1>1, <1>4, <1>6, <1>7, <1>12, <1>13 DEF BucketStep
<1>15. Linked(bucket', buckets')
  <2>1. ASSUME NEW x \in Buckets
        PROVE  (bucket'[x].pc = "none") <=> (bucket[x].pc = "none")
    BY <1>1, <1>4, <1>7
  <2>2. \A x \in Buckets : (bucket[x].pc = "none") <=> (x \notin Rng(buckets))
    BY DEF WaitInv
  <2> QED
    BY <1>1, <1>7, <2>1, <2>2 DEF Linked
<1> QED
  BY <1>14, <1>15, BucketStepKeeps

(* The least of the positions at which something holds is one of them. *)
LEMMA FirstIs ==
  ASSUME NEW T \in SUBSET Nat, T # {}
  PROVE  (CHOOSE i \in T : \A j \in T : i <= j) \in T
<1>1. \E i \in T : \A j \in T : i <= j
  BY LeastNat
<1> QED
  BY <1>1

(* A wait object that timed out. *)
LEMMA ElapsesKeeps ==
  ASSUME WaitInv, NEW b \in Buckets, WaitElapses(b)
  PROVE  WaitInv' /\ ElapsedWait(b) \in Waits /\ wait[ElapsedWait(b)].bucket = b
<1> DEFINE k == bucket[b]
           o == ElapsedWait(b)
           w == [wait[o] EXCEPT !.pending = FALSE]
           c == ToReserved(k, o)
<1>1. /\ k \in BucketRec /\ ListPart(b, k, wait) /\ ThreadPart(b, k, wait)
      /\ bucket \in [Buckets -> BucketRec] /\ wait \in [Waits -> WaitRec]
      /\ Len(k.held) \in Nat
  BY BucketFacts
<1>2. k.waiting \in Seq(Waits)
  BY <1>1 DEF BucketRec
<1>3. o \in Waits /\ wait[o].bucket = b
  <2>1. Elapsed(b) # {}
    BY DEF WaitElapses
  <2>2. Elapsed(b) \subseteq DOMAIN k.waiting /\ DOMAIN k.waiting = 1..Len(k.waiting)
    BY <1>2 DEF Elapsed
  <2>3. PICK i \in Elapsed(b) : o = k.waiting[i]
    <3>1. Elapsed(b) \in SUBSET Nat
      BY <2>2
    <3> QED
      BY <2>1, <3>1, FirstIs DEF ElapsedWait
  <2>4. o \in Rng(k.waiting) /\ o \in Waits
    BY <1>2, <2>2, <2>3 DEF Rng
  <2> QED
    BY <1>1, <2>4 DEF ListPart
<1> HIDE DEF o
<1>4. /\ w \in WaitRec /\ w.bucket = b /\ w.pending = FALSE
  BY <1>1, <1>3 DEF WaitRec
<1>5. /\ k.pc = "scan" /\ bucket' = [bucket EXCEPT ![b] = c]
      /\ wait' = [wait EXCEPT ![o] = w] /\ buckets' = buckets /\ event' = event
  BY <1>1 DEF WaitElapses, o
<1>6. c \in BucketRec /\ c.pc = k.pc /\ c.held = k.held /\ c.hit = k.hit
  BY <1>1, <1>3, ToReservedIs DEF ListPart
<1> HIDE DEF w
<1>7. Moves(b, c, c, o, w)
  BY <1>1, <1>3, <1>4, <1>5, <1>6 DEF Moves, ThreadPart
<1>8. WaitInv'
  BY <1>7, MovesKeeps
<1> QED
  BY <1>3, <1>8 DEF o

(* The object whose handle was signalled is still in the bucket. *)
LEMMA FiresKeeps ==
  ASSUME WaitInv, NEW b \in Buckets, WaitFires(b)
  PROVE  WaitInv' /\ HitObject(b) \in Waits /\ wait[HitObject(b)].bucket = b
<1> DEFINE k == bucket[b]
           o == HitObject(b)
           w == [wait[o] EXCEPT !.pending = FALSE]
           d == ToReserved(k, o)
           c == [d EXCEPT !.pc = "drop", !.hit = 0]
<1>1. /\ k \in BucketRec /\ ListPart(b, k, wait) /\ ThreadPart(b, k, wait)
      /\ bucket \in [Buckets -> BucketRec] /\ wait \in [Waits -> WaitRec]
      /\ Len(k.held) \in Nat
  BY BucketFacts
<1>2. k.held \in Seq(HeldRecord) /\ k.hit \in Nat
  BY <1>1 DEF BucketRec
<1>3. o \in Waits /\ wait[o].bucket = b
  <2>1. k.hit \in 1..Len(k.held)
    BY <1>1, <1>2 DEF WaitFires, Fires, ThreadPart
  <2>2. k.held[k.hit] \in HeldRecord
    BY <1>2, <2>1
  <2>3. o \in Waits
    BY <2>2 DEF HeldRecord, HitObject
  <2>4. wait[o].bucket \in {b, NoBucket}
    BY <1>1, <2>1 DEF ThreadPart, HitObject
  <2> QED
    BY <2>3, <2>4 DEF WaitFires, Fires
<1> HIDE DEF o
<1>4. /\ w \in WaitRec /\ w.bucket = b /\ w.pending = FALSE
  BY <1>1, <1>3 DEF WaitRec
<1>5. /\ k.pc = "back" /\ bucket' = [bucket EXCEPT ![b] = c]
      /\ wait' = [wait EXCEPT ![o] = w] /\ buckets' = buckets /\ event' = event
  BY <1>1 DEF WaitFires, Fires, o
<1>6. d \in BucketRec /\ d.held = k.held
  BY <1>1, <1>3, ToReservedIs DEF ListPart
<1> HIDE DEF d, w
<1>7. /\ c \in BucketRec /\ c.pc = "drop" /\ c.hit = 0 /\ c.held = k.held
      /\ c.reserved = d.reserved /\ c.waiting = d.waiting /\ c.objcount = d.objcount
  BY <1>6 DEF BucketRec
<1>8. d = ToReserved(k, o)
  BY DEF d
<1> HIDE DEF c
<1>9. Moves(b, c, d, o, w)
  BY <1>1, <1>3, <1>4, <1>5, <1>7, <1>8 DEF Moves
<1>10. WaitInv'
  BY <1>9, MovesKeeps
<1> QED
  BY <1>3, <1>10 DEF o

(* The thread blocks on what is on its waiting list. *)
LEMMA BlocksKeeps ==
  ASSUME WaitInv, NEW b \in Buckets, WaitThreadBlocks(b)
  PROVE  WaitInv'
<1> DEFINE k == bucket[b]
           h == [i \in DOMAIN k.waiting |-> Watched(wait, k.waiting[i])]
<1>1. /\ k \in BucketRec /\ ListPart(b, k, wait) /\ ThreadPart(b, k, wait)
      /\ bucket \in [Buckets -> BucketRec] /\ wait \in [Waits -> WaitRec] /\ WaitsOK(wait)
      /\ event \in [Handles -> [set : BOOLEAN, sent : Nat]]
      /\ Len(k.held) \in Nat /\ Len(k.waiting) \in Nat /\ Len(k.reserved) \in Nat
  BY BucketFacts
<1>2. k.pc = "scan" /\ wait' = wait /\ buckets' = buckets /\ event' = event
  BY DEF WaitThreadBlocks
<1>3. k.held = <<>> /\ k.hit = 0
  BY <1>1, <1>2 DEF ThreadPart
<1>4. CASE k.objcount = 0
  <2> DEFINE c == [k EXCEPT !.pc = "linger"]
  <2>1. bucket' = [bucket EXCEPT ![b] = c]
    BY <1>1, <1>4 DEF WaitThreadBlocks
  <2>2. /\ c \in BucketRec /\ c.pc = "linger" /\ c.hit = 0 /\ c.held = <<>>
        /\ c.reserved = k.reserved /\ c.waiting = k.waiting /\ c.objcount = k.objcount
    BY <1>1, <1>3 DEF BucketRec
  <2> HIDE DEF c
  <2>3. Len(c.held) = 0
    BY <2>2
  <2>4. ThreadPart(b, c, wait) /\ NotStale(c, wait)
    BY <2>2, <2>3, WaitConstants DEF ThreadPart, NotStale
  <2>5. ThreadMoves(b, c)
    BY <1>1, <1>2, <2>1, <2>2, <2>4 DEF ThreadMoves
  <2> QED
    BY <2>5, ThreadMovesKeeps
<1>5. CASE k.objcount # 0
  <2> DEFINE c == [k EXCEPT !.pc = "block", !.held = h]
  <2>1. bucket' = [bucket EXCEPT ![b] = c]
    BY <1>1, <1>5 DEF WaitThreadBlocks, Watched
  <2>2. k.waiting \in Seq(Waits) /\ DOMAIN k.waiting = 1..Len(k.waiting)
    BY <1>1 DEF BucketRec
  <2>3. ASSUME NEW i \in 1..Len(k.waiting)
        PROVE  /\ Watched(wait, k.waiting[i]) \in HeldRecord
               /\ Watched(wait, k.waiting[i]).obj = k.waiting[i]
               /\ k.waiting[i] \in Waits /\ wait[k.waiting[i]].bucket = b
    <3>1. k.waiting[i] \in Waits /\ k.waiting[i] \in Rng(k.waiting)
      BY <2>2 DEF Rng
    <3>2. wait[k.waiting[i]].bucket = b /\ wait[k.waiting[i]].pending = TRUE
      BY <1>1, <3>1 DEF ListPart
    <3>3. wait[k.waiting[i]] \in WaitRec /\ wait[k.waiting[i]].duped \in Handles
      BY <1>1, <3>1, <3>2 DEF WaitsOK
    <3>4. wait[k.waiting[i]].serial \in Nat /\ wait[k.waiting[i]].timeout \in Nat
      BY <3>3 DEF WaitRec
    <3> QED
      BY <3>1, <3>2, <3>3, <3>4 DEF HeldRecord, Watched
  <2>4. /\ h \in Seq(HeldRecord) /\ Len(h) = Len(k.waiting)
        /\ \A i \in 1..Len(k.waiting) : h[i] = Watched(wait, k.waiting[i])
    BY <2>2, <2>3, <1>1
  <2> HIDE DEF h
  <2>5. /\ c \in BucketRec /\ c.pc = "block" /\ c.hit = 0 /\ c.held = h
        /\ c.reserved = k.reserved /\ c.waiting = k.waiting /\ c.objcount = k.objcount
    BY <1>1, <1>3, <2>4 DEF BucketRec
  <2> HIDE DEF c
  <2>6. Len(k.waiting) <= MaxInBucket
    <3>1. k.objcount = Len(k.reserved) + Len(k.waiting) /\ k.objcount <= MaxInBucket
      BY <1>1, WaitConstants DEF ListPart, BucketRec
    <3>2. PICK n \in Nat, m \in Nat : n = Len(k.reserved) /\ m = Len(k.waiting)
      BY <1>1
    <3>3. n + m <= MaxInBucket
      BY ONLY <3>1, <3>2
    <3>4. m <= MaxInBucket
      BY <3>3, WaitConstants
    <3> QED
      BY <3>2, <3>4
  <2>7. \A i \in 1..Len(h) : wait[h[i].obj].bucket \in {b, NoBucket}
    BY <2>3, <2>4
  <2>8. ThreadPart(b, c, wait)
    BY <1>1, <2>4, <2>5, <2>6, <2>7 DEF ThreadPart
  <2>9. NotStale(c, wait)
    BY <2>4, <2>5 DEF NotStale
  <2>10. ThreadMoves(b, c)
    BY <1>1, <1>2, <2>1, <2>5, <2>8, <2>9 DEF ThreadMoves
  <2> QED
    BY <2>10, ThreadMovesKeeps
<1> QED
  BY <1>4, <1>5

(* A wait is set or disarmed. *)
LEMMA SetWaitKeeps ==
  ASSUME WaitInv, now \in Nat, NEW o \in Waits, NEW h \in Handles \cup {NoBucket},
         NEW delay \in Nat, TpSetWaitEx(o, h, delay)
  PROVE  WaitInv'
<1> DEFINE b == wait[o].bucket
           k == bucket[b]
           w == [wait[o] EXCEPT !.duped = h]
<1>0. wait \in [Waits -> WaitRec] /\ Never \in Nat
  BY TimeIsBounded DEF WaitInv, WaitsOK, Never
<1>1. b \in Buckets /\ WaitCsFree
  BY <1>0 DEF TpSetWaitEx, WaitRec
<1>2. /\ k \in BucketRec /\ ListPart(b, k, wait) /\ ThreadPart(b, k, wait) /\ NotStale(k, wait)
      /\ bucket \in [Buckets -> BucketRec] /\ WaitsOK(wait)
      /\ event \in [Handles -> [set : BOOLEAN, sent : Nat]]
      /\ Len(k.held) \in Nat /\ Len(k.waiting) \in Nat /\ Len(k.reserved) \in Nat
  BY <1>1, BucketFacts
<1>3. buckets' = buckets /\ event' = event
  BY DEF TpSetWaitEx
<1>4. wait[o] \in WaitRec /\ wait[o].pending \in BOOLEAN
  BY <1>0 DEF WaitRec
<1>5. w \in WaitRec /\ w.bucket = b /\ w.pending = wait[o].pending /\ w.duped = h
      /\ w.serial = wait[o].serial /\ w.timeout = wait[o].timeout /\ w.handle = wait[o].handle
  BY <1>4 DEF WaitRec
<1>6. k.pc # "none"
  <2>1. o \in Rng(k.reserved) \/ o \in Rng(k.waiting)
    BY <1>2, <1>4 DEF ListPart
  <2>2. k.objcount # 0
    <3>1. k.reserved \in Seq(Waits) /\ k.waiting \in Seq(Waits)
      BY <1>2 DEF BucketRec
    <3>2. Len(k.reserved) >= 1 \/ Len(k.waiting) >= 1
      BY <1>2, <2>1, <3>1 DEF Rng
    <3>3. PICK n \in Nat, m \in Nat : n = Len(k.reserved) /\ m = Len(k.waiting)
      BY <1>2
    <3>4. k.objcount = n + m
      BY <1>2, <3>3 DEF ListPart
    <3>5. n >= 1 \/ m >= 1
      BY ONLY <3>2, <3>3
    <3>6. n + m # 0
      BY <3>5
    <3> QED
      BY ONLY <3>4, <3>6
  <2> QED
    BY <1>2, <2>2 DEF ThreadPart
<1>7. CASE h = NoBucket /\ ~wait[o].pending
  <2> DEFINE wn == [wait EXCEPT ![o] = w]
  <2>1. wait' = wn /\ bucket' = bucket
    BY <1>7 DEF TpSetWaitEx
  <2>2. wn[o] = w /\ \A x \in Waits \ {o} : wn[x] = wait[x]
    BY <1>0
  <2>3. WaitsOK(wn)
    <3>1. wn \in [Waits -> WaitRec]
      BY <1>0, <1>5
    <3>2. ASSUME NEW x \in Waits, wn[x].pending PROVE wn[x].duped \in Handles
      BY <1>2, <1>5, <1>7, <2>2, <3>2 DEF WaitsOK
    <3> QED
      BY <3>1, <3>2 DEF WaitsOK
  <2> HIDE DEF wn
  <2>4. ListPart(b, k, wn)
    <3>1. \A x \in Waits : wn[x].bucket = wait[x].bucket /\ wn[x].pending = wait[x].pending
      BY <1>5, <2>2
    <3> QED
      BY <1>2, <3>1 DEF ListPart
  <2>5. ThreadPart(b, k, wn)
    <3>1. ASSUME NEW i \in 1..Len(k.held)
          PROVE  wn[k.held[i].obj].bucket \in {b, NoBucket}
      <4>1. k.held \in Seq(HeldRecord)
        BY <1>2 DEF BucketRec
      <4>2. k.held[i] \in HeldRecord
        BY <4>1
      <4>3. k.held[i].obj \in Waits
        BY <4>2 DEF HeldRecord
      <4>4. wait[k.held[i].obj].bucket \in {b, NoBucket}
        BY <1>2 DEF ThreadPart
      <4> QED
        BY <1>5, <2>2, <4>3, <4>4
    <3> QED
      BY <1>2, <3>1 DEF ThreadPart
  <2>6. NotStale(k, wn)
    <3> SUFFICES ASSUME k.pc = "block", k.update = FALSE
                 PROVE  /\ Len(k.held) = Len(k.waiting)
                        /\ \A i \in 1..Len(k.held) : k.held[i] = Watched(wn, k.waiting[i])
      BY DEF NotStale
    <3>1. /\ Len(k.held) = Len(k.waiting)
          /\ \A i \in 1..Len(k.held) : k.held[i] = Watched(wait, k.waiting[i])
      BY <1>2 DEF NotStale
    <3>2. ASSUME NEW i \in 1..Len(k.held)
          PROVE  k.held[i] = Watched(wn, k.waiting[i])
      <4>1. k.waiting \in Seq(Waits)
        BY <1>2 DEF BucketRec
      <4>2. k.waiting[i] \in Waits /\ k.waiting[i] \in Rng(k.waiting)
        BY <3>1, <4>1 DEF Rng
      <4>3. wait[k.waiting[i]].pending = TRUE
        BY <1>2, <4>2 DEF ListPart
      <4>4. k.waiting[i] # o
        BY <4>3, <1>7
      <4>5. wn[k.waiting[i]] = wait[k.waiting[i]]
        BY <2>2, <4>2, <4>4
      <4> QED
        BY <3>1, <4>5 DEF Watched
    <3> QED
      BY <3>1, <3>2
  <2>7. BucketOK(b, k, wn) /\ OnlyOf(b, wn)
    BY <1>2, <1>5, <2>2, <2>4, <2>5, <2>6 DEF BucketOK, OnlyOf
  <2>8. BucketStep(b, k, wn)
    <3>1. bucket' = [bucket EXCEPT ![b] = k]
      BY <1>1, <1>2, <2>1
    <3> QED
      BY <1>2, <1>3, <2>1, <2>3, <2>7, <3>1 DEF BucketStep
  <2>9. Linked(bucket', buckets')
    BY <1>3, <2>1 DEF Linked, WaitInv
  <2> QED
    BY <1>1, <2>8, <2>9, BucketStepKeeps
<1>8. CASE ~(h = NoBucket /\ ~wait[o].pending)
  <2> DEFINE p == h # NoBucket
             v == [w EXCEPT !.pending = p,
                       !.timeout = IF h = NoBucket THEN @
                                   ELSE IF delay = Never THEN Never ELSE now + delay,
                       !.serial = IF wait[o].handle = h THEN @ ELSE @ + 1]
             d == IF h = NoBucket THEN ToReserved(k, o) ELSE ToWaiting(k, o)
             c == Updated(d)
  <2>1. wait' = [wait EXCEPT ![o] = v] /\ bucket' = [bucket EXCEPT ![b] = c]
    BY <1>1, <1>2, <1>8 DEF TpSetWaitEx
  <2>2. v \in WaitRec /\ v.bucket = b /\ v.pending = p /\ v.duped = h
    <3>1. w.timeout \in Nat /\ w.serial \in Nat
      BY <1>5 DEF WaitRec
    <3>2. (IF wait[o].handle = h THEN w.serial ELSE w.serial + 1) \in Nat
      BY <3>1
    <3>3. (IF h = NoBucket THEN w.timeout ELSE IF delay = Never THEN Never ELSE now + delay) \in Nat
      BY <1>0, <3>1
    <3> QED
      BY <1>5, <3>2, <3>3 DEF WaitRec
  <2>3. /\ p = FALSE => d = ToReserved(k, o)
        /\ p = TRUE => d = ToWaiting(k, o)
        /\ p \in BOOLEAN /\ (p = TRUE => h \in Handles)
    OBVIOUS
  <2>4. d \in BucketRec /\ d.pc = k.pc /\ d.held = k.held /\ d.hit = k.hit
    <3>1. CASE h = NoBucket
      <4>1. d = ToReserved(k, o)
        BY <3>1
      <4>2. LET e == ToReserved(k, o) IN e \in BucketRec /\ e.pc = k.pc /\ e.held = k.held /\ e.hit = k.hit
        BY <1>2, ToReservedIs DEF ListPart
      <4> QED
        BY ONLY <4>1, <4>2
    <3>2. CASE h # NoBucket
      <4>1. d = ToWaiting(k, o)
        BY <3>2
      <4>2. LET e == ToWaiting(k, o) IN e \in BucketRec /\ e.pc = k.pc /\ e.held = k.held /\ e.hit = k.hit
        BY <1>2, ToWaitingIs DEF ListPart
      <4> QED
        BY ONLY <4>1, <4>2
    <3> QED
      BY <3>1, <3>2
  <2> HIDE DEF d
  <2>5. /\ c \in BucketRec /\ c.update = TRUE /\ c.pc = d.pc /\ c.held = d.held /\ c.hit = d.hit
        /\ c.reserved = d.reserved /\ c.waiting = d.waiting /\ c.objcount = d.objcount
    BY <2>4 DEF Updated, BucketRec
  <2> HIDE DEF c, v
  <2>6. /\ v.pending = FALSE => d = ToReserved(k, o)
        /\ v.pending = TRUE => d = ToWaiting(k, o)
        /\ v.pending => v.duped \in Handles
    BY <2>2, <2>3
  <2>7. Moves(b, c, d, o, v)
    <3>1. /\ k.pc # "back" => k.hit = 0
          /\ k.hit <= Len(k.held)
          /\ k.pc \in {"start", "scan", "linger", "late"} => k.held = <<>>
      BY <1>2 DEF ThreadPart
    <3> QED
      BY <1>3, <1>6, <2>1, <2>2, <2>4, <2>5, <2>6, <3>1 DEF Moves
  <2> QED
    BY <1>1, <2>7, MovesKeeps
<1> QED
  BY <1>7, <1>8

(* The program sets an event. *)
LEMMA SetEventKeeps ==
  ASSUME WaitInv, NEW h \in Handles, SetEvent(h)
  PROVE  WaitInv'
<1>1. event' \in [Handles -> [set : BOOLEAN, sent : Nat]]
  BY DEF SetEvent, WaitInv
<1>2. UNCHANGED <<wait, bucket, buckets>>
  BY DEF SetEvent
<1>3. Linked(bucket, buckets)
  BY DEF WaitInv, Linked
<1>4. PICK ev : ev = event'
  OBVIOUS
<1> QED
  BY <1>1, <1>2, <1>3, <1>4, WaitInvBecomes DEF WaitInv

(* The thread of an empty bucket ends. *)
LEMMA EndsKeeps ==
  ASSUME WaitInv, NEW b \in Buckets, WaitThreadEnds(b)
  PROVE  WaitInv'
<1> DEFINE k == bucket[b]
           c == NewBucket
<1>1. /\ k \in BucketRec /\ ListPart(b, k, wait) /\ ThreadPart(b, k, wait)
      /\ bucket \in [Buckets -> BucketRec] /\ WaitsOK(wait)
      /\ event \in [Handles -> [set : BOOLEAN, sent : Nat]] /\ buckets \in Seq(Buckets)
      /\ Len(k.waiting) \in Nat /\ Len(k.reserved) \in Nat
  BY BucketFacts
<1>2. /\ k.pc = "late" /\ k.objcount = 0 /\ bucket' = [bucket EXCEPT ![b] = c]
      /\ buckets' = Without(buckets, {b}) /\ wait' = wait /\ event' = event
  BY DEF WaitThreadEnds
<1>3. k.reserved = <<>> /\ k.waiting = <<>>
  <2>1. PICK n \in Nat, m \in Nat : n = Len(k.reserved) /\ m = Len(k.waiting)
    BY <1>1
  <2>2. n + m = 0
    BY <1>1, <1>2, <2>1 DEF ListPart
  <2>3. n = 0 /\ m = 0
    BY <2>2
  <2>4. k.reserved \in Seq(Waits) /\ k.waiting \in Seq(Waits)
    BY <1>1 DEF BucketRec
  <2> QED
    BY <2>1, <2>3, <2>4, EmptySeq
<1>4. /\ c \in BucketRec /\ c.pc = "none" /\ c.objcount = 0 /\ c.reserved = <<>>
      /\ c.waiting = <<>> /\ c.held = <<>> /\ c.hit = 0
  BY WaitConstants DEF NewBucket, BucketRec
<1> HIDE DEF c
<1>5. ListPart(b, c, wait)
  BY <1>1, <1>2, <1>3, <1>4 DEF ListPart
<1>6. ThreadPart(b, c, wait) /\ NotStale(c, wait)
  BY <1>4, WaitConstants DEF ThreadPart, NotStale
<1>7. BucketStep(b, c, wait)
  BY <1>1, <1>2, <1>4, <1>5, <1>6 DEF BucketStep, BucketOK, OnlyOf
<1>8. Linked(bucket', buckets')
  <2>1. Without(buckets, {b}) \in Seq(Buckets) /\ Rng(Without(buckets, {b})) = Rng(buckets) \ {b}
    BY <1>1, WithoutIs
  <2>2. ASSUME NEW x \in Buckets
        PROVE  (bucket'[x].pc = "none") <=> (x \notin Rng(buckets) \ {b})
    <3>1. (bucket[x].pc = "none") <=> (x \notin Rng(buckets))
      BY DEF WaitInv
    <3>2. CASE x = b
      BY <3>2, <1>1, <1>2, <1>4
    <3>3. CASE x # b
      BY <3>1, <3>3, <1>1, <1>2
    <3> QED
      BY <3>2, <3>3
  <2> QED
    BY <1>2, <2>1, <2>2 DEF Linked
<1> QED
  BY <1>7, <1>8, BucketStepKeeps

(* A wait object joins bucket b, which was k and is on the list now. *)
Joins(b, k, o) ==
    /\ bucket' = [bucket EXCEPT ![b] = [ToReserved(k, o) EXCEPT !.objcount = @ + 1]]
    /\ wait' = [wait EXCEPT ![o] = [NoWait EXCEPT !.bucket = b]]
    /\ event' = event

(* The bucket is sound with it. *)
LEMMA JoinsKeeps ==
  ASSUME WaitInv, NEW b \in Buckets, NEW k \in BucketRec, NEW o \in Waits,
         wait[o].bucket = NoBucket, NotHeld(o), BucketOK(b, k, wait),
         k.objcount < MaxInBucket, k.pc # "none", Joins(b, k, o),
         \A x \in Buckets : x \in Rng(buckets') <=> (x \in Rng(buckets) \/ x = b),
         buckets' \in Seq(Buckets), k.held = <<>> \/ k = bucket[b]
  PROVE  WaitInv'
<1> DEFINE w == [NoWait EXCEPT !.bucket = b]
           wn == [wait EXCEPT ![o] = w]
           d == ToReserved(k, o)
           c == [d EXCEPT !.objcount = @ + 1]
<1>1. /\ bucket \in [Buckets -> BucketRec] /\ WaitsOK(wait) /\ wait \in [Waits -> WaitRec]
      /\ event \in [Handles -> [set : BOOLEAN, sent : Nat]] /\ buckets \in Seq(Buckets)
  BY BucketFacts
<1>2. w \in WaitRec /\ w.bucket = b /\ w.pending = FALSE /\ w.timeout = 0
  BY DEF NoWait, WaitRec
<1>3. wn[o] = w /\ (\A x \in Waits \ {o} : wn[x] = wait[x]) /\ WaitsOK(wn)
  <2>1. wn \in [Waits -> WaitRec] /\ wn[o] = w /\ \A x \in Waits \ {o} : wn[x] = wait[x]
    BY <1>1, <1>2
  <2>2. ASSUME NEW x \in Waits, wn[x].pending PROVE wn[x].duped \in Handles
    BY <1>1, <1>2, <2>1, <2>2 DEF WaitsOK
  <2> QED
    BY <2>1, <2>2 DEF WaitsOK
<1>4. b # NoBucket
  BY WaitConstants
<1>5. /\ ListPart(b, k, wait) /\ ThreadPart(b, k, wait) /\ NotStale(k, wait)
      /\ Once(k.reserved) /\ Once(k.waiting) /\ k.objcount = Len(k.reserved) + Len(k.waiting)
      /\ o \notin Rng(k.reserved) /\ o \notin Rng(k.waiting)
  BY <1>4 DEF BucketOK, ListPart
<1>6. k.reserved \in Seq(Waits) /\ k.waiting \in Seq(Waits) /\ k.objcount \in Nat /\ k.held \in Seq(HeldRecord)
  BY WaitConstants DEF BucketRec
<1>7. Len(k.reserved) \in Nat /\ Len(k.waiting) \in Nat
  BY <1>6, LenProperties
<1>8. /\ d \in BucketRec /\ d.pc = k.pc /\ d.objcount = k.objcount /\ d.update = k.update
      /\ d.held = k.held /\ d.hit = k.hit
      /\ Once(d.reserved) /\ Once(d.waiting) /\ d.waiting = Without(k.waiting, {o})
      /\ Rng(d.reserved) = Rng(k.reserved) \cup {o} /\ Rng(d.waiting) = Rng(k.waiting) \ {o}
      /\ Len(d.reserved) = Len(k.reserved) + 1
  BY <1>5, ToReservedIs
<1>9. d.waiting = k.waiting
  <2>1. Rng(k.waiting) \cap {o} = {}
    BY <1>5
  <2>2. Without(k.waiting, {o}) = k.waiting
    BY <1>6, <2>1, WithoutNone
  <2> QED
    BY <1>8, <2>2
<1> HIDE DEF d
<1>10. /\ c \in BucketRec /\ c.pc = k.pc /\ c.objcount = k.objcount + 1 /\ c.update = k.update
       /\ c.held = k.held /\ c.hit = k.hit /\ c.reserved = d.reserved /\ c.waiting = k.waiting
  <2>1. k.objcount + 1 \in 0..MaxInBucket
    BY <1>6, WaitConstants
  <2> QED
    BY <1>8, <1>9, <2>1 DEF BucketRec
<1>11. wait' = wn /\ bucket' = [bucket EXCEPT ![b] = c] /\ event' = event
  BY DEF Joins, d
<1> HIDE DEF c, w, wn
<1>12. ListPart(b, c, wn)
  <2>1. c.objcount = Len(c.reserved) + Len(c.waiting)
    <3>1. PICK n \in Nat, m \in Nat : n = Len(k.reserved) /\ m = Len(k.waiting)
      BY <1>7
    <3>2. c.objcount = (n + m) + 1 /\ Len(c.reserved) = n + 1 /\ Len(c.waiting) = m
      BY ONLY <1>5, <1>8, <1>10, <3>1
    <3>3. (n + m) + 1 = (n + 1) + m
      OBVIOUS
    <3> QED
      BY ONLY <3>2, <3>3
  <2>2. ASSUME NEW x \in Waits
        PROVE  /\ x \in Rng(c.reserved) <=> (wn[x].bucket = b /\ wn[x].pending = FALSE)
               /\ x \in Rng(c.waiting) <=> (wn[x].bucket = b /\ wn[x].pending = TRUE)
    <3>1. CASE x = o
      BY <3>1, <1>2, <1>3, <1>5, <1>8, <1>10
    <3>2. CASE x # o
      <4>1. /\ x \in Rng(k.reserved) <=> (wait[x].bucket = b /\ wait[x].pending = FALSE)
            /\ x \in Rng(k.waiting) <=> (wait[x].bucket = b /\ wait[x].pending = TRUE)
        BY <1>5 DEF ListPart
      <4> QED
        BY <3>2, <4>1, <1>3, <1>8, <1>10
    <3> QED
      BY <3>1, <3>2
  <2> QED
    BY <1>8, <1>9, <1>10, <2>1, <2>2 DEF ListPart
<1>13. \A i \in 1..Len(k.held) : /\ k.held[i].obj \in Waits
                                 /\ k.held[i].obj # o
  <2> SUFFICES ASSUME NEW i \in 1..Len(k.held)
               PROVE  k.held[i].obj \in Waits /\ k.held[i].obj # o
    OBVIOUS
  <2>1. k.held[i] \in HeldRecord
    BY <1>6
  <2>2. k.held # <<>>
    BY <1>6
  <2> QED
    BY <2>1, <2>2 DEF HeldRecord, NotHeld
<1>14. ThreadPart(b, c, wn)
  <2>1. \A i \in 1..Len(c.held) : wn[c.held[i].obj].bucket \in {b, NoBucket}
    BY <1>3, <1>5, <1>10, <1>13 DEF ThreadPart
  <2> QED
    BY <1>5, <1>10, <2>1 DEF ThreadPart
<1>15. NotStale(c, wn)
  <2> SUFFICES ASSUME k.pc = "block", k.update = FALSE
               PROVE  /\ Len(k.held) = Len(k.waiting)
                      /\ \A i \in 1..Len(k.held) : k.held[i] = Watched(wn, k.waiting[i])
    BY <1>10 DEF NotStale
  <2>1. /\ Len(k.held) = Len(k.waiting)
        /\ \A i \in 1..Len(k.held) : k.held[i] = Watched(wait, k.waiting[i])
    BY <1>5 DEF NotStale
  <2>2. ASSUME NEW i \in 1..Len(k.held)
        PROVE  k.held[i] = Watched(wn, k.waiting[i])
    <3>1. k.waiting[i] \in Waits /\ k.waiting[i] \in Rng(k.waiting)
      BY <1>6, <2>1 DEF Rng
    <3>2. wn[k.waiting[i]] = wait[k.waiting[i]]
      BY <1>3, <1>5, <3>1
    <3> QED
      BY <2>1, <3>2 DEF Watched
  <2> QED
    BY <2>1, <2>2
<1>16. OnlyOf(b, wn)
  BY <1>2, <1>3 DEF OnlyOf
<1>17. BucketStep(b, c, wn)
  BY <1>1, <1>3, <1>10, <1>11, <1>12, <1>14, <1>15, <1>16 DEF BucketStep, BucketOK
<1>18. Linked(bucket', buckets')
  <2>1. ASSUME NEW x \in Buckets
        PROVE  (bucket'[x].pc = "none") <=> (x \notin Rng(buckets) /\ x # b)
    <3>1. (bucket[x].pc = "none") <=> (x \notin Rng(buckets))
      BY DEF WaitInv
    <3>2. CASE x = b
      BY <3>2, <1>1, <1>10, <1>11
    <3>3. CASE x # b
      BY <3>1, <3>3, <1>1, <1>11
    <3> QED
      BY <3>2, <3>3
  <2> QED
    BY <2>1 DEF Linked
<1> QED
  BY <1>17, <1>18, BucketStepKeeps

(* A wait object is allocated. *)
LEMMA LockKeeps ==
  ASSUME WaitInv, NEW o \in Waits, wait[o].bucket = NoBucket, NotHeld(o), tp_waitqueue_lock(o)
  PROVE  WaitInv'
<1> DEFINE Room == {i \in DOMAIN buckets : bucket[buckets[i]].objcount < MaxInBucket}
           first == CHOOSE i \in Room : \A j \in Room : i <= j
<1>1. /\ bucket \in [Buckets -> BucketRec] /\ WaitsOK(wait) /\ wait \in [Waits -> WaitRec]
      /\ buckets \in Seq(Buckets) /\ \A b \in Buckets : BucketOK(b, bucket[b], wait)
  BY DEF WaitInv, WaitsOK
<1>2. CASE Room # {}
  <2> DEFINE b == buckets[first]
  <2>1. Joins(b, bucket[b], o) /\ buckets' = buckets
    BY <1>2 DEF tp_waitqueue_lock, Joins
  <2>2. first \in Room
    <3>1. DOMAIN buckets = 1..Len(buckets) /\ Len(buckets) \in Nat
      BY <1>1, LenProperties
    <3>2. Room \in SUBSET Nat
      BY <3>1
    <3> QED
      BY <1>2, <3>2, FirstIs
  <2> HIDE DEF first
  <2>3. b \in Buckets /\ b \in Rng(buckets) /\ bucket[b].objcount < MaxInBucket
    BY <1>1, <2>2 DEF Rng
  <2>4. bucket[b].pc # "none"
    BY <2>3 DEF WaitInv
  <2> HIDE DEF b
  <2>5. \A x \in Buckets : x \in Rng(buckets') <=> (x \in Rng(buckets) \/ x = b)
    BY <2>1, <2>3
  <2> QED
    BY <1>1, <2>1, <2>3, <2>4, <2>5, JoinsKeeps
<1>3. CASE Room = {}
  <2> DEFINE b == CHOOSE x \in Buckets : bucket[x].pc = "none"
             k == [NewBucket EXCEPT !.pc = "start"]
  <2>1. /\ \E x \in Buckets : bucket[x].pc = "none"
        /\ Joins(b, k, o) /\ buckets' = Append(buckets, b)
    BY <1>3 DEF tp_waitqueue_lock, Joins
  <2>2. b \in Buckets /\ bucket[b].pc = "none"
    BY <2>1
  <2> HIDE DEF b
  <2>3. /\ k \in BucketRec /\ k.pc = "start" /\ k.objcount = 0 /\ k.reserved = <<>>
        /\ k.waiting = <<>> /\ k.held = <<>> /\ k.hit = 0 /\ k.objcount < MaxInBucket
    <3>1. /\ NewBucket \in BucketRec /\ NewBucket.objcount = 0 /\ NewBucket.reserved = <<>>
          /\ NewBucket.waiting = <<>> /\ NewBucket.held = <<>> /\ NewBucket.hit = 0
      BY WaitConstants DEF NewBucket, BucketRec
    <3>2. 0 < MaxInBucket
      BY WaitConstants
    <3> QED
      BY <3>1, <3>2 DEF BucketRec
  <2> HIDE DEF k
  <2>4. BucketOK(b, k, wait)
    <3>1. /\ ListPart(b, bucket[b], wait) /\ bucket[b].objcount = 0 /\ bucket[b] \in BucketRec
          /\ Len(bucket[b].waiting) \in Nat /\ Len(bucket[b].reserved) \in Nat
      BY <2>2, BucketFacts DEF ThreadPart
    <3>2. bucket[b].reserved = <<>> /\ bucket[b].waiting = <<>>
      <4>1. PICK n \in Nat, m \in Nat : n = Len(bucket[b].reserved) /\ m = Len(bucket[b].waiting)
        BY <3>1
      <4>2. n + m = 0
        BY <3>1, <4>1 DEF ListPart
      <4>3. n = 0 /\ m = 0
        BY <4>2
      <4>4. bucket[b].reserved \in Seq(Waits) /\ bucket[b].waiting \in Seq(Waits)
        BY <3>1 DEF BucketRec
      <4> QED
        BY <4>1, <4>3, <4>4, EmptySeq
    <3>3. ListPart(b, k, wait)
      BY <2>3, <3>1, <3>2 DEF ListPart
    <3>4. ThreadPart(b, k, wait) /\ NotStale(k, wait)
      BY <2>3, WaitConstants DEF ThreadPart, NotStale
    <3> QED
      BY <2>3, <3>3, <3>4 DEF BucketOK
  <2>5. buckets' \in Seq(Buckets) /\ Rng(buckets') = Rng(buckets) \cup {b}
    BY <1>1, <2>1, <2>2, AppendIs
  <2> QED
    BY <2>1, <2>2, <2>3, <2>4, <2>5, JoinsKeeps
<1> QED
  BY <1>2, <1>3

(* The wait objects of S are shut down. *)
LEMMA UnlockKeeps ==
  ASSUME WaitInv, NEW S \in SUBSET Waits, tp_waitqueue_unlock(S)
  PROVE  WaitInv'
<1> DEFINE Mine(b) == {o \in S : wait[o].bucket = b}
           Off(b) == Updated([bucket[b] EXCEPT !.waiting = Without(@, Mine(b)),
                                !.reserved = Without(@, Mine(b)),
                                !.objcount = @ - Cardinality(Mine(b))])
           wn == [o \in Waits |-> IF o \in S THEN NoWait ELSE wait[o]]
           bk == [b \in Buckets |-> IF Mine(b) = {} THEN bucket[b] ELSE Off(b)]
<1>1. /\ bucket \in [Buckets -> BucketRec] /\ WaitsOK(wait) /\ wait \in [Waits -> WaitRec]
      /\ buckets \in Seq(Buckets) /\ \A b \in Buckets : BucketOK(b, bucket[b], wait)
      /\ event \in [Handles -> [set : BOOLEAN, sent : Nat]] /\ Linked(bucket, buckets)
  BY DEF WaitInv, WaitsOK, Linked
<1>2. wait' = wn /\ bucket' = bk /\ buckets' = buckets /\ event' = event
  BY DEF tp_waitqueue_unlock
<1>3. NoWait \in WaitRec /\ NoWait.bucket = NoBucket /\ NoWait.pending = FALSE
  BY DEF NoWait, WaitRec
<1>4. WaitsOK(wn)
  <2>1. wn \in [Waits -> WaitRec]
    BY <1>1, <1>3
  <2>2. ASSUME NEW x \in Waits, wn[x].pending PROVE wn[x].duped \in Handles
    BY <1>1, <1>3, <2>2 DEF WaitsOK
  <2> QED
    BY <2>1, <2>2 DEF WaitsOK
<1>5. \A x \in Waits : /\ x \in S => wn[x].bucket = NoBucket
                       /\ x \notin S => wn[x] = wait[x]
  BY <1>3
<1>6. ASSUME NEW b \in Buckets
      PROVE  /\ bk[b] \in BucketRec /\ BucketOK(b, bk[b], wn)
             /\ (bk[b].pc = "none") <=> (bucket[b].pc = "none")
  <2> DEFINE k == bucket[b]
             M == Mine(b)
  <2>1. /\ k \in BucketRec /\ ListPart(b, k, wait) /\ ThreadPart(b, k, wait)
        /\ Len(k.held) \in Nat /\ Len(k.waiting) \in Nat /\ Len(k.reserved) \in Nat
    BY BucketFacts
  <2>2. b # NoBucket
    BY WaitConstants
  <2>3. \A i \in 1..Len(k.held) : wn[k.held[i].obj].bucket \in {b, NoBucket}
    <3> SUFFICES ASSUME NEW i \in 1..Len(k.held)
                 PROVE  wn[k.held[i].obj].bucket \in {b, NoBucket}
      OBVIOUS
    <3>1. k.held \in Seq(HeldRecord)
      BY <2>1 DEF BucketRec
    <3>2. k.held[i] \in HeldRecord
      BY <3>1
    <3>3. k.held[i].obj \in Waits
      BY <3>2 DEF HeldRecord
    <3>4. wait[k.held[i].obj].bucket \in {b, NoBucket}
      BY <2>1 DEF ThreadPart
    <3> QED
      BY <1>5, <3>3, <3>4
  <2>4. CASE M = {}
    <3>1. bk[b] = k
      BY <2>4
    <3> HIDE DEF bk, wn
    <3>2. SameFor(b, k, wait, wn)
      BY <1>5, <2>2, <2>3, <2>4 DEF SameFor
    <3>3. BucketOK(b, k, wn)
      BY <1>1, <2>1, <3>2, BucketSame
    <3> QED
      BY <2>1, <3>1, <3>3
  <2>5. CASE M # {}
    <3> DEFINE c == Off(b)
               r == Without(k.reserved, M)
               q == Without(k.waiting, M)
               n == k.objcount - Cardinality(M)
    <3>1. bk[b] = c
      BY <2>5
    <3>2. k.reserved \in Seq(Waits) /\ k.waiting \in Seq(Waits) /\ Once(k.reserved) /\ Once(k.waiting)
      BY <2>1 DEF BucketRec, ListPart
    <3>3. /\ r \in Seq(Waits) /\ Rng(r) = Rng(k.reserved) \ M /\ Once(r)
          /\ q \in Seq(Waits) /\ Rng(q) = Rng(k.waiting) \ M /\ Once(q)
      BY <3>2, WithoutIs
    <3>4. Len(r) \in Nat /\ Len(q) \in Nat /\ n = Len(r) + Len(q)
      <4> DEFINE A == Rng(k.reserved) \cap M
                 B == Rng(k.waiting) \cap M
      <4>1. /\ IsFiniteSet(A) /\ Cardinality(A) \in Nat /\ Len(r) \in Nat
            /\ Len(r) + Cardinality(A) = Len(k.reserved)
        BY <3>2, WithoutLen
      <4>2. /\ IsFiniteSet(B) /\ Cardinality(B) \in Nat /\ Len(q) \in Nat
            /\ Len(q) + Cardinality(B) = Len(k.waiting)
        BY <3>2, WithoutLen
      <4>3. A \cap B = {} /\ A \cup B = M
        <5>1. ASSUME NEW x \in M PROVE x \in Rng(k.reserved) \/ x \in Rng(k.waiting)
          <6>1. x \in Waits /\ wait[x].bucket = b /\ wait[x].pending \in BOOLEAN
            BY <1>1 DEF WaitRec
          <6> QED
            BY <2>1, <6>1 DEF ListPart
        <5>2. ASSUME NEW x \in M PROVE ~(x \in Rng(k.reserved) /\ x \in Rng(k.waiting))
          BY <2>1 DEF ListPart
        <5> QED
          BY <5>1, <5>2
      <4> HIDE DEF A, B
      <4>4. Cardinality(A \cup B) = Cardinality(A) + Cardinality(B) - Cardinality(A \cap B)
        BY <4>1, <4>2, FS_Union
      <4>5. Cardinality(A \cap B) = 0
        BY <4>3, FS_EmptySet
      <4>6. PICK a \in Nat, d \in Nat, lr \in Nat, lq \in Nat :
              a = Cardinality(A) /\ d = Cardinality(B) /\ lr = Len(r) /\ lq = Len(q)
        BY <4>1, <4>2
      <4>7. Cardinality(M) = a + d
        <5>1. Cardinality(M) = a + d - 0
          BY ONLY <4>3, <4>4, <4>5, <4>6
        <5> QED
          BY <5>1
      <4>8. k.objcount = (lr + a) + (lq + d)
        BY ONLY <4>1, <4>2, <4>6, <2>1 DEF ListPart
      <4>9. k.objcount - Cardinality(M) = lr + lq
        BY ONLY <4>7, <4>8, a \in Nat, d \in Nat, lr \in Nat, lq \in Nat
      <4> QED
        BY ONLY <4>1, <4>2, <4>6, <4>9 DEF n
    <3>5. n \in 0..MaxInBucket /\ n <= k.objcount
      <4>1. k.objcount \in Nat /\ k.objcount <= MaxInBucket
        BY <2>1, WaitConstants DEF BucketRec
      <4>2. IsFiniteSet(M) /\ Cardinality(M) \in Nat
        BY WaitsFinite, FS_Subset, FS_CardinalityType
      <4>3. PICK lr \in Nat, lq \in Nat : n = lr + lq
        BY <3>4
      <4> HIDE DEF M
      <4> QED
        BY <4>1, <4>2, <4>3, WaitConstants
    <3>6. /\ c.reserved = r /\ c.waiting = q /\ c.objcount = n /\ c.update = TRUE
          /\ c.pc = k.pc /\ c.held = k.held /\ c.hit = k.hit /\ c \in BucketRec
      <4>1. c = [k EXCEPT !.waiting = q, !.reserved = r, !.objcount = n, !.update = TRUE]
        BY DEF Updated
      <4> HIDE DEF c, r, q, n
      <4> QED
        BY <2>1, <3>3, <3>5, <4>1 DEF BucketRec
    <3> HIDE DEF c, r, q, n, bk, wn
    <3>7. ListPart(b, c, wn)
      <4>1. ASSUME NEW x \in Waits
            PROVE  /\ x \in Rng(r) <=> (wn[x].bucket = b /\ wn[x].pending = FALSE)
                   /\ x \in Rng(q) <=> (wn[x].bucket = b /\ wn[x].pending = TRUE)
        <5>1. /\ x \in Rng(k.reserved) <=> (wait[x].bucket = b /\ wait[x].pending = FALSE)
              /\ x \in Rng(k.waiting) <=> (wait[x].bucket = b /\ wait[x].pending = TRUE)
          BY <2>1 DEF ListPart
        <5>2. CASE x \in S
          BY <5>1, <5>2, <1>5, <2>2, <3>3
        <5>3. CASE x \notin S
          BY <5>1, <5>3, <1>5, <3>3
        <5> QED
          BY <5>2, <5>3
      <4> QED
        BY <3>3, <3>4, <3>6, <4>1 DEF ListPart
    <3>8. ThreadPart(b, c, wn)
      <4>1. c.pc = "none" => c.objcount = 0
        <5>1. k.pc = "none" => k.objcount = 0
          BY <2>1 DEF ThreadPart
        <5>2. k.objcount = 0 => n = 0
          BY <3>5, WaitConstants
        <5> QED
          BY <3>6, <5>1, <5>2
      <4> QED
        BY <2>1, <2>3, <3>6, <4>1 DEF ThreadPart
    <3>9. NotStale(c, wn)
      BY <3>6 DEF NotStale
    <3> QED
      BY <3>1, <3>6, <3>7, <3>8, <3>9 DEF BucketOK
  <2> QED
    BY <2>4, <2>5
<1>7. bk \in [Buckets -> BucketRec]
  <2>1. bk = [b \in Buckets |-> bk[b]]
    OBVIOUS
  <2> HIDE DEF bk
  <2> QED
    BY <1>6, <2>1
<1> HIDE DEF bk, wn
<1>8. Linked(bk, buckets)
  BY <1>1, <1>6 DEF Linked
<1>9. \A b \in Buckets : BucketOK(b, bk[b], wn)
  BY <1>6
<1> QED
  BY <1>1, <1>2, <1>4, <1>7, <1>8, <1>9, WaitInvBecomes

(* The objects of b move to the bucket c. *)
Merges(b, c, k, wn) ==
    /\ c \in Buckets /\ c # b
    /\ k = Joined(c, b)
    /\ wn = [o \in Waits |-> IF wait[o].bucket = b THEN [wait[o] EXCEPT !.bucket = c]
                                                   ELSE wait[o]]

(* The wait objects after a merge. *)
LEMMA MergedWaits ==
  ASSUME WaitInv, NEW b \in Buckets, NEW c, NEW k, NEW wn, Merges(b, c, k, wn)
  PROVE  /\ WaitsOK(wn)
         /\ \A x \in Waits : wn[x].pending = wait[x].pending
         /\ \A x \in Waits : wait[x].bucket = b => wn[x].bucket = c
         /\ \A x \in Waits : wait[x].bucket # b => wn[x] = wait[x]
<1>1. WaitsOK(wait) /\ wait \in [Waits -> WaitRec]
  BY DEF WaitInv, WaitsOK
<1>2. ASSUME NEW x \in Waits
      PROVE  /\ wn[x] \in WaitRec /\ wn[x].pending = wait[x].pending /\ wn[x].duped = wait[x].duped
             /\ wait[x].bucket = b => wn[x].bucket = c
             /\ wait[x].bucket # b => wn[x] = wait[x]
  <2>1. wait[x] \in WaitRec /\ c \in Buckets
    BY <1>1 DEF Merges
  <2>2. CASE wait[x].bucket = b
    <3>1. wn[x] = [wait[x] EXCEPT !.bucket = c]
      BY <2>2 DEF Merges
    <3> QED
      BY <2>1, <2>2, <3>1 DEF WaitRec
  <2>3. CASE wait[x].bucket # b
    <3>1. wn[x] = wait[x]
      BY <2>3 DEF Merges
    <3> QED
      BY <2>1, <2>3, <3>1
  <2> QED
    BY <2>2, <2>3
<1>3. wn \in [Waits -> WaitRec]
  <2>1. wn = [o \in Waits |-> wn[o]]
    BY DEF Merges
  <2> QED
    BY <1>2, <2>1
<1>4. WaitsOK(wn)
  BY <1>1, <1>2, <1>3 DEF WaitsOK
<1> QED
  BY <1>2, <1>4

(* The bucket that takes them. *)
LEMMA MergedBucket ==
  ASSUME WaitInv, NEW b \in Buckets, NEW c, NEW k, NEW wn, Merges(b, c, k, wn),
         bucket[c].objcount + bucket[b].objcount <= MaxInBucket, bucket[c].pc # "none"
  PROVE  k \in BucketRec /\ BucketOK(c, k, wn) /\ k.pc = bucket[c].pc
<1> DEFINE p == bucket[c]
           q == bucket[b]
           r == p.reserved \o q.reserved
           v == p.waiting \o q.waiting
           n == p.objcount + q.objcount
<1>0. c \in Buckets /\ c # b
  BY DEF Merges
<1>1. /\ p \in BucketRec /\ ListPart(c, p, wait) /\ ThreadPart(c, p, wait)
      /\ Len(p.held) \in Nat /\ Len(p.waiting) \in Nat /\ Len(p.reserved) \in Nat
  BY <1>0, BucketFacts
<1>2. /\ q \in BucketRec /\ ListPart(b, q, wait)
      /\ Len(q.waiting) \in Nat /\ Len(q.reserved) \in Nat
  BY BucketFacts
<1>3. /\ p.reserved \in Seq(Waits) /\ p.waiting \in Seq(Waits) /\ p.objcount \in 0..MaxInBucket
      /\ q.reserved \in Seq(Waits) /\ q.waiting \in Seq(Waits) /\ q.objcount \in 0..MaxInBucket
  BY <1>1, <1>2 DEF BucketRec
<1>4. Rng(p.reserved) \cap Rng(q.reserved) = {} /\ Rng(p.waiting) \cap Rng(q.waiting) = {}
  <2>1. /\ \A x \in Rng(p.reserved) \cup Rng(p.waiting) : x \in Waits
        /\ \A x \in Rng(q.reserved) \cup Rng(q.waiting) : x \in Waits
    BY <1>3 DEF Rng
  <2> QED
    BY <1>0, <1>1, <1>2, <2>1 DEF ListPart
<1>5. /\ r \in Seq(Waits) /\ Len(r) = Len(p.reserved) + Len(q.reserved)
      /\ Rng(r) = Rng(p.reserved) \cup Rng(q.reserved) /\ Once(r)
  BY <1>1, <1>2, <1>3, <1>4, ConcatIs DEF ListPart
<1>6. /\ v \in Seq(Waits) /\ Len(v) = Len(p.waiting) + Len(q.waiting)
      /\ Rng(v) = Rng(p.waiting) \cup Rng(q.waiting) /\ Once(v)
  BY <1>1, <1>2, <1>3, <1>4, ConcatIs DEF ListPart
<1>7. n \in 0..MaxInBucket
  BY <1>3, WaitConstants
<1>8. n = Len(r) + Len(v)
  <2>1. PICK a \in Nat, d \in Nat, e \in Nat, f \in Nat :
          a = Len(p.reserved) /\ d = Len(p.waiting) /\ e = Len(q.reserved) /\ f = Len(q.waiting)
    BY <1>1, <1>2
  <2>2. n = (a + d) + (e + f)
    BY ONLY <1>1, <1>2, <2>1 DEF ListPart, n
  <2>3. Len(r) = a + e /\ Len(v) = d + f
    BY ONLY <1>5, <1>6, <2>1
  <2>4. (a + d) + (e + f) = (a + e) + (d + f)
    OBVIOUS
  <2> QED
    BY ONLY <2>2, <2>3, <2>4
<1>9. k = [p EXCEPT !.objcount = n, !.reserved = r, !.waiting = v, !.update = TRUE]
  BY DEF Merges, Joined, Updated
<1> HIDE DEF n, r, v
<1>10. /\ k \in BucketRec /\ k.objcount = n /\ k.reserved = r /\ k.waiting = v /\ k.update = TRUE
       /\ k.pc = p.pc /\ k.held = p.held /\ k.hit = p.hit
  BY <1>1, <1>5, <1>6, <1>7, <1>9 DEF BucketRec
<1>11. /\ \A x \in Waits : wn[x].pending = wait[x].pending
       /\ \A x \in Waits : wait[x].bucket = b => wn[x].bucket = c
       /\ \A x \in Waits : wait[x].bucket # b => wn[x] = wait[x]
  BY MergedWaits
<1>12. ListPart(c, k, wn)
  <2>1. ASSUME NEW x \in Waits
        PROVE  /\ x \in Rng(r) <=> (wn[x].bucket = c /\ wn[x].pending = FALSE)
               /\ x \in Rng(v) <=> (wn[x].bucket = c /\ wn[x].pending = TRUE)
    <3>1. /\ x \in Rng(p.reserved) <=> (wait[x].bucket = c /\ wait[x].pending = FALSE)
          /\ x \in Rng(p.waiting) <=> (wait[x].bucket = c /\ wait[x].pending = TRUE)
      BY <1>1 DEF ListPart
    <3>2. /\ x \in Rng(q.reserved) <=> (wait[x].bucket = b /\ wait[x].pending = FALSE)
          /\ x \in Rng(q.waiting) <=> (wait[x].bucket = b /\ wait[x].pending = TRUE)
      BY <1>2 DEF ListPart
    <3>3. /\ wn[x].pending = wait[x].pending
          /\ wait[x].bucket = b => wn[x].bucket = c
          /\ wait[x].bucket # b => wn[x] = wait[x]
      BY <1>11
    <3>4. wn[x].bucket = c <=> (wait[x].bucket = c \/ wait[x].bucket = b)
      BY <3>3
    <3> QED
      BY <1>5, <1>6, <3>1, <3>2, <3>3, <3>4
  <2> QED
    BY <1>5, <1>6, <1>8, <1>10, <2>1 DEF ListPart
<1>13. ThreadPart(c, k, wn)
  <2>1. ASSUME NEW i \in 1..Len(p.held)
        PROVE  wn[p.held[i].obj].bucket \in {c, NoBucket}
    <3>1. p.held \in Seq(HeldRecord)
      BY <1>1 DEF BucketRec
    <3>2. p.held[i] \in HeldRecord
      BY <3>1
    <3>3. p.held[i].obj \in Waits
      BY <3>2 DEF HeldRecord
    <3>4. wait[p.held[i].obj].bucket \in {c, NoBucket}
      BY <1>1 DEF ThreadPart
    <3> QED
      BY <1>11, <3>3, <3>4
  <2> QED
    BY <1>1, <1>10, <2>1 DEF ThreadPart
<1>14. NotStale(k, wn)
  BY <1>10 DEF NotStale
<1> QED
  BY <1>10, <1>12, <1>13, <1>14 DEF BucketOK

(* The thread goes on, its objects merged into another bucket or not. *)
LEMMA MergesKeeps ==
  ASSUME WaitInv, NEW b \in Buckets, WaitThreadMerges(b)
  PROVE  WaitInv'
<1> DEFINE q == bucket[b]
           Can1 == /\ Takers(b) # {} /\ bucket[b].objcount > 0
                   /\ bucket[b].objcount <= MaxInBucket \div 3
<1>1. /\ q \in BucketRec /\ ListPart(b, q, wait) /\ ThreadPart(b, q, wait)
      /\ bucket \in [Buckets -> BucketRec] /\ WaitsOK(wait) /\ wait \in [Waits -> WaitRec]
      /\ event \in [Handles -> [set : BOOLEAN, sent : Nat]] /\ buckets \in Seq(Buckets)
      /\ Len(q.held) \in Nat
  BY BucketFacts
<1>2. q.pc = "drop" /\ q.held = <<>> /\ event' = event
  BY DEF WaitThreadMerges
<1>3. q.hit = 0
  BY <1>1, <1>2 DEF ThreadPart
<1>4. CASE ~Can1
  <2> DEFINE d == [q EXCEPT !.pc = "scan"]
  <2>1. bucket' = [bucket EXCEPT ![b] = d] /\ wait' = wait /\ buckets' = buckets
    BY <1>1, <1>4 DEF WaitThreadMerges
  <2>2. /\ d \in BucketRec /\ d.pc = "scan" /\ d.hit = 0 /\ d.held = <<>>
        /\ d.reserved = q.reserved /\ d.waiting = q.waiting /\ d.objcount = q.objcount
    BY <1>1, <1>2, <1>3 DEF BucketRec
  <2> HIDE DEF d
  <2>3. ThreadPart(b, d, wait) /\ NotStale(d, wait)
    BY <1>1, <1>2, <2>2 DEF ThreadPart, NotStale
  <2>4. ThreadMoves(b, d)
    BY <1>1, <1>2, <2>1, <2>2, <2>3 DEF ThreadMoves
  <2> QED
    BY <2>4, ThreadMovesKeeps
<1>5. CASE Can1
  <2>0. PICK first : first = (CHOOSE i \in Takers(b) : \A j \in Takers(b) : i <= j)
    OBVIOUS
  <2> DEFINE c == buckets[first]
             k == Joined(c, b)
             e == Emptied(b)
             wn == [o \in Waits |-> IF wait[o].bucket = b THEN [wait[o] EXCEPT !.bucket = c]
                                                   ELSE wait[o]]
             bs == Append(Without(buckets, {b}), b)
  <2>1. wait' = wn /\ buckets' = bs /\ bucket' = [bucket EXCEPT ![c] = k, ![b] = e]
    BY <1>5, <2>0 DEF WaitThreadMerges
  <2>2. /\ c \in Buckets /\ c # b /\ bucket[c].objcount > 0
        /\ bucket[c].objcount + bucket[b].objcount <= (MaxInBucket * 2) \div 3
        /\ c \in Rng(buckets)
    <3>1. DOMAIN buckets = 1..Len(buckets) /\ Len(buckets) \in Nat
      BY <1>1, LenProperties
    <3>2. Takers(b) \in SUBSET Nat /\ Takers(b) # {} /\ Takers(b) \subseteq DOMAIN buckets
      BY <1>5, <3>1 DEF Takers
    <3>3. PICK i \in Takers(b) : c = buckets[i]
      BY <2>0, <3>2, FirstIs
    <3> HIDE DEF c
    <3> QED
      BY <1>1, <3>1, <3>3 DEF Takers, Rng
  <2>3. bucket[c].objcount + bucket[b].objcount <= MaxInBucket /\ bucket[c].pc # "none"
    <3>1. bucket[c].pc # "none"
      BY <2>2 DEF WaitInv
    <3>2. bucket[c].objcount \in Nat /\ bucket[b].objcount \in Nat
      BY <1>1, <2>2, WaitConstants DEF BucketRec
    <3>3. (MaxInBucket * 2) \div 3 <= MaxInBucket /\ (MaxInBucket * 2) \div 3 \in Int
      BY WaitConstants
    <3> QED
      BY <2>2, <3>1, <3>2, <3>3, WaitConstants
  <2>4. Merges(b, c, k, wn)
    BY <2>2 DEF Merges
  <2> HIDE DEF c, k, wn
  <2>5. k \in BucketRec /\ BucketOK(c, k, wn) /\ k.pc = bucket[c].pc
    BY <2>3, <2>4, MergedBucket
  <2>6. /\ WaitsOK(wn)
        /\ \A x \in Waits : wait[x].bucket = b => wn[x].bucket = c
        /\ \A x \in Waits : wait[x].bucket # b => wn[x] = wait[x]
    BY <2>4, MergedWaits
  <2>7. /\ e \in BucketRec /\ e.pc = "scan" /\ e.hit = 0 /\ e.held = <<>>
        /\ e.reserved = <<>> /\ e.waiting = <<>> /\ e.objcount = 0
    <3>1. <<>> \in Seq(Waits) /\ 0 \in 0..MaxInBucket
      BY WaitConstants
    <3> QED
      BY <1>1, <1>2, <1>3, <3>1 DEF BucketRec, Emptied
  <2> HIDE DEF e
  <2>8. BucketOK(b, e, wn)
    <3>1. \A x \in Waits : wn[x].bucket # b
      BY <2>2, <2>6
    <3>2. Rng(<<>>) = {} /\ Once(<<>>)
      BY DEF Rng, Once
    <3>3. ListPart(b, e, wn)
      BY <2>7, <3>1, <3>2 DEF ListPart
    <3>4. ThreadPart(b, e, wn) /\ NotStale(e, wn)
      BY <2>7, WaitConstants DEF ThreadPart, NotStale
    <3> QED
      BY <2>7, <3>3, <3>4 DEF BucketOK
  <2> DEFINE bk == [bucket EXCEPT ![c] = k, ![b] = e]
  <2>9. /\ bk \in [Buckets -> BucketRec] /\ bk[c] = k /\ bk[b] = e
        /\ \A d \in Buckets : d # b /\ d # c => bk[d] = bucket[d]
    BY <1>1, <2>2, <2>5, <2>7
  <2> HIDE DEF bk
  <2>10. ASSUME NEW d \in Buckets
         PROVE  BucketOK(d, bk[d], wn)
    <3>1. CASE d = b
      BY <3>1, <2>8, <2>9
    <3>2. CASE d = c
      BY <3>2, <2>5, <2>9
    <3>3. CASE d # b /\ d # c
      <4>1. bk[d] = bucket[d] /\ bucket[d] \in BucketRec /\ BucketOK(d, bucket[d], wait)
        BY <3>3, <2>9, <1>1 DEF WaitInv
      <4>2. ASSUME NEW i \in 1..Len(bucket[d].held)
            PROVE  wn[bucket[d].held[i].obj].bucket \in {d, NoBucket}
        <5>1. bucket[d].held \in Seq(HeldRecord)
          BY <4>1 DEF BucketRec
        <5>2. bucket[d].held[i] \in HeldRecord
          BY <5>1
        <5>3. bucket[d].held[i].obj \in Waits
          BY <5>2 DEF HeldRecord
        <5>4. wait[bucket[d].held[i].obj].bucket \in {d, NoBucket}
          BY <4>1 DEF BucketOK, ThreadPart
        <5>5. b # NoBucket
          BY WaitConstants
        <5> QED
          BY <2>6, <3>3, <5>3, <5>4, <5>5
      <4>3. SameFor(d, bucket[d], wait, wn)
        BY <2>6, <3>3, <4>2 DEF SameFor
      <4> QED
        BY <4>1, <4>3, BucketSame
    <3> QED
      BY <3>1, <3>2, <3>3
  <2>11. Linked(bk, bs)
    <3>1. /\ Without(buckets, {b}) \in Seq(Buckets)
          /\ Rng(Without(buckets, {b})) = Rng(buckets) \ {b}
      BY <1>1, WithoutIs
    <3>2. bs \in Seq(Buckets) /\ Rng(bs) = (Rng(buckets) \ {b}) \cup {b}
      <4>1. PICK s \in Seq(Buckets) : s = Without(buckets, {b})
        BY <3>1
      <4>2. Append(s, b) \in Seq(Buckets) /\ Rng(Append(s, b)) = Rng(s) \cup {b}
        BY AppendIs
      <4> QED
        BY <3>1, <4>1, <4>2
    <3>3. b \in Rng(buckets) /\ \A x \in Buckets : (bucket[x].pc = "none") <=> (x \notin Rng(buckets))
      BY <1>2 DEF WaitInv
    <3>4. ASSUME NEW x \in Buckets
          PROVE  (bk[x].pc = "none") <=> (bucket[x].pc = "none")
      BY <1>2, <2>5, <2>7, <2>9
    <3> HIDE DEF bs
    <3> QED
      BY <3>2, <3>3, <3>4 DEF Linked
  <2>12. wait' = wn /\ bucket' = bk /\ buckets' = bs
    BY <2>1 DEF bk
  <2> HIDE DEF bs
  <2> QED
    BY <1>1, <1>2, <2>6, <2>9, <2>10, <2>11, <2>12, WaitInvBecomes
<1> QED
  BY <1>4, <1>5

(* The wait queue's invariant holds initially. *)
LEMMA WaitInitInv ==
  ASSUME WaitInit
  PROVE  WaitInv
<1>1. /\ NewBucket \in BucketRec /\ NewBucket.objcount = 0 /\ NewBucket.reserved = <<>>
      /\ NewBucket.waiting = <<>> /\ NewBucket.held = <<>> /\ NewBucket.hit = 0
      /\ NewBucket.pc = "none"
  BY WaitConstants DEF NewBucket, BucketRec
<1>2. NoWait \in WaitRec /\ NoWait.bucket = NoBucket /\ NoWait.pending = FALSE
  BY DEF NoWait, WaitRec
<1>3. /\ bucket \in [Buckets -> BucketRec] /\ WaitsOK(wait) /\ buckets = <<>>
      /\ event \in [Handles -> [set : BOOLEAN, sent : Nat]]
  BY <1>1, <1>2 DEF WaitInit, WaitsOK
<1>4. Rng(<<>>) = {} /\ Once(<<>>)
  BY DEF Rng, Once
<1>5. ASSUME NEW b \in Buckets
      PROVE  BucketOK(b, bucket[b], wait)
  <2>1. bucket[b] = NewBucket /\ \A o \in Waits : wait[o].bucket # b
    BY <1>2, WaitConstants DEF WaitInit
  <2>2. ListPart(b, NewBucket, wait)
    BY <1>1, <1>4, <2>1 DEF ListPart
  <2>3. ThreadPart(b, NewBucket, wait) /\ NotStale(NewBucket, wait)
    BY <1>1, WaitConstants DEF ThreadPart, NotStale
  <2> QED
    BY <1>1, <2>1, <2>2, <2>3 DEF BucketOK
<1>6. \A b \in Buckets : (bucket[b].pc = "none") <=> (b \notin Rng(buckets))
  BY <1>1, <1>3, <1>4 DEF WaitInit
<1> QED
  BY <1>3, <1>5, <1>6 DEF WaitInv

(* Every step of the pool keeps it. *)
LEMMA WaitStepKeeps ==
  ASSUME WaitInv, now \in Nat, WaitStep
  PROVE  WaitInv'
<1>1. CASE UNCHANGED waitVars
  <2>1. UNCHANGED <<wait, bucket, buckets, event>>
    BY <1>1 DEF waitVars
  <2>2. Linked(bucket, buckets)
    BY DEF WaitInv, Linked
  <2> QED
    BY <2>1, <2>2, WaitInvBecomes DEF WaitInv
<1>2. ASSUME NEW o \in Waits, wait[o].bucket = NoBucket, NotHeld(o), tp_waitqueue_lock(o)
      PROVE  WaitInv'
  BY <1>2, LockKeeps
<1>3. ASSUME NEW S \in SUBSET Waits, tp_waitqueue_unlock(S) PROVE WaitInv'
  BY <1>3, UnlockKeeps
<1>4. ASSUME NEW o \in Waits, NEW h \in Handles \cup {NoBucket}, NEW delay \in Nat,
             TpSetWaitEx(o, h, delay)
      PROVE  WaitInv'
  BY <1>4, SetWaitKeeps
<1>5. ASSUME NEW h \in Handles, SetEvent(h) PROVE WaitInv'
  BY <1>5, SetEventKeeps
<1>6. ASSUME NEW b \in Buckets, WaitThreadStep(b) PROVE WaitInv'
  <2>1. CASE WaitThreadStarts(b)
    BY <2>1, StartsKeeps
  <2>2. CASE WaitThreadWakes(b)
    BY <2>2, WakesKeeps
  <2>3. CASE WaitReturns(b)
    BY <2>3, ReturnsKeeps
  <2>4. CASE WaitThreadMerges(b)
    BY <2>4, MergesKeeps
  <2>5. CASE WaitThreadEnds(b)
    BY <2>5, EndsKeeps
  <2> QED
    BY <1>6, <2>1, <2>2, <2>3, <2>4, <2>5 DEF WaitThreadStep
<1>7. ASSUME NEW b \in Buckets, WaitElapses(b) PROVE WaitInv'
  BY <1>7, ElapsesKeeps
<1>8. ASSUME NEW b \in Buckets, WaitThreadBlocks(b) PROVE WaitInv'
  BY <1>8, BlocksKeeps
<1>9. ASSUME NEW b \in Buckets, WaitFires(b) PROVE WaitInv'
  BY <1>9, FiresKeeps
<1>10. ASSUME NEW b \in Buckets, WaitThreadDrops(b) PROVE WaitInv'
  BY <1>10, DropsKeeps
<1> QED
  BY <1>1, <1>2, <1>3, <1>4, <1>5, <1>6, <1>7, <1>8, <1>9, <1>10 DEF WaitStep

(* It says what is promised of the wait queue. *)
LEMMA WaitInvGives ==
  ASSUME WaitInv
  PROVE  WaitTypeOK /\ WaitQueueSound
<1>1. WaitTypeOK
  BY DEF WaitInv, WaitsOK, WaitTypeOK, WaitRec, BucketRec
<1>2. BucketsSound
  <2> SUFFICES ASSUME NEW b \in Buckets
               PROVE  LET all == bucket[b].reserved \o bucket[b].waiting
                          Mine == {o \in Waits : wait[o].bucket = b}
                      IN /\ {all[i] : i \in DOMAIN all} = Mine
                         /\ {bucket[b].waiting[i] : i \in DOMAIN bucket[b].waiting}
                              = {o \in Mine : wait[o].pending}
                         /\ Len(all) = Cardinality(Mine) /\ bucket[b].objcount = Len(all)
                         /\ (bucket[b].pc = "none") <=> \A i \in DOMAIN buckets : buckets[i] # b
    BY DEF BucketsSound
  <2> DEFINE k == bucket[b]
             all == k.reserved \o k.waiting
             Mine == {o \in Waits : wait[o].bucket = b}
  <2>1. /\ k \in BucketRec /\ ListPart(b, k, wait) /\ wait \in [Waits -> WaitRec]
        /\ buckets \in Seq(Buckets)
    BY BucketFacts
  <2>2. k.reserved \in Seq(Waits) /\ k.waiting \in Seq(Waits) /\ Once(k.reserved) /\ Once(k.waiting)
    BY <2>1 DEF BucketRec, ListPart
  <2>3. Rng(k.reserved) \subseteq Waits /\ Rng(k.waiting) \subseteq Waits
    BY <2>2 DEF Rng
  <2>4. Rng(k.reserved) \cap Rng(k.waiting) = {} /\ Rng(k.reserved) \cup Rng(k.waiting) = Mine
    <3>1. \A o \in Waits : wait[o].pending \in BOOLEAN
      BY <2>1 DEF WaitRec
    <3>2. ASSUME NEW o \in Waits
          PROVE  /\ o \in Rng(k.reserved) <=> (wait[o].bucket = b /\ wait[o].pending = FALSE)
                 /\ o \in Rng(k.waiting) <=> (wait[o].bucket = b /\ wait[o].pending = TRUE)
      BY <2>1 DEF ListPart
    <3> QED
      BY <2>3, <3>1, <3>2
  <2>5. /\ all \in Seq(Waits) /\ Len(all) = Len(k.reserved) + Len(k.waiting)
        /\ Rng(all) = Rng(k.reserved) \cup Rng(k.waiting) /\ Once(all)
    BY <2>2, <2>4, ConcatIs
  <2>6. Rng(k.waiting) = {o \in Mine : wait[o].pending}
    <3>1. \A o \in Waits : o \in Rng(k.waiting) <=> (wait[o].bucket = b /\ wait[o].pending = TRUE)
      BY <2>1 DEF ListPart
    <3>2. \A o \in Waits : wait[o].pending \in BOOLEAN
      BY <2>1 DEF WaitRec
    <3> QED
      BY <2>3, <3>1, <3>2
  <2> HIDE DEF all, Mine
  <2>7. Cardinality(Mine) = Len(all)
    BY <2>4, <2>5, OnceCard
  <2>8. k.objcount = Len(all)
    BY <2>1, <2>5 DEF ListPart
  <2>9. {all[i] : i \in DOMAIN all} = Mine
    <3>1. {all[i] : i \in DOMAIN all} = Rng(all)
      BY DEF Rng
    <3> QED
      BY <2>4, <2>5, <3>1
  <2>10. {k.waiting[i] : i \in DOMAIN k.waiting} = {o \in Mine : wait[o].pending}
    <3>1. {k.waiting[i] : i \in DOMAIN k.waiting} = Rng(k.waiting)
      BY <2>2, RngIs
    <3> QED
      BY <2>6, <3>1
  <2>11. (k.pc = "none") <=> \A i \in DOMAIN buckets : buckets[i] # b
    <3>1. (k.pc = "none") <=> (b \notin Rng(buckets))
      BY DEF WaitInv
    <3>2. DOMAIN buckets = 1..Len(buckets)
      BY <2>1
    <3> QED
      BY <3>1, <3>2 DEF Rng
  <2> QED
    BY <2>7, <2>8, <2>9, <2>10, <2>11 DEF all, Mine
<1>3. NoStaleHandles
  <2> SUFFICES ASSUME NEW b \in Buckets, bucket[b].pc = "block", ~bucket[b].update
               PROVE  /\ Len(bucket[b].held) = Len(bucket[b].waiting)
                      /\ \A i \in DOMAIN bucket[b].held :
                           bucket[b].held[i] = Watched(wait, bucket[b].waiting[i])
    BY DEF NoStaleHandles, Watched
  <2>1. bucket[b] \in BucketRec /\ NotStale(bucket[b], wait)
    BY BucketFacts
  <2>2. bucket[b].update = FALSE /\ bucket[b].held \in Seq(HeldRecord)
    BY <2>1 DEF BucketRec
  <2>3. DOMAIN bucket[b].held = 1..Len(bucket[b].held)
    BY <2>2
  <2> QED
    BY <2>1, <2>2, <2>3 DEF NotStale
<1> QED
  BY <1>1, <1>2, <1>3 DEF WaitQueueSound

-----------------------------------------------------------------------------
(* The shape of the pool's state: types, with the counters as integers, and *)
(* which object a thread has at which point.                                *)

PoolRec == [life : {"live", "gone"}, cs : Workers \cup {Nil, "io"}, refcount : Int,
            objcount : Int, shutdown : BOOLEAN, max_workers : Nat \ {0}, min_workers : Nat,
            num_workers : Int, num_busy_workers : Int, late : 0..MaxLate]
ObjRec == [life : {"none", "live", "dying", "gone"}, owner : {"none", "user", "group"},
           refcount : Int, shutdown : BOOLEAN, grouped : BOOLEAN, member : BOOLEAN,
           pending : Int, running : Int, associated : Int, signaled : Int, ops : Int,
           skipped : Int, completions : Int, posts : Int]
GroupRec == [life : {"live", "gone"}, refcount : Int, shutdown : BOOLEAN, members : Seq(Objects)]
WorkerRec == [pc : {"none", "run", "callback", "destroy", "check", "asleep", "timedout", "leave"},
              obj : Objects \cup {Nil}, associated : BOOLEAN, may_run_long : BOOLEAN]
CallerRec == [pc : {"idle", "submit", "join", "release", "destroy", "wait", "sleep",
                    "gcancel", "gwait", "gsleep", "gdrop"},
              obj : Objects \cup {Nil}, list : Seq(Objects), todo : Seq(Objects)]

WorkerSet == {r \in WorkerRec : r.pc \in {"callback", "destroy"} => r.obj \in Objects}
CallerSet ==
    {c \in CallerRec :
       /\ c.pc \in {"submit", "join", "release", "destroy", "wait", "sleep", "gsleep"} => c.obj \in Objects
       /\ c.pc \in {"gcancel", "gwait", "gsleep", "gdrop"} => c.list # <<>>
       /\ c.pc = "gcancel" => c.todo # <<>>}

(* The lists of the pool: each object is on that of its priority. *)
OfPriority(p) == {o \in Objects : Priority[o] = p}
PoolLists == {f \in [1..3 -> Seq(Objects)] : \A p \in 1..3 : f[p] \in Seq(OfPriority(p))}

Shape ==
    /\ pool \in PoolRec /\ pools \in PoolLists /\ obj \in [Objects -> ObjRec]
    /\ group \in GroupRec /\ worker \in [Workers -> WorkerSet] /\ caller \in [Callers -> CallerSet]

(* An object that is allocated stays so, or is gone for good. *)
ObjKept ==
    /\ obj' \in [Objects -> ObjRec]
    /\ \A o \in Objects : obj'[o].life = "none" => obj[o].life = "none"

(* One list changes. *)
LEMMA OneList ==
  ASSUME NEW f \in PoolLists, NEW q \in 1..3, NEW s \in Seq(OfPriority(q))
  PROVE  [f EXCEPT ![q] = s] \in PoolLists
<1>1. s \in Seq(Objects)
  <2>1. OfPriority(q) \subseteq Objects
    BY DEF OfPriority
  <2> QED
    BY <2>1
<1> QED
  BY <1>1 DEF PoolLists

(* The list that an object may be on. *)
LEMMA ListOf ==
  ASSUME NEW f \in PoolLists, NEW o \in Objects
  PROVE  /\ Priority[o] \in 1..3 /\ o \in OfPriority(Priority[o])
         /\ f[Priority[o]] \in Seq(OfPriority(Priority[o]))
  BY PoolConstants DEF PoolLists, OfPriority

(* Records that are made. *)
LEMMA FreshRecords ==
  /\ NoObject \in ObjRec /\ NoWorker \in WorkerSet /\ NoWorker.obj = Nil
  /\ [NoWorker EXCEPT !.pc = "run"] \in WorkerSet
  /\ Idle \in CallerSet /\ Idle.pc = "idle" /\ Idle.obj = Nil /\ Idle.list = <<>> /\ Idle.todo = <<>>
<1>1. NoObject \in ObjRec
  BY DEF NoObject, ObjRec
<1>2. NoWorker \in WorkerRec /\ NoWorker.pc = "none" /\ NoWorker.obj = Nil
  BY DEF NoWorker, WorkerRec
<1>3. NoWorker \in WorkerSet
  BY <1>2 DEF WorkerSet
<1>4. [NoWorker EXCEPT !.pc = "run"] \in WorkerSet
  BY <1>2 DEF WorkerSet, WorkerRec
<1>5. Idle \in CallerRec /\ Idle.pc = "idle" /\ Idle.obj = Nil /\ Idle.list = <<>> /\ Idle.todo = <<>>
  BY DEF Idle, CallerRec
<1> QED
  BY <1>1, <1>2, <1>3, <1>4, <1>5 DEF CallerSet

(* One object changes. *)
LEMMA OneObject ==
  ASSUME Shape, NEW o \in Objects, NEW e \in ObjRec, e.life = "none" => obj[o].life = "none",
         obj' = [obj EXCEPT ![o] = e]
  PROVE  ObjKept
  BY DEF Shape, ObjKept

(* What an object becomes when references are dropped. *)
LEMMA DroppedIs ==
  ASSUME NEW ob \in ObjRec, NEW n \in Int
  PROVE  LET e == Dropped(ob, n) IN
         /\ e \in ObjRec /\ e.refcount = ob.refcount - n
         /\ e.life = IF ob.refcount = n THEN "dying" ELSE ob.life
         /\ e.owner = ob.owner /\ e.shutdown = ob.shutdown /\ e.grouped = ob.grouped
         /\ e.member = ob.member /\ e.pending = ob.pending /\ e.running = ob.running
         /\ e.associated = ob.associated /\ e.signaled = ob.signaled /\ e.ops = ob.ops
         /\ e.skipped = ob.skipped /\ e.completions = ob.completions /\ e.posts = ob.posts
<1>1. ob.refcount \in Int
  BY DEF ObjRec
<1>2. PICK m \in Int : m = ob.refcount - n
  BY <1>1
<1>3. PICK l : l = (IF ob.refcount = n THEN "dying" ELSE ob.life)
  OBVIOUS
<1>4. l \in {"none", "live", "dying", "gone"}
  BY <1>3 DEF ObjRec
<1>5. Dropped(ob, n) = [ob EXCEPT !.refcount = m, !.life = l]
  BY <1>2, <1>3 DEF Dropped
<1>6. LET e == [ob EXCEPT !.refcount = m, !.life = l] IN
         /\ e \in ObjRec /\ e.refcount = m /\ e.life = l
         /\ e.owner = ob.owner /\ e.shutdown = ob.shutdown /\ e.grouped = ob.grouped
         /\ e.member = ob.member /\ e.pending = ob.pending /\ e.running = ob.running
         /\ e.associated = ob.associated /\ e.signaled = ob.signaled /\ e.ops = ob.ops
         /\ e.skipped = ob.skipped /\ e.completions = ob.completions /\ e.posts = ob.posts
  BY <1>4 DEF ObjRec
<1> QED
  BY ONLY <1>2, <1>3, <1>5, <1>6

(* No object changes. *)
LEMMA NoObjectChanges ==
  ASSUME Shape, obj' = obj
  PROVE  ObjKept
  BY DEF Shape, ObjKept

(* What an object becomes when its callbacks are cancelled. *)
LEMMA ForgottenIs ==
  ASSUME NEW ob \in ObjRec
  PROVE  LET e == Forgotten(ob) IN
         /\ e \in ObjRec /\ e.refcount = ob.refcount - ob.pending
         /\ e.life = IF ob.refcount = ob.pending THEN "dying" ELSE ob.life
         /\ e.owner = ob.owner /\ e.shutdown = ob.shutdown /\ e.grouped = ob.grouped
         /\ e.member = ob.member /\ e.pending = 0 /\ e.running = ob.running
         /\ e.associated = ob.associated /\ e.signaled = 0 /\ e.ops = 0
         /\ e.skipped = ob.skipped + ob.ops /\ e.completions = ob.completions /\ e.posts = ob.posts
<1> DEFINE d == Dropped(ob, ob.pending)
<1>1. ob.pending \in Int /\ ob.ops \in Int
  BY DEF ObjRec
<1>2. /\ d \in ObjRec /\ d.refcount = ob.refcount - ob.pending
      /\ d.life = IF ob.refcount = ob.pending THEN "dying" ELSE ob.life
      /\ d.owner = ob.owner /\ d.shutdown = ob.shutdown /\ d.grouped = ob.grouped
      /\ d.member = ob.member /\ d.running = ob.running
      /\ d.associated = ob.associated /\ d.skipped = ob.skipped
      /\ d.completions = ob.completions /\ d.posts = ob.posts
  BY <1>1, DroppedIs
<1> HIDE DEF d
<1>3. PICK m \in Int : m = d.skipped + ob.ops
  BY <1>1, <1>2 DEF ObjRec
<1>4. PICK z \in Int : z = 0
  OBVIOUS
<1>5. Forgotten(ob) = [d EXCEPT !.pending = z, !.signaled = z, !.skipped = m, !.ops = z]
  BY <1>3, <1>4 DEF Forgotten, d
<1>6. LET e == [d EXCEPT !.pending = z, !.signaled = z, !.skipped = m, !.ops = z] IN
         /\ e \in ObjRec /\ e.refcount = d.refcount /\ e.life = d.life
         /\ e.owner = d.owner /\ e.shutdown = d.shutdown /\ e.grouped = d.grouped
         /\ e.member = d.member /\ e.pending = z /\ e.running = d.running
         /\ e.associated = d.associated /\ e.signaled = z /\ e.ops = z
         /\ e.skipped = m /\ e.completions = d.completions /\ e.posts = d.posts
  BY <1>2 DEF ObjRec
<1> QED
  BY ONLY <1>2, <1>3, <1>4, <1>5, <1>6

(* tp_object_cancel *)
LEMMA CancelShape ==
  ASSUME Shape, NEW o \in Objects, tp_object_cancel(o)
  PROVE  ObjKept /\ pools' \in PoolLists
<1> DEFINE e == Forgotten(obj[o])
<1>1. obj[o] \in ObjRec
  BY DEF Shape
<1>2. e \in ObjRec /\ e.life \in {"dying", obj[o].life}
  BY <1>1, ForgottenIs
<1>3. obj' = [obj EXCEPT ![o] = e]
  BY DEF tp_object_cancel
<1> HIDE DEF e
<1>5. ObjKept
  BY <1>2, <1>3, OneObject
<1>6. pools' \in PoolLists
  <2>1. /\ Priority[o] \in 1..3 /\ pools[Priority[o]] \in Seq(OfPriority(Priority[o]))
        /\ pools \in PoolLists
    BY ListOf DEF Shape
  <2>2. Without(pools[Priority[o]], {o}) \in Seq(OfPriority(Priority[o]))
    BY <2>1, WithoutIs
  <2>3. pools' = [pools EXCEPT ![Priority[o]] = Without(pools[Priority[o]], {o})]
    BY DEF tp_object_cancel
  <2> QED
    BY <2>1, <2>2, <2>3, OneList
<1> QED
  BY <1>5, <1>6

(* tp_new_worker_thread *)
LEMMA NewWorkerShape ==
  ASSUME Shape, NEW p \in PoolRec, tp_new_worker_thread(p)
  PROVE  /\ pool' \in PoolRec /\ worker' \in [Workers -> WorkerSet] /\ NewWorker \in Spare
         /\ Spare \subseteq Workers
<1>1. NewWorker \in Spare /\ Spare \subseteq Workers
  BY DEF tp_new_worker_thread, NewWorker, Spare
<1>2. worker' = [worker EXCEPT ![NewWorker] = [NoWorker EXCEPT !.pc = "run"]]
  BY DEF tp_new_worker_thread
<1>3. worker' \in [Workers -> WorkerSet]
  BY <1>1, <1>2, FreshRecords DEF Shape
<1>4. pool' \in PoolRec
  <2>1. PICK m \in Int, n \in Int : m = p.refcount + 1 /\ n = p.num_workers + 1
    BY DEF PoolRec
  <2>2. pool' = [p EXCEPT !.refcount = m, !.num_workers = n]
    BY <2>1 DEF tp_new_worker_thread
  <2> QED
    BY <2>2 DEF PoolRec
<1> QED
  BY <1>1, <1>3, <1>4

(* RtlWakeConditionVariable *)
LEMMA WakeShape ==
  ASSUME Shape, RtlWakeConditionVariable
  PROVE  worker' \in [Workers -> WorkerSet]
<1>1. CASE Sleepers = {}
  BY <1>1 DEF RtlWakeConditionVariable, Shape
<1>2. CASE Sleepers # {}
  <2>1. PICK w \in Sleepers : worker' = [worker EXCEPT ![w].pc = "run"]
    BY <1>2 DEF RtlWakeConditionVariable
  <2>2. worker[w] \in WorkerSet /\ worker \in [Workers -> WorkerSet] /\ w \in Workers
    BY DEF Shape, Sleepers
  <2>3. [worker[w] EXCEPT !.pc = "run"] \in WorkerSet
    BY <2>2 DEF WorkerSet, WorkerRec
  <2> QED
    BY <2>1, <2>2, <2>3
<1> QED
  BY <1>1, <1>2

(* tp_object_prio_queue *)
LEMMA QueueIs ==
  ASSUME NEW p \in PoolRec, NEW q \in BOOLEAN
  PROVE  tp_object_prio_queue(p, q) \in PoolRec
  BY DEF tp_object_prio_queue, PoolRec

(* tp_object_submit *)
LEMMA SubmitShape ==
  ASSUME Shape, NEW o \in Objects, NEW ob \in ObjRec, ob.life = "none" => obj[o].life = "none",
         NEW p \in PoolRec, tp_object_submit(o, ob, p)
  PROVE  /\ ObjKept /\ pools' \in PoolLists /\ pool' \in PoolRec
         /\ worker' \in [Workers -> WorkerSet]
<1> DEFINE e == [ob EXCEPT !.refcount = @ + 1, !.pending = @ + 1]
           q == tp_object_prio_queue(p, ob.pending = 0)
<1>1. obj' = [obj EXCEPT ![o] = e]
  BY DEF tp_object_submit
<1>2. e \in ObjRec /\ e.life = ob.life
  <2>1. PICK m \in Int, n \in Int : m = ob.refcount + 1 /\ n = ob.pending + 1
    BY DEF ObjRec
  <2>2. e = [ob EXCEPT !.refcount = m, !.pending = n]
    BY <2>1
  <2> QED
    BY <2>2 DEF ObjRec
<1>3. ObjKept
  BY <1>1, <1>2, OneObject
<1>4. /\ Priority[o] \in 1..3 /\ pools[Priority[o]] \in Seq(OfPriority(Priority[o]))
      /\ o \in OfPriority(Priority[o]) /\ pools \in PoolLists
  BY ListOf DEF Shape
<1>5. pools' = (IF ob.pending = 0 THEN [pools EXCEPT ![Priority[o]] = Append(@, o)] ELSE pools)
  BY DEF tp_object_submit
<1>6. pools' \in PoolLists
  <2>1. Append(pools[Priority[o]], o) \in Seq(OfPriority(Priority[o]))
    BY <1>4
  <2>2. [pools EXCEPT ![Priority[o]] = Append(pools[Priority[o]], o)] \in PoolLists
    BY <1>4, <2>1, OneList
  <2> QED
    BY <1>4, <1>5, <2>2
<1>7. q \in PoolRec
  BY QueueIs
<1>8. \/ tp_new_worker_thread(q)
      \/ pool' = q /\ RtlWakeConditionVariable
  BY DEF tp_object_submit
<1> HIDE DEF q
<1>9. pool' \in PoolRec /\ worker' \in [Workers -> WorkerSet]
  BY <1>7, <1>8, NewWorkerShape, WakeShape
<1> QED
  BY <1>3, <1>6, <1>9

(* tp_group_release *)
LEMMA GroupReleaseIs ==
  ASSUME NEW g \in GroupRec
  PROVE  LET h == tp_group_release(g) IN
         /\ h \in GroupRec /\ h.refcount = g.refcount - 1 /\ h.shutdown = g.shutdown
         /\ h.members = g.members /\ h.life = IF g.refcount = 1 THEN "gone" ELSE g.life
<1>1. PICK m \in Int : m = g.refcount - 1
  BY DEF GroupRec
<1>2. PICK l : l = (IF g.refcount = 1 THEN "gone" ELSE g.life)
  OBVIOUS
<1>3. l \in {"live", "gone"}
  BY <1>2 DEF GroupRec
<1>4. tp_group_release(g) = [g EXCEPT !.refcount = m, !.life = l]
  BY <1>1, <1>2 DEF tp_group_release
<1>5. LET h == [g EXCEPT !.refcount = m, !.life = l] IN
         /\ h \in GroupRec /\ h.refcount = m /\ h.shutdown = g.shutdown
         /\ h.members = g.members /\ h.life = l
  BY <1>3 DEF GroupRec
<1> QED
  BY ONLY <1>1, <1>2, <1>4, <1>5

(* tp_threadpool_release *)
LEMMA PoolReleaseIs ==
  ASSUME NEW p \in PoolRec
  PROVE  LET h == tp_threadpool_release(p) IN
         /\ h \in PoolRec /\ h.refcount = p.refcount - 1
         /\ h.life = IF p.refcount = 1 THEN "gone" ELSE p.life
         /\ h.cs = p.cs /\ h.objcount = p.objcount /\ h.shutdown = p.shutdown
         /\ h.max_workers = p.max_workers /\ h.min_workers = p.min_workers
         /\ h.num_workers = p.num_workers /\ h.num_busy_workers = p.num_busy_workers
         /\ h.late = p.late
<1>1. PICK m \in Int : m = p.refcount - 1
  BY DEF PoolRec
<1>2. PICK l : l = (IF p.refcount = 1 THEN "gone" ELSE p.life)
  OBVIOUS
<1>3. l \in {"live", "gone"}
  BY <1>2 DEF PoolRec
<1>4. tp_threadpool_release(p) = [p EXCEPT !.refcount = m, !.life = l]
  BY <1>1, <1>2 DEF tp_threadpool_release
<1>5. LET h == [p EXCEPT !.refcount = m, !.life = l] IN
         /\ h \in PoolRec /\ h.refcount = m /\ h.life = l
         /\ h.cs = p.cs /\ h.objcount = p.objcount /\ h.shutdown = p.shutdown
         /\ h.max_workers = p.max_workers /\ h.min_workers = p.min_workers
         /\ h.num_workers = p.num_workers /\ h.num_busy_workers = p.num_busy_workers
         /\ h.late = p.late
  BY <1>3 DEF PoolRec
<1> QED
  BY ONLY <1>1, <1>2, <1>4, <1>5

(* tp_object_destroy *)
LEMMA DestroyShape ==
  ASSUME Shape, NEW o \in Objects, tp_object_destroy(o)
  PROVE  ObjKept /\ pools' = pools /\ pool' \in PoolRec /\ group' \in GroupRec
<1>1. obj[o] \in ObjRec
  BY DEF Shape
<1> DEFINE e == [NoObject EXCEPT !.life = "gone", !.shutdown = obj[o].shutdown,
                                 !.grouped = obj[o].grouped]
<1>2. e \in ObjRec /\ e.life = "gone"
  BY <1>1, FreshRecords DEF ObjRec
<1>3. obj' = [obj EXCEPT ![o] = e]
  BY DEF tp_object_destroy
<1> HIDE DEF e
<1>4. ObjKept
  BY <1>2, <1>3, OneObject
<1>5. Without(group.members, {o}) \in Seq(Objects)
  <2>1. group.members \in Seq(Objects)
    BY DEF Shape, GroupRec
  <2> QED
    BY <2>1, WithoutIs
<1>6. group' \in GroupRec
  <2>1. group \in GroupRec
    BY DEF Shape
  <2>2. [group EXCEPT !.members = Without(@, {o})] \in GroupRec
    BY <1>5, <2>1 DEF GroupRec
  <2>3. \A g \in GroupRec : tp_group_release(g) \in GroupRec
    BY GroupReleaseIs
  <2> QED
    BY <2>1, <2>2, <2>3 DEF tp_object_destroy
<1>7. pool' \in PoolRec
  <2>1. pool \in PoolRec /\ pool.objcount \in Int
    BY DEF Shape, PoolRec
  <2>2. PICK m \in Int : m = pool.objcount - 1
    BY <2>1
  <2>3. [pool EXCEPT !.objcount = m] \in PoolRec
    BY <2>1 DEF PoolRec
  <2>4. pool' = tp_threadpool_release([pool EXCEPT !.objcount = m])
    BY <2>2 DEF tp_object_destroy
  <2> QED
    BY <2>3, <2>4, PoolReleaseIs
<1> QED
  BY <1>4, <1>6, <1>7 DEF tp_object_destroy

(* WakeWaiters *)
LEMMA WakeWaitersShape ==
  ASSUME Shape, NEW o, NEW ob, NEW events \in SUBSET {"sleep", "gsleep"}, WakeWaiters(o, ob, events)
  PROVE  caller' \in [Callers -> CallerSet]
<1>1. ASSUME NEW t \in Callers
      PROVE  caller'[t] \in CallerSet
  <2>1. caller[t] \in CallerSet
    BY DEF Shape
  <2>2. CASE caller'[t] = caller[t]
    BY <2>1, <2>2
  <2>3. CASE caller'[t] # caller[t]
    <3>1. /\ caller'[t] = [caller[t] EXCEPT !.pc = IF @ = "gsleep" THEN "gwait" ELSE "wait"]
          /\ caller[t].pc \in events \cap {"sleep", "gsleep"}
      BY <2>3 DEF WakeWaiters
    <3>2. CASE caller[t].pc = "gsleep"
      <4>1. caller'[t] = [caller[t] EXCEPT !.pc = "gwait"]
        BY <3>1, <3>2
      <4> QED
        BY <2>1, <3>2, <4>1 DEF CallerSet, CallerRec
    <3>3. CASE caller[t].pc = "sleep"
      <4>1. caller'[t] = [caller[t] EXCEPT !.pc = "wait"]
        BY <3>1, <3>3
      <4> QED
        BY <2>1, <3>3, <4>1 DEF CallerSet, CallerRec
    <3> QED
      BY <3>1, <3>2, <3>3
  <2> QED
    BY <2>2, <2>3
<1> QED
  BY <1>1 DEF WakeWaiters

(* What is shaped after a step. *)
LEMMA ShapeBecomes ==
  ASSUME pool' \in PoolRec, pools' \in PoolLists, ObjKept, group' \in GroupRec,
         worker' \in [Workers -> WorkerSet], caller' \in [Callers -> CallerSet]
  PROVE  Shape' /\ ObjKept
  BY DEF Shape, ObjKept

(* A step that leaves the objects alone. *)
LEMMA ShapeStays ==
  ASSUME Shape, pools' = pools, obj' = obj, group' = group,
         pool' \in PoolRec, worker' \in [Workers -> WorkerSet], caller' \in [Callers -> CallerSet]
  PROVE  Shape' /\ ObjKept
  BY NoObjectChanges, ShapeBecomes DEF Shape

(* Workers that go on. *)
LEMMA WorkerGoes ==
  ASSUME Shape, NEW w \in Workers, NEW r \in WorkerSet, worker' = [worker EXCEPT ![w] = r]
  PROVE  worker' \in [Workers -> WorkerSet]
  BY DEF Shape

(* A worker that has no object at its next point. *)
LEMMA WorkerAt ==
  ASSUME NEW r \in WorkerSet, NEW pc \in {"run", "check", "asleep", "timedout", "leave"}
  PROVE  [r EXCEPT !.pc = pc] \in WorkerSet
  BY DEF WorkerSet, WorkerRec

(* The lock of the pool passes. *)
LEMMA LockedIs ==
  ASSUME NEW p \in PoolRec, NEW c \in Workers \cup {Nil, "io"}
  PROVE  [p EXCEPT !.cs = c] \in PoolRec
  BY DEF PoolRec

(* A worker starts or leaves a callback. *)
LEMMA WithObject ==
  ASSUME NEW o \in Objects
  PROVE  /\ [NoWorker EXCEPT !.pc = "callback", !.obj = o, !.associated = TRUE] \in WorkerSet
         /\ [NoWorker EXCEPT !.pc = "destroy", !.obj = o] \in WorkerSet
<1>1. NoWorker \in WorkerRec
  BY FreshRecords DEF WorkerSet
<1> QED
  BY <1>1 DEF WorkerSet, WorkerRec

(* The first item of the first list that has one. *)
LEMMA NextItem ==
  ASSUME Shape, Waiting
  PROVE  /\ FirstList \in 1..3 /\ pools[FirstList] # <<>>
         /\ \A q \in 1..(FirstList - 1) : pools[q] = <<>>
         /\ threadpool_get_next_item \in Objects
         /\ Priority[threadpool_get_next_item] = FirstList
<1>1. \E p \in 1..3 : pools[p] # <<>> /\ \A q \in 1..(p - 1) : pools[q] = <<>>
  <2>1. CASE pools[1] # <<>>
    BY <2>1
  <2>2. CASE pools[1] = <<>> /\ pools[2] # <<>>
    BY <2>2
  <2>3. CASE pools[1] = <<>> /\ pools[2] = <<>>
    <3>1. pools[3] # <<>>
      BY <2>3 DEF Waiting
    <3> QED
      BY <2>3, <3>1
  <2> QED
    BY <2>1, <2>2, <2>3
<1>2. FirstList \in 1..3 /\ pools[FirstList] # <<>> /\ \A q \in 1..(FirstList - 1) : pools[q] = <<>>
  BY <1>1 DEF FirstList
<1>3. pools[FirstList] \in Seq(OfPriority(FirstList))
  BY <1>2 DEF Shape, PoolLists
<1>4. Head(pools[FirstList]) \in OfPriority(FirstList)
  BY <1>2, <1>3
<1> QED
  BY <1>2, <1>4 DEF threadpool_get_next_item, OfPriority

(* What an object becomes when a callback of it is started. *)
ExecutedIs(ob, e, io_) ==
    /\ e \in ObjRec /\ e.refcount = ob.refcount /\ e.life = ob.life
    /\ e.owner = ob.owner /\ e.shutdown = ob.shutdown /\ e.grouped = ob.grouped
    /\ e.member = ob.member /\ e.pending = ob.pending - 1 /\ e.running = ob.running + 1
    /\ e.associated = ob.associated + 1 /\ e.ops = ob.ops /\ e.skipped = ob.skipped
    /\ ob.signaled > 0 => e.signaled = ob.signaled - 1
    /\ ~(ob.signaled > 0) => e.signaled = 0
    /\ io_ => e.completions = ob.completions - 1
    /\ ~io_ => e.completions = ob.completions
    /\ e.posts = ob.posts

(* What a take leaves of the record: one callback fewer pending, one more runs. *)
LEMMA ExecuteIs ==
  ASSUME Shape, NEW o \in Objects
  PROVE  \E e : tp_object_execute(o) = [obj EXCEPT ![o] = e] /\ ExecutedIs(obj[o], e, Type[o] = "io")
<1>1. obj[o] \in ObjRec
  BY DEF Shape
<1>a. /\ obj[o].pending \in Int /\ obj[o].running \in Int /\ obj[o].associated \in Int
      /\ obj[o].signaled \in Int /\ obj[o].completions \in Int
  BY <1>1 DEF ObjRec
<1>b. PICK p \in Int, r \in Int, a \in Int :
        p = obj[o].pending - 1 /\ r = obj[o].running + 1 /\ a = obj[o].associated + 1
  BY ONLY <1>a
<1>c. PICK s \in Int : s = (IF obj[o].signaled > 0 THEN obj[o].signaled - 1 ELSE 0)
  BY ONLY <1>a
<1>d. PICK c \in Int : c = (IF Type[o] = "io" THEN obj[o].completions - 1 ELSE obj[o].completions)
  BY ONLY <1>a
<1>2. /\ p = obj[o].pending - 1 /\ r = obj[o].running + 1 /\ a = obj[o].associated + 1
      /\ s = (IF obj[o].signaled > 0 THEN obj[o].signaled - 1 ELSE 0)
      /\ c = (IF Type[o] = "io" THEN obj[o].completions - 1 ELSE obj[o].completions)
  BY ONLY <1>b, <1>c, <1>d
<1> DEFINE e == [obj[o] EXCEPT !.pending = p, !.running = r, !.associated = a,
                               !.signaled = s, !.completions = c]
<1>3. tp_object_execute(o) = [obj EXCEPT ![o].pending = p, ![o].running = r, ![o].associated = a,
                                         ![o].signaled = s, ![o].completions = c]
  BY <1>2 DEF tp_object_execute, Shape, ObjRec
<1>4. tp_object_execute(o) = [obj EXCEPT ![o] = e]
  BY <1>1, <1>3 DEF Shape, ObjRec
<1>5. /\ e \in ObjRec /\ e.refcount = obj[o].refcount /\ e.life = obj[o].life
      /\ e.owner = obj[o].owner /\ e.shutdown = obj[o].shutdown /\ e.grouped = obj[o].grouped
      /\ e.member = obj[o].member /\ e.pending = p /\ e.running = r
      /\ e.associated = a /\ e.ops = obj[o].ops /\ e.skipped = obj[o].skipped
      /\ e.signaled = s /\ e.completions = c /\ e.posts = obj[o].posts
  BY <1>1 DEF ObjRec
<1> HIDE DEF e
<1>6. ExecutedIs(obj[o], e, Type[o] = "io")
  BY ONLY <1>2, <1>5 DEF ExecutedIs
<1> QED
  BY <1>4, <1>6

(* Every step of a worker. *)
LEMMA WorkerTakeShape ==
  ASSUME Shape, NEW w \in Workers, WorkerTake(w)
  PROVE  Shape' /\ ObjKept
<1> DEFINE o == threadpool_get_next_item
           q == Priority[o]
           again == obj[o].pending > 1
           r == [pools EXCEPT ![q] = Tail(@)]
<1>1. o \in Objects /\ pools[q] # <<>>
  BY NextItem DEF WorkerTake
<1>2. /\ q \in 1..3 /\ pools[q] \in Seq(OfPriority(q)) /\ o \in OfPriority(q)
      /\ pools \in PoolLists /\ obj[o] \in ObjRec /\ pool \in PoolRec
  BY <1>1, ListOf DEF Shape
<1>3. /\ obj' = tp_object_execute(o)
      /\ worker' = [worker EXCEPT ![w] = [NoWorker EXCEPT !.pc = "callback", !.obj = o,
                                                              !.associated = TRUE]]
      /\ pool' = tp_object_prio_queue([pool EXCEPT !.cs = Nil], again)
      /\ group' = group /\ caller' = caller
      /\ pools' = IF again THEN [r EXCEPT ![q] = Append(@, o)] ELSE r
  BY DEF WorkerTake
<1> HIDE DEF o, q, again
<1>4. ObjKept
  <2>1. PICK e : obj' = [obj EXCEPT ![o] = e] /\ ExecutedIs(obj[o], e, Type[o] = "io")
    BY <1>1, <1>3, ExecuteIs
  <2>2. e \in ObjRec /\ e.life = obj[o].life
    BY <2>1 DEF ExecutedIs
  <2> QED
    BY <1>1, <2>1, <2>2, OneObject
<1>5. pool' \in PoolRec
  <2>1. [pool EXCEPT !.cs = Nil] \in PoolRec
    BY <1>2, LockedIs
  <2>2. again \in BOOLEAN
    BY DEF again
  <2> QED
    BY <1>3, <2>1, <2>2, QueueIs
<1>6. pools' \in PoolLists
  <2>1. Tail(pools[q]) \in Seq(OfPriority(q))
    BY <1>1, <1>2
  <2>2. r \in PoolLists
    BY <1>2, <2>1, OneList
  <2>3. r[q] \in Seq(OfPriority(q))
    BY <1>2, <2>2 DEF PoolLists
  <2> HIDE DEF r
  <2>4. Append(r[q], o) \in Seq(OfPriority(q))
    BY <1>2, <2>3
  <2>5. [r EXCEPT ![q] = Append(r[q], o)] \in PoolLists
    BY <1>2, <2>2, <2>4, OneList
  <2> QED
    BY <1>3, <2>2, <2>5
<1>7. worker' \in [Workers -> WorkerSet]
  BY <1>1, <1>3, WithObject, WorkerGoes
<1> QED
  BY <1>3, <1>4, <1>5, <1>6, <1>7, ShapeBecomes DEF Shape

(* What an object becomes when a callback of it returns. *)
ReturnedIs(ob, e, assoc, simple) ==
    /\ e \in ObjRec /\ e.refcount = ob.refcount /\ e.life = ob.life
    /\ e.owner = ob.owner /\ e.grouped = ob.grouped
    /\ e.shutdown = (ob.shutdown \/ simple)
    /\ e.member = ob.member /\ e.pending = ob.pending /\ e.running = ob.running - 1
    /\ assoc => e.associated = ob.associated - 1
    /\ ~assoc => e.associated = ob.associated
    /\ e.ops = ob.ops /\ e.skipped = ob.skipped /\ e.signaled = ob.signaled
    /\ e.completions = ob.completions /\ e.posts = ob.posts

Returned(ob, assoc, simple) ==
    [ob EXCEPT !.running = @ - 1, !.associated = @ - (IF assoc THEN 1 ELSE 0),
               !.shutdown = @ \/ simple]

(* And what a return leaves of it. *)
LEMMA ReturnIs ==
  ASSUME NEW ob \in ObjRec, NEW assoc \in BOOLEAN, NEW simple \in BOOLEAN
  PROVE  ReturnedIs(ob, Returned(ob, assoc, simple), assoc, simple)
<1>1. ob.running \in Int /\ ob.associated \in Int
  BY DEF ObjRec
<1>2. PICK r \in Int : r = ob.running - 1
  BY ONLY <1>1
<1>3. PICK a \in Int : a = ob.associated - (IF assoc THEN 1 ELSE 0)
  BY ONLY <1>1
<1>4. PICK s \in BOOLEAN : s = (ob.shutdown \/ simple)
  OBVIOUS
<1> DEFINE e == [ob EXCEPT !.running = r, !.associated = a, !.shutdown = s]
<1>5. Returned(ob, assoc, simple) = e
  BY ONLY <1>2, <1>3, <1>4 DEF Returned
<1>6. /\ e \in ObjRec /\ e.refcount = ob.refcount /\ e.life = ob.life
      /\ e.owner = ob.owner /\ e.grouped = ob.grouped /\ e.shutdown = s
      /\ e.member = ob.member /\ e.pending = ob.pending /\ e.running = r
      /\ e.associated = a
      /\ e.ops = ob.ops /\ e.skipped = ob.skipped /\ e.signaled = ob.signaled
      /\ e.completions = ob.completions /\ e.posts = ob.posts
  BY DEF ObjRec
<1> HIDE DEF e
<1>7. /\ assoc => a = ob.associated - 1
      /\ ~assoc => a = ob.associated
  BY ONLY <1>1, <1>3
<1> QED
  BY ONLY <1>2, <1>4, <1>5, <1>6, <1>7 DEF ReturnedIs

(* A callback returns. *)
LEMMA WorkerReturnShape ==
  ASSUME Shape, NEW w \in Workers, WorkerReturn(w)
  PROVE  Shape' /\ ObjKept
<1> DEFINE o == worker[w].obj
           ob == Returned(obj[o], worker[w].associated, Type[o] = "simple")
           events == {"gsleep"} \cup (IF worker[w].associated THEN {"sleep"} ELSE {})
<1>1. worker[w] \in WorkerSet /\ worker[w].pc = "callback"
  BY DEF Shape, WorkerReturn
<1>2. o \in Objects /\ worker[w].associated \in BOOLEAN /\ pool \in PoolRec
  BY <1>1 DEF WorkerSet, WorkerRec, Shape
<1>3. /\ obj' = [obj EXCEPT ![o] = Dropped(ob, 1)]
      /\ WakeWaiters(o, ob, events)
      /\ pool' = [pool EXCEPT !.num_busy_workers = @ - 1, !.cs = w]
      /\ worker' = [worker EXCEPT ![w] =
                          IF ob.refcount = 1 THEN [NoWorker EXCEPT !.pc = "destroy", !.obj = o]
                                  ELSE [NoWorker EXCEPT !.pc = "run"]]
      /\ pools' = pools /\ group' = group
  BY DEF WorkerReturn, Returned
<1>4. events \in SUBSET {"sleep", "gsleep"}
  OBVIOUS
<1>5. obj[o] \in ObjRec
  BY <1>2 DEF Shape
<1>6. ob \in ObjRec /\ ob.life = obj[o].life
  <2>1. PICK simple \in BOOLEAN : simple = (Type[o] = "simple")
    OBVIOUS
  <2>2. ReturnedIs(obj[o], Returned(obj[o], worker[w].associated, simple), worker[w].associated, simple)
    BY ONLY <1>2, <1>5, ReturnIs
  <2> QED
    BY <2>1, <2>2 DEF ReturnedIs
<1> HIDE DEF ob, o, events
<1>7. ObjKept
  <2>1. Dropped(ob, 1) \in ObjRec /\ Dropped(ob, 1).life \in {"dying", ob.life}
    BY <1>6, DroppedIs
  <2> QED
    BY <1>2, <1>3, <1>6, <2>1, OneObject
<1>8. caller' \in [Callers -> CallerSet]
  BY <1>3, <1>4, WakeWaitersShape
<1>9. pool' \in PoolRec
  <2>1. PICK n \in Int : n = pool.num_busy_workers - 1
    BY <1>2 DEF PoolRec
  <2>2. pool' = [pool EXCEPT !.num_busy_workers = n, !.cs = w]
    BY <1>3, <2>1
  <2> QED
    BY <1>2, <2>2 DEF PoolRec
<1>10. worker' \in [Workers -> WorkerSet]
  BY <1>2, <1>3, WithObject, FreshRecords, WorkerGoes
<1> QED
  BY <1>3, <1>7, <1>8, <1>9, <1>10, ShapeBecomes DEF Shape

(* A worker destroys the object whose last reference it dropped. *)
LEMMA WorkerDestroyShape ==
  ASSUME Shape, NEW w \in Workers, WorkerDestroy(w)
  PROVE  Shape' /\ ObjKept
<1>1. worker[w] \in WorkerSet /\ worker[w].pc = "destroy"
  BY DEF Shape, WorkerDestroy
<1>2. worker[w].obj \in Objects
  BY <1>1 DEF WorkerSet
<1>3. ObjKept /\ pools' = pools /\ pool' \in PoolRec /\ group' \in GroupRec
  BY <1>2, DestroyShape DEF WorkerDestroy
<1>4. worker' \in [Workers -> WorkerSet]
  BY FreshRecords, WorkerGoes DEF WorkerDestroy
<1> QED
  BY <1>3, <1>4, ShapeBecomes DEF Shape, WorkerDestroy

(* A worker that changes its point, and the pool. *)
LEMMA WorkerMovesShape ==
  ASSUME Shape, NEW w \in Workers, NEW pc \in {"run", "check", "asleep", "timedout", "leave"},
         worker' = [worker EXCEPT ![w].pc = pc], pool' \in PoolRec,
         pools' = pools, obj' = obj, group' = group, caller' = caller
  PROVE  Shape' /\ ObjKept
<1>1. worker[w] \in WorkerSet
  BY DEF Shape
<1>2. [worker[w] EXCEPT !.pc = pc] \in WorkerSet
  BY <1>1, WorkerAt
<1>3. worker' = [worker EXCEPT ![w] = [worker[w] EXCEPT !.pc = pc]]
  OBVIOUS
<1>4. worker' \in [Workers -> WorkerSet]
  BY <1>2, <1>3, WorkerGoes
<1> QED
  BY <1>4, ShapeStays DEF Shape

(* A worker finds nothing to do. *)
LEMMA WorkerCheckShape ==
  ASSUME Shape, NEW w \in Workers, WorkerCheck(w)
  PROVE  Shape' /\ ObjKept
<1>0. pool \in PoolRec
  BY DEF Shape
<1>1. CASE pool.shutdown
  <2>1. PICK n \in Int : n = pool.num_workers - 1
    BY <1>0 DEF PoolRec
  <2>2. pool' = [pool EXCEPT !.num_workers = n, !.cs = Nil] /\ worker' = [worker EXCEPT ![w].pc = "leave"]
    BY <1>1, <2>1 DEF WorkerCheck
  <2>3. pool' \in PoolRec
    BY <1>0, <2>2 DEF PoolRec
  <2> QED
    BY <2>2, <2>3, WorkerMovesShape DEF WorkerCheck
<1>2. CASE ~pool.shutdown
  <2>1. pool' = [pool EXCEPT !.cs = w] /\ worker' = [worker EXCEPT ![w].pc = "check"]
    BY <1>2 DEF WorkerCheck
  <2>2. pool' \in PoolRec
    BY <1>0, <2>1, LockedIs
  <2> QED
    BY <2>1, <2>2, WorkerMovesShape DEF WorkerCheck
<1> QED
  BY <1>1, <1>2

(* A worker sleeps, times out and leaves. *)
LEMMA WorkerRestShape ==
  ASSUME Shape, NEW w \in Workers,
         WorkerSleep(w) \/ WorkerTimeout(w) \/ WorkerTimedOut(w) \/ WorkerLeave(w)
  PROVE  Shape' /\ ObjKept
<1>0. pool \in PoolRec
  BY DEF Shape
<1>1. CASE WorkerSleep(w)
  <2>1. pool' = [pool EXCEPT !.cs = Nil] /\ worker' = [worker EXCEPT ![w].pc = "asleep"]
    BY <1>1 DEF WorkerSleep
  <2>2. pool' \in PoolRec
    BY <1>0, <2>1, LockedIs
  <2> QED
    BY <1>1, <2>1, <2>2, WorkerMovesShape DEF WorkerSleep
<1>2. CASE WorkerTimeout(w)
  BY <1>0, <1>2, WorkerMovesShape DEF WorkerTimeout
<1>3. CASE WorkerTimedOut(w)
  <2>1. CASE MayTerminate
    <3>1. PICK n \in Int : n = pool.num_workers - 1
      BY <1>0 DEF PoolRec
    <3>2. pool' = [pool EXCEPT !.num_workers = n] /\ worker' = [worker EXCEPT ![w].pc = "leave"]
      BY <1>3, <2>1, <3>1 DEF WorkerTimedOut
    <3>3. pool' \in PoolRec
      BY <1>0, <3>2 DEF PoolRec
    <3> QED
      BY <1>3, <3>2, <3>3, WorkerMovesShape DEF WorkerTimedOut
  <2>2. CASE ~MayTerminate
    <3>0. pool.late \in 0..MaxLate /\ MaxLate \in Nat
      BY <1>0, PoolConstants DEF PoolRec
    <3>1. PICK n \in 0..MaxLate : n = IF pool.late < MaxLate THEN pool.late + 1 ELSE pool.late
      BY <3>0
    <3>2. pool' = [pool EXCEPT !.cs = w, !.late = n] /\ worker' = [worker EXCEPT ![w].pc = "run"]
      BY <1>3, <2>2, <3>1 DEF WorkerTimedOut
    <3>3. pool' \in PoolRec
      BY <1>0, <3>2 DEF PoolRec
    <3> QED
      BY <1>3, <3>2, <3>3, WorkerMovesShape DEF WorkerTimedOut
  <2> QED
    BY <2>1, <2>2
<1>4. CASE WorkerLeave(w)
  <2>1. pool' \in PoolRec
    BY <1>0, <1>4, PoolReleaseIs DEF WorkerLeave
  <2>2. worker' \in [Workers -> WorkerSet]
    BY <1>4, FreshRecords, WorkerGoes DEF WorkerLeave
  <2> QED
    BY <1>4, <2>1, <2>2, ShapeStays DEF WorkerLeave, Shape
<1> QED
  BY <1>1, <1>2, <1>3, <1>4

(* What a callback does. *)
LEMMA DisassociateShape ==
  ASSUME Shape, NEW w \in Workers, TpDisassociateCallback(w)
  PROVE  Shape' /\ ObjKept
<1> DEFINE o == worker[w].obj
<1>1. worker[w] \in WorkerSet /\ worker[w].pc = "callback" /\ worker[w].obj \in Objects
  BY DEF Shape, TpDisassociateCallback, InCallback, WorkerSet
<1>2. obj[o] \in ObjRec
  BY <1>1 DEF Shape
<1>3. PICK a \in Int : a = obj[o].associated - 1
  BY <1>2 DEF ObjRec
<1> DEFINE ob == [obj[o] EXCEPT !.associated = a]
<1>4. ob \in ObjRec /\ ob.life = obj[o].life
  BY <1>2 DEF ObjRec
<1>5. /\ obj' = [obj EXCEPT ![o] = ob] /\ WakeWaiters(o, ob, {"sleep"})
      /\ worker' = [worker EXCEPT ![w].associated = FALSE]
      /\ pool' = pool /\ pools' = pools /\ group' = group
  BY <1>3 DEF TpDisassociateCallback
<1> HIDE DEF ob
<1>6. ObjKept
  BY <1>1, <1>4, <1>5, OneObject
<1>7. caller' \in [Callers -> CallerSet]
  <2>1. {"sleep"} \in SUBSET {"sleep", "gsleep"}
    OBVIOUS
  <2> QED
    BY <1>5, <2>1, WakeWaitersShape
<1>8. [worker[w] EXCEPT !.associated = FALSE] \in WorkerSet
  BY <1>1 DEF WorkerSet, WorkerRec
<1>9. worker' \in [Workers -> WorkerSet]
  BY <1>5, <1>8, WorkerGoes
<1> QED
  BY <1>5, <1>6, <1>7, <1>9, ShapeBecomes DEF Shape

(* A callback says that it may run long. *)
LEMMA MayRunLongShape ==
  ASSUME Shape, NEW w \in Workers, TpCallbackMayRunLong(w)
  PROVE  Shape' /\ ObjKept
<1>0. pool \in PoolRec /\ worker \in [Workers -> WorkerSet] /\ worker[w] \in WorkerSet
  BY DEF Shape
<1>1. [worker[w] EXCEPT !.may_run_long = TRUE] \in WorkerSet
  BY <1>0 DEF WorkerSet, WorkerRec
<1>2. CASE worker' = [worker EXCEPT ![w].may_run_long = TRUE] /\ pool' = pool
  <2>1. worker' \in [Workers -> WorkerSet]
    BY <1>1, <1>2, WorkerGoes
  <2> QED
    BY <1>0, <1>2, <2>1, ShapeStays DEF TpCallbackMayRunLong, Shape
<1>3. CASE /\ Spare # {}
           /\ worker' = [worker EXCEPT ![NewWorker] = [NoWorker EXCEPT !.pc = "run"],
                                       ![w].may_run_long = TRUE]
           /\ pool' = [pool EXCEPT !.refcount = @ + 1, !.num_workers = @ + 1]
  <2>1. NewWorker \in Workers /\ worker[NewWorker].pc = "none"
    BY <1>3 DEF NewWorker, Spare
  <2>2. NewWorker # w
    BY <2>1 DEF TpCallbackMayRunLong, InCallback
  <2>3. worker' = [worker EXCEPT ![NewWorker] = [NoWorker EXCEPT !.pc = "run"],
                                 ![w] = [worker[w] EXCEPT !.may_run_long = TRUE]]
    BY <1>0, <1>3, <2>1, <2>2
  <2>4. worker' \in [Workers -> WorkerSet]
    BY <1>0, <1>1, <2>1, <2>3, FreshRecords
  <2>5. PICK m \in Int, n \in Int : m = pool.refcount + 1 /\ n = pool.num_workers + 1
    BY <1>0 DEF PoolRec
  <2>6. pool' = [pool EXCEPT !.refcount = m, !.num_workers = n]
    BY <1>3, <2>5
  <2>7. pool' \in PoolRec
    BY <1>0, <2>6 DEF PoolRec
  <2> QED
    BY <2>4, <2>7, ShapeStays DEF TpCallbackMayRunLong, Shape
<1> QED
  BY <1>2, <1>3 DEF TpCallbackMayRunLong

(* A post is counted. *)
LEMMA CountedIs ==
  ASSUME Shape, NEW o \in Objects
  PROVE  /\ Counted(o) \in ObjRec /\ Counted(o).life = obj[o].life
         /\ Counted(o).refcount = obj[o].refcount /\ Counted(o).owner = obj[o].owner
         /\ Counted(o).shutdown = obj[o].shutdown /\ Counted(o).grouped = obj[o].grouped
         /\ Counted(o).member = obj[o].member /\ Counted(o).pending = obj[o].pending
         /\ Counted(o).running = obj[o].running /\ Counted(o).associated = obj[o].associated
         /\ Counted(o).signaled = obj[o].signaled /\ Counted(o).ops = obj[o].ops
         /\ Counted(o).skipped = obj[o].skipped /\ Counted(o).completions = obj[o].completions
         /\ Counted(o).posts = obj[o].posts + 1
<1>1. obj[o] \in ObjRec
  BY DEF Shape
<1>2. PICK n \in Int : n = obj[o].posts + 1
  BY <1>1 DEF ObjRec
<1>3. Counted(o) = [obj[o] EXCEPT !.posts = n]
  BY <1>2 DEF Counted
<1> QED
  BY <1>1, <1>2, <1>3 DEF ObjRec

(* A submission by a step that changes nothing else but callers. *)
LEMMA SubmitStepShape ==
  ASSUME Shape, NEW o \in Objects, NEW ob \in ObjRec, ob.life = "none" => obj[o].life = "none",
         NEW p \in PoolRec, tp_object_submit(o, ob, p), group' = group,
         caller' \in [Callers -> CallerSet]
  PROVE  Shape' /\ ObjKept
<1>1. /\ ObjKept /\ pools' \in PoolLists /\ pool' \in PoolRec
      /\ worker' \in [Workers -> WorkerSet]
  BY SubmitShape
<1> QED
  BY <1>1, ShapeBecomes DEF Shape

(* A callback posts its work object again. *)
LEMMA CallbackPostsShape ==
  ASSUME Shape, NEW w \in Workers, CallbackPosts(w)
  PROVE  Shape' /\ ObjKept
<1>1. worker[w] \in WorkerSet /\ worker[w].pc = "callback" /\ worker[w].obj \in Objects
  BY DEF Shape, CallbackPosts, InCallback, WorkerSet
<1>2. Counted(worker[w].obj) \in ObjRec /\ Counted(worker[w].obj).life = obj[worker[w].obj].life
  BY <1>1, CountedIs
<1>3. /\ tp_object_submit(worker[w].obj, Counted(worker[w].obj), pool)
      /\ group' = group /\ caller' = caller
  BY DEF CallbackPosts
<1>4. pool \in PoolRec /\ caller' \in [Callers -> CallerSet]
  BY <1>3 DEF Shape
<1> QED
  BY <1>1, <1>2, <1>3, <1>4, SubmitStepShape

(* What an object becomes when it is released by its user. *)
ReleasedIs(ob, e, n, own) ==
    /\ e \in ObjRec /\ e.refcount = ob.refcount - n /\ e.shutdown = TRUE /\ e.owner = own
    /\ ob.refcount = n => e.life = "dying"
    /\ ob.refcount # n => e.life = ob.life
    /\ e.grouped = ob.grouped /\ e.member = ob.member /\ e.pending = ob.pending
    /\ e.running = ob.running /\ e.associated = ob.associated /\ e.signaled = ob.signaled
    /\ e.ops = ob.ops /\ e.skipped = ob.skipped /\ e.completions = ob.completions
    /\ e.posts = ob.posts

(* What a release leaves of the record. *)
LEMMA ReleaseIs ==
  ASSUME NEW ob \in ObjRec, NEW n \in Int, NEW own \in {"none", "user", "group"}
  PROVE  ReleasedIs(ob, Closed(ob, n, own), n, own)
<1> DEFINE d == Dropped(ob, n)
<1>1. /\ d \in ObjRec /\ d.refcount = ob.refcount - n
      /\ d.life = IF ob.refcount = n THEN "dying" ELSE ob.life
      /\ d.owner = ob.owner /\ d.shutdown = ob.shutdown /\ d.grouped = ob.grouped
      /\ d.member = ob.member /\ d.pending = ob.pending /\ d.running = ob.running
      /\ d.associated = ob.associated /\ d.signaled = ob.signaled /\ d.ops = ob.ops
      /\ d.skipped = ob.skipped /\ d.completions = ob.completions /\ d.posts = ob.posts
  BY DroppedIs
<1> HIDE DEF d
<1> DEFINE e == [d EXCEPT !.shutdown = TRUE, !.owner = own]
<1>2. /\ e \in ObjRec /\ e.refcount = d.refcount /\ e.shutdown = TRUE /\ e.owner = own
      /\ e.life = d.life /\ e.grouped = d.grouped /\ e.member = d.member /\ e.pending = d.pending
      /\ e.running = d.running /\ e.associated = d.associated /\ e.signaled = d.signaled
      /\ e.ops = d.ops /\ e.skipped = d.skipped /\ e.completions = d.completions
      /\ e.posts = d.posts
  BY <1>1 DEF ObjRec
<1>3. e = Closed(ob, n, own)
  BY DEF d, Closed
<1> HIDE DEF e
<1> QED
  BY ONLY <1>1, <1>2, <1>3 DEF ReleasedIs

(* A callback releases its own object. *)
LEMMA CallbackReleasesShape ==
  ASSUME Shape, NEW w \in Workers, CallbackReleases(w)
  PROVE  Shape' /\ ObjKept
<1> DEFINE o == worker[w].obj
<1>1. worker[w] \in WorkerSet /\ worker[w].pc = "callback" /\ o \in Objects
  BY DEF Shape, CallbackReleases, InCallback, WorkerSet
<1>2. obj[o] \in ObjRec
  BY <1>1 DEF Shape
<1>3. PICK own \in {"none", "user", "group"} : own = IF obj[o].owner = "user" THEN "none" ELSE obj[o].owner
  BY <1>2 DEF ObjRec
<1> DEFINE e == Closed(obj[o], 1, own)
<1>5. /\ obj' = [obj EXCEPT ![o] = e]
      /\ pool' = pool /\ pools' = pools /\ group' = group /\ worker' = worker /\ caller' = caller
  BY <1>3 DEF CallbackReleases
<1>6. ReleasedIs(obj[o], e, 1, own)
  BY <1>2, ReleaseIs
<1> HIDE DEF e
<1>7. e \in ObjRec /\ e.life \in {"dying", obj[o].life}
  BY <1>6 DEF ReleasedIs
<1>8. ObjKept
  BY <1>1, <1>5, <1>7, OneObject
<1> QED
  BY <1>5, <1>8, ShapeBecomes DEF Shape

(* Where callers go. *)
LEMMA CallerGoes ==
  ASSUME Shape, NEW t \in Callers, NEW c \in CallerSet, Goto(t, c)
  PROVE  caller' \in [Callers -> CallerSet]
  BY DEF Shape, Goto

(* The points at which a caller has an object. *)
LEMMA CallerAt ==
  ASSUME NEW o \in Objects, NEW pc \in {"submit", "join", "release", "destroy", "wait", "sleep"}
  PROVE  /\ [Idle EXCEPT !.pc = pc, !.obj = o] \in CallerSet
         /\ \A c \in CallerSet : [c EXCEPT !.pc = pc, !.obj = o] \in CallerSet
         /\ \A c \in CallerSet : c.obj = o => [c EXCEPT !.pc = pc] \in CallerSet
<1>1. Idle \in CallerSet
  BY FreshRecords
<1>2. ASSUME NEW c \in CallerSet
      PROVE  [c EXCEPT !.pc = pc, !.obj = o] \in CallerSet
  BY DEF CallerSet, CallerRec
<1>3. ASSUME NEW c \in CallerSet, c.obj = o
      PROVE  [c EXCEPT !.pc = pc] \in CallerSet
  BY <1>3 DEF CallerSet, CallerRec
<1> QED
  BY <1>1, <1>2, <1>3

(* tp_threadpool_lock *)
LEMMA PoolLockShape ==
  ASSUME Shape, tp_threadpool_lock
  PROVE  pool' \in PoolRec /\ worker' \in [Workers -> WorkerSet]
<1>0. pool \in PoolRec
  BY DEF Shape
<1>1. PICK m \in Int, n \in Int : m = pool.refcount + 1 /\ n = pool.objcount + 1
  BY <1>0 DEF PoolRec
<1> DEFINE p == [pool EXCEPT !.refcount = m, !.objcount = n]
<1>2. p \in PoolRec
  BY <1>0 DEF PoolRec
<1>3. \/ pool' = p /\ worker' = worker
      \/ tp_new_worker_thread(p)
  BY <1>1 DEF tp_threadpool_lock
<1> HIDE DEF p
<1>4. CASE tp_new_worker_thread(p)
  BY <1>2, <1>4, NewWorkerShape
<1> QED
  BY <1>2, <1>3, <1>4 DEF Shape

(* tp_object_initialize *)
LEMMA InitializeIs ==
  ASSUME NEW o \in Objects, NEW grp \in BOOLEAN
  PROVE  LET e == tp_object_initialize(o, grp) IN
         /\ e \in ObjRec /\ e.life = "live" /\ e.refcount = 1 /\ e.grouped = grp
         /\ e.shutdown = FALSE /\ e.pending = 0 /\ e.running = 0 /\ e.associated = 0
         /\ e.signaled = 0 /\ e.ops = 0 /\ e.skipped = 0 /\ e.completions = 0 /\ e.posts = 0
         /\ Type[o] = "simple" => e.member = FALSE /\ e.owner = "none"
         /\ Type[o] # "simple" => e.member = grp /\ e.owner = "user"
<1>1. PICK mem \in BOOLEAN : mem = (grp /\ Type[o] # "simple")
  OBVIOUS
<1>2. PICK own \in {"none", "user"} : own = IF Type[o] = "simple" THEN "none" ELSE "user"
  OBVIOUS
<1>a. PICK one \in Int : one = 1
  OBVIOUS
<1>3. tp_object_initialize(o, grp) = [NoObject EXCEPT !.life = "live", !.refcount = one, !.grouped = grp,
                     !.member = mem, !.owner = own]
  BY <1>1, <1>2, <1>a DEF tp_object_initialize
<1>b. /\ NoObject \in ObjRec /\ NoObject.shutdown = FALSE /\ NoObject.pending = 0
      /\ NoObject.running = 0 /\ NoObject.associated = 0 /\ NoObject.signaled = 0
      /\ NoObject.ops = 0 /\ NoObject.skipped = 0 /\ NoObject.completions = 0 /\ NoObject.posts = 0
  BY FreshRecords DEF NoObject
<1>4. LET e == [NoObject EXCEPT !.life = "live", !.refcount = one, !.grouped = grp,
                     !.member = mem, !.owner = own] IN
         /\ e \in ObjRec /\ e.life = "live" /\ e.refcount = one /\ e.grouped = grp
         /\ e.shutdown = FALSE /\ e.pending = 0 /\ e.running = 0 /\ e.associated = 0
         /\ e.signaled = 0 /\ e.ops = 0 /\ e.skipped = 0 /\ e.completions = 0 /\ e.posts = 0
         /\ e.member = mem /\ e.owner = own
  BY <1>b DEF ObjRec
<1> QED
  BY ONLY <1>1, <1>2, <1>a, <1>3, <1>4

(* A member joins the group. *)
LEMMA JoinIs ==
  ASSUME NEW g \in GroupRec, NEW o \in Objects
  PROVE  LET h == [g EXCEPT !.refcount = @ + 1, !.members = Append(@, o)] IN
         /\ h \in GroupRec /\ h.life = g.life /\ h.shutdown = g.shutdown
         /\ h.refcount = g.refcount + 1 /\ h.members = Append(g.members, o)
<1>1. g.refcount \in Int /\ g.members \in Seq(Objects)
  BY DEF GroupRec
<1>2. PICK n \in Int : n = g.refcount + 1
  BY <1>1
<1>3. PICK s \in Seq(Objects) : s = Append(g.members, o)
  <2>1. Append(g.members, o) \in Seq(Objects)
    BY <1>1
  <2> QED
    BY ONLY <2>1
<1>4. [g EXCEPT !.refcount = @ + 1, !.members = Append(@, o)] = [g EXCEPT !.refcount = n, !.members = s]
  BY <1>2, <1>3
<1>5. LET h == [g EXCEPT !.refcount = n, !.members = s] IN
         /\ h \in GroupRec /\ h.life = g.life /\ h.shutdown = g.shutdown
         /\ h.refcount = n /\ h.members = s
  BY DEF GroupRec
<1> QED
  BY ONLY <1>2, <1>3, <1>4, <1>5

(* Allocation. *)
LEMMA AllocShape ==
  ASSUME Shape, NEW t \in Callers, NEW o \in Objects, NEW grp \in BOOLEAN, TpAlloc(t, o, grp)
  PROVE  Shape' /\ ObjKept /\ obj'[o].life # "none"
<1> DEFINE e == tp_object_initialize(o, grp)
<1>1. /\ tp_threadpool_lock /\ obj' = [obj EXCEPT ![o] = e] /\ pools' = pools /\ caller' = caller
      /\ group' = IF grp THEN [group EXCEPT !.refcount = @ + 1, !.members = Append(@, o)]
                       ELSE group
  BY DEF TpAlloc
<1>2. e \in ObjRec /\ e.life = "live"
  BY InitializeIs
<1> HIDE DEF e
<1>3. ObjKept
  BY <1>1, <1>2, OneObject
<1>4. group \in GroupRec /\ obj \in [Objects -> ObjRec]
  BY DEF Shape
<1>5. [group EXCEPT !.refcount = @ + 1, !.members = Append(@, o)] \in GroupRec
  BY <1>4, JoinIs
<1>6. group' \in GroupRec
  BY <1>1, <1>4, <1>5
<1>7. pool' \in PoolRec /\ worker' \in [Workers -> WorkerSet]
  BY <1>1, PoolLockShape
<1> QED
  BY <1>1, <1>2, <1>3, <1>4, <1>6, <1>7, ShapeBecomes DEF Shape

(* An allocation that fails may leave a new worker behind. *)
LEMMA AllocFailsShape ==
  ASSUME Shape, NEW t \in Callers, TpAllocFails(t)
  PROVE  Shape' /\ ObjKept
<1>1. pool' \in PoolRec /\ worker' \in [Workers -> WorkerSet]
  BY NewWorkerShape DEF TpAllocFails, Shape
<1> QED
  BY <1>1, ShapeStays DEF TpAllocFails, Shape

(* A simple object is allocated. *)
LEMMA SimplePostShape ==
  ASSUME Shape, NEW t \in Callers, NEW o \in Objects, NEW grp \in BOOLEAN, TpSimpleTryPost(t, o, grp)
  PROVE  Shape' /\ ObjKept
<1> DEFINE e == tp_object_initialize(o, grp)
<1>1. /\ tp_threadpool_lock /\ obj' = [obj EXCEPT ![o] = e] /\ pools' = pools /\ group' = group
      /\ Goto(t, [Idle EXCEPT !.pc = "submit", !.obj = o])
  BY DEF TpSimpleTryPost
<1>2. e \in ObjRec /\ e.life = "live"
  BY InitializeIs
<1> HIDE DEF e
<1>3. ObjKept
  BY <1>1, <1>2, OneObject
<1>4. caller' \in [Callers -> CallerSet]
  <2>1. [Idle EXCEPT !.pc = "submit", !.obj = o] \in CallerSet
    BY CallerAt
  <2> QED
    BY <1>1, <2>1, CallerGoes
<1>7. pool' \in PoolRec /\ worker' \in [Workers -> WorkerSet]
  BY <1>1, PoolLockShape
<1> QED
  BY <1>1, <1>3, <1>4, <1>7, ShapeBecomes DEF Shape

(* What a caller has at hand. *)
LEMMA CallerObject ==
  ASSUME Shape, NEW t \in Callers,
         caller[t].pc \in {"submit", "join", "release", "destroy", "wait", "sleep", "gsleep"}
  PROVE  /\ caller[t] \in CallerSet /\ caller[t].obj \in Objects /\ obj[caller[t].obj] \in ObjRec
         /\ pool \in PoolRec /\ group \in GroupRec
  BY DEF Shape, CallerSet

(* A call submits its object. *)
LEMMA CallerSubmitShape ==
  ASSUME Shape, NEW t \in Callers, CallerSubmit(t)
  PROVE  Shape' /\ ObjKept
<1> DEFINE o == caller[t].obj
           c == IF Type[o] # "simple" THEN Idle
                  ELSE [caller[t] EXCEPT !.pc = IF obj[o].grouped THEN "join" ELSE "release"]
<1>1. /\ caller[t] \in CallerSet /\ o \in Objects /\ obj[o] \in ObjRec /\ pool \in PoolRec
      /\ obj[o].grouped \in BOOLEAN
  BY CallerObject DEF CallerSubmit, ObjRec
<1>2. tp_object_submit(o, obj[o], pool) /\ Goto(t, c) /\ group' = group
  BY DEF CallerSubmit
<1>3. c \in CallerSet
  BY <1>1, CallerAt, FreshRecords
<1> HIDE DEF c
<1>4. caller' \in [Callers -> CallerSet]
  BY <1>2, <1>3, CallerGoes
<1> QED
  BY <1>1, <1>2, <1>4, SubmitStepShape

(* A simple object joins the group. *)
LEMMA SimpleJoinShape ==
  ASSUME Shape, NEW t \in Callers, SimpleJoin(t)
  PROVE  Shape' /\ ObjKept
<1> DEFINE o == caller[t].obj
<1>1. /\ caller[t] \in CallerSet /\ o \in Objects /\ obj[o] \in ObjRec /\ group \in GroupRec
  BY CallerObject DEF SimpleJoin
<1>2. /\ group' = [group EXCEPT !.refcount = @ + 1, !.members = Append(@, o)]
      /\ obj' = [obj EXCEPT ![o] = [obj[o] EXCEPT !.member = TRUE]]
      /\ Goto(t, [caller[t] EXCEPT !.pc = "release"])
      /\ pool' = pool /\ pools' = pools /\ worker' = worker
  BY DEF SimpleJoin
<1>3. [obj[o] EXCEPT !.member = TRUE] \in ObjRec /\ [obj[o] EXCEPT !.member = TRUE].life = obj[o].life
  BY <1>1 DEF ObjRec
<1>4. ObjKept
  BY <1>1, <1>2, <1>3, OneObject
<1>5. group' \in GroupRec
  BY <1>1, <1>2, JoinIs
<1>6. [caller[t] EXCEPT !.pc = "release"] \in CallerSet
  BY <1>1, CallerAt
<1>7. caller' \in [Callers -> CallerSet]
  BY <1>2, <1>6, CallerGoes
<1> QED
  BY <1>2, <1>4, <1>5, <1>7, ShapeBecomes DEF Shape

(* The call that made a simple object drops its reference. *)
LEMMA SimpleReleaseShape ==
  ASSUME Shape, NEW t \in Callers, SimpleRelease(t)
  PROVE  Shape' /\ ObjKept
<1> DEFINE o == caller[t].obj
           e == Dropped(obj[o], 1)
<1>1. /\ caller[t] \in CallerSet /\ o \in Objects /\ obj[o] \in ObjRec /\ group \in GroupRec
  BY CallerObject DEF SimpleRelease
<1>2. /\ obj' = [obj EXCEPT ![o] = e]
      /\ Goto(t, IF obj[o].refcount = 1 THEN [caller[t] EXCEPT !.pc = "destroy"] ELSE Idle)
      /\ pool' = pool /\ pools' = pools /\ worker' = worker /\ group' = group
  BY DEF SimpleRelease
<1>3. e \in ObjRec /\ e.life \in {"dying", obj[o].life}
  BY <1>1, DroppedIs
<1> HIDE DEF e
<1>4. ObjKept
  BY <1>1, <1>2, <1>3, OneObject
<1>6. [caller[t] EXCEPT !.pc = "destroy"] \in CallerSet /\ Idle \in CallerSet
  BY <1>1, CallerAt, FreshRecords
<1>7. caller' \in [Callers -> CallerSet]
  BY <1>2, <1>6, CallerGoes
<1> QED
  BY <1>2, <1>4, <1>7, ShapeBecomes DEF Shape

(* A caller destroys the object whose last reference it dropped. *)
LEMMA CallerDestroyShape ==
  ASSUME Shape, NEW t \in Callers, CallerDestroy(t)
  PROVE  Shape' /\ ObjKept
<1>1. caller[t] \in CallerSet /\ caller[t].obj \in Objects
  BY CallerObject DEF CallerDestroy
<1>2. ObjKept /\ pools' = pools /\ pool' \in PoolRec /\ group' \in GroupRec
  BY <1>1, DestroyShape DEF CallerDestroy
<1>3. PICK pc : pc = IF caller[t].list = <<>> THEN "idle" ELSE "gwait"
  OBVIOUS
<1>4. [caller[t] EXCEPT !.obj = Nil, !.pc = pc] \in CallerSet
  BY <1>1, <1>3 DEF CallerSet, CallerRec
<1>5. Goto(t, [caller[t] EXCEPT !.obj = Nil, !.pc = pc])
  BY <1>3 DEF CallerDestroy
<1>6. caller' \in [Callers -> CallerSet]
  BY <1>4, <1>5, CallerGoes
<1> QED
  BY <1>2, <1>6, ShapeBecomes DEF CallerDestroy, Shape

(* TpPostWork. *)
LEMMA PostWorkShape ==
  ASSUME Shape, NEW t \in Callers, NEW o \in Objects, TpPostWork(t, o)
  PROVE  Shape' /\ ObjKept
<1>1. Counted(o) \in ObjRec /\ Counted(o).life = obj[o].life
  BY CountedIs
<1>2. tp_object_submit(o, Counted(o), pool) /\ group' = group /\ caller' = caller
  BY DEF TpPostWork
<1>3. pool \in PoolRec /\ caller' \in [Callers -> CallerSet]
  BY <1>2 DEF Shape
<1> QED
  BY <1>1, <1>2, <1>3, SubmitStepShape

(* A call waits for an object, and may cancel it first. *)
LEMMA WaitForShape ==
  ASSUME Shape, NEW t \in Callers, NEW o \in Objects, NEW c \in BOOLEAN, TpWaitFor(t, o, c)
  PROVE  Shape' /\ ObjKept
<1>1. [Idle EXCEPT !.pc = "wait", !.obj = o] \in CallerSet
  BY CallerAt
<1>2. caller' \in [Callers -> CallerSet]
  BY <1>1, CallerGoes DEF TpWaitFor
<1>3. ObjKept /\ pools' \in PoolLists
  <2>1. CASE tp_object_cancel(o)
    BY <2>1, CancelShape
  <2>2. CASE obj' = obj /\ pools' = pools
    BY <2>2, NoObjectChanges DEF Shape
  <2> QED
    BY <2>1, <2>2 DEF TpWaitFor
<1> QED
  BY <1>2, <1>3, ShapeBecomes DEF TpWaitFor, Shape

(* The wait looks at the object. *)
LEMMA ObjectWaitShape ==
  ASSUME Shape, NEW t \in Callers, tp_object_wait(t)
  PROVE  Shape' /\ ObjKept
<1>1. caller[t] \in CallerSet /\ caller[t].obj \in Objects
  BY CallerObject DEF tp_object_wait
<1>2. [caller[t] EXCEPT !.pc = "sleep"] \in CallerSet /\ Idle \in CallerSet
  BY <1>1, CallerAt, FreshRecords
<1>3. caller' \in [Callers -> CallerSet]
  BY <1>2, CallerGoes DEF tp_object_wait
<1> QED
  BY <1>3, ShapeStays DEF tp_object_wait, Shape

(* The program releases an object. *)
LEMMA ReleaseShape ==
  ASSUME Shape, NEW t \in Callers, NEW o \in Objects, TpRelease(t, o)
  PROVE  Shape' /\ ObjKept
<1> DEFINE e == Closed(obj[o], 1, "none")
<1>1. obj[o] \in ObjRec /\ caller[t] \in CallerSet
  BY DEF Shape
<1>2. ReleasedIs(obj[o], e, 1, "none")
  BY <1>1, ReleaseIs
<1>3. /\ obj' = [obj EXCEPT ![o] = e]
      /\ Goto(t, IF obj[o].refcount = 1 THEN [Idle EXCEPT !.pc = "destroy", !.obj = o]
                                      ELSE caller[t])
      /\ pool' = pool /\ pools' = pools /\ group' = group /\ worker' = worker
  BY DEF TpRelease
<1> HIDE DEF e
<1>4. e \in ObjRec /\ e.life \in {"dying", obj[o].life}
  BY <1>2 DEF ReleasedIs
<1>5. ObjKept
  BY <1>3, <1>4, OneObject
<1>6. [Idle EXCEPT !.pc = "destroy", !.obj = o] \in CallerSet
  BY CallerAt
<1>7. caller' \in [Callers -> CallerSet]
  BY <1>1, <1>3, <1>6, CallerGoes
<1> QED
  BY <1>3, <1>5, <1>7, ShapeBecomes DEF Shape

(* The program releases the pool. *)
LEMMA ReleasePoolShape ==
  ASSUME Shape, NEW t \in Callers, TpReleasePool(t)
  PROVE  Shape' /\ ObjKept
<1>0. pool \in PoolRec
  BY DEF Shape
<1>1. [pool EXCEPT !.shutdown = TRUE] \in PoolRec
  BY <1>0 DEF PoolRec
<1>2. pool' \in PoolRec
  BY <1>1, PoolReleaseIs DEF TpReleasePool
<1>3. worker' \in [Workers -> WorkerSet]
  <2>1. ASSUME NEW w \in Workers
        PROVE  (IF w \in Sleepers THEN [worker[w] EXCEPT !.pc = "run"] ELSE worker[w]) \in WorkerSet
    <3>1. worker[w] \in WorkerSet
      BY DEF Shape
    <3>2. [worker[w] EXCEPT !.pc = "run"] \in WorkerSet
      BY <3>1, WorkerAt
    <3> QED
      BY <3>1, <3>2
  <2> QED
    BY <2>1 DEF TpReleasePool
<1> QED
  BY <1>2, <1>3, ShapeStays DEF TpReleasePool, Shape

(* The limits of the pool. *)
LEMMA MaxThreadsShape ==
  ASSUME Shape, NEW t \in Callers, NEW n \in Nat, TpSetPoolMaxThreads(t, n)
  PROVE  Shape' /\ ObjKept
<1>0. pool \in PoolRec /\ pool.min_workers \in Nat
  BY DEF Shape, PoolRec
<1>1. PICK m \in Nat \ {0} : m = IF n > 1 THEN n ELSE 1
  OBVIOUS
<1>2. PICK k \in Nat : k = IF pool.min_workers < m THEN pool.min_workers ELSE m
  BY <1>0
<1>3. pool' = [pool EXCEPT !.max_workers = m, !.min_workers = k]
  BY <1>1, <1>2 DEF TpSetPoolMaxThreads
<1>4. pool' \in PoolRec
  BY <1>0, <1>3 DEF PoolRec
<1> QED
  BY <1>4, ShapeStays DEF TpSetPoolMaxThreads, Shape

(* TpSetPoolMinThreads starts threads. *)
LEMMA MinThreadsShape ==
  ASSUME Shape, NEW t \in Callers, NEW n \in Nat, TpSetPoolMinThreads(t, n)
  PROVE  Shape' /\ ObjKept
<1>0. /\ pool \in PoolRec /\ pool.num_workers \in Int /\ pool.refcount \in Int
      /\ pool.max_workers \in Nat \ {0}
  BY DEF Shape, PoolRec
<1>1. PICK S \in SUBSET Spare :
         LET k == pool.num_workers + Cardinality(S)
             p == [pool EXCEPT !.refcount = @ + Cardinality(S), !.num_workers = k]
         IN /\ worker' = [w \in Workers |-> IF w \in S THEN [NoWorker EXCEPT !.pc = "run"]
                                                       ELSE worker[w]]
            /\ pool' = IF k < n THEN p
                       ELSE [p EXCEPT !.min_workers = n,
                               !.max_workers = IF @ > n THEN @ ELSE n]
  BY DEF TpSetPoolMinThreads
<1>2. IsFiniteSet(S) /\ Cardinality(S) \in Nat
  <2>1. S \subseteq Workers
    BY DEF Spare
  <2> QED
    BY <2>1, PoolConstants, FS_Subset, FS_CardinalityType
<1>3. PICK k \in Int, r \in Int : k = pool.num_workers + Cardinality(S) /\ r = pool.refcount + Cardinality(S)
  BY <1>0, <1>2
<1> DEFINE p == [pool EXCEPT !.refcount = r, !.num_workers = k]
<1>4. p \in PoolRec /\ p.max_workers = pool.max_workers
  BY <1>0 DEF PoolRec
<1>5. PICK m \in Nat \ {0} : m = IF pool.max_workers > n THEN pool.max_workers
                                 ELSE IF n = 0 THEN 1 ELSE n
  BY <1>0
<1>6. pool.max_workers > n \/ n # 0
  BY <1>0
<1>7. pool' = IF k < n THEN p ELSE [p EXCEPT !.min_workers = n, !.max_workers = m]
  BY <1>1, <1>3, <1>4, <1>5, <1>6
<1> HIDE DEF p
<1>8. [p EXCEPT !.min_workers = n, !.max_workers = m] \in PoolRec
  BY <1>4 DEF PoolRec
<1>9. pool' \in PoolRec
  BY <1>4, <1>7, <1>8
<1>10. worker' \in [Workers -> WorkerSet]
  <2>1. ASSUME NEW w \in Workers
        PROVE  (IF w \in S THEN [NoWorker EXCEPT !.pc = "run"] ELSE worker[w]) \in WorkerSet
    BY FreshRecords DEF Shape
  <2> QED
    BY <1>1, <2>1
<1> QED
  BY <1>9, <1>10, ShapeStays DEF TpSetPoolMinThreads, Shape

(* The cleanup group. *)
LEMMA MarkedIs ==
  ASSUME Shape
  PROVE  Marked \in Seq(Objects) /\ MarkedSet = Rng(Marked) /\ MarkedSet \subseteq Objects
<1>1. group.members \in Seq(Objects)
  BY DEF Shape, GroupRec
<1>2. Marked \in Seq(Objects)
  BY <1>1, WithoutIs DEF Marked
<1>3. DOMAIN Marked = 1..Len(Marked)
  BY <1>2
<1>4. MarkedSet = Rng(Marked)
  BY <1>3 DEF MarkedSet, Rng
<1> QED
  BY <1>2, <1>4, RngIs

(* What a member becomes that a group release takes. *)
Taken(ob) == [ob EXCEPT !.refcount = @ + 1, !.member = FALSE,
                        !.owner = IF @ = "user" THEN "group" ELSE @]
TakenIs(ob, e) ==
    /\ e \in ObjRec /\ e.life = ob.life /\ e.refcount = ob.refcount + 1 /\ e.member = FALSE
    /\ ob.owner = "user" => e.owner = "group"
    /\ ob.owner # "user" => e.owner = ob.owner
    /\ e.shutdown = ob.shutdown /\ e.grouped = ob.grouped /\ e.pending = ob.pending
    /\ e.running = ob.running /\ e.associated = ob.associated /\ e.signaled = ob.signaled
    /\ e.ops = ob.ops /\ e.skipped = ob.skipped /\ e.completions = ob.completions
    /\ e.posts = ob.posts

(* What the group takes over of an object. *)
LEMMA TakeIs ==
  ASSUME NEW ob \in ObjRec
  PROVE  TakenIs(ob, Taken(ob))
<1>1. PICK n \in Int : n = ob.refcount + 1
  BY DEF ObjRec
<1>2. PICK own \in {"none", "user", "group"} : own = IF ob.owner = "user" THEN "group" ELSE ob.owner
  BY DEF ObjRec
<1> DEFINE e == [ob EXCEPT !.refcount = n, !.member = FALSE, !.owner = own]
<1>3. Taken(ob) = e
  BY ONLY <1>1, <1>2 DEF Taken
<1>4. /\ e \in ObjRec /\ e.life = ob.life /\ e.refcount = n /\ e.member = FALSE /\ e.owner = own
      /\ e.shutdown = ob.shutdown /\ e.grouped = ob.grouped /\ e.pending = ob.pending
      /\ e.running = ob.running /\ e.associated = ob.associated /\ e.signaled = ob.signaled
      /\ e.ops = ob.ops /\ e.skipped = ob.skipped /\ e.completions = ob.completions
      /\ e.posts = ob.posts
  BY DEF ObjRec
<1> HIDE DEF e
<1> QED
  BY ONLY <1>1, <1>2, <1>3, <1>4 DEF TakenIs

(* The members of the group are released. *)
LEMMA GroupMembersShape ==
  ASSUME Shape, NEW t \in Callers, NEW c \in BOOLEAN, TpReleaseCleanupGroupMembers(t, c)
  PROVE  Shape' /\ ObjKept
<1>1. /\ obj' = [o \in Objects |-> IF o \in MarkedSet THEN Taken(obj[o])
                                   ELSE [obj[o] EXCEPT !.member = FALSE]]
      /\ group' = [group EXCEPT !.members = <<>>]
      /\ Goto(t, IF Marked = <<>> THEN Idle
               ELSE [Idle EXCEPT !.list = Marked, !.todo = IF c THEN Marked ELSE <<>>,
                                 !.pc = IF c THEN "gcancel" ELSE "gwait"])
      /\ pool' = pool /\ pools' = pools /\ worker' = worker
  BY DEF TpReleaseCleanupGroupMembers, Taken
<1>2. ASSUME NEW o \in Objects
      PROVE  obj'[o] \in ObjRec /\ obj'[o].life = obj[o].life
  <2>1. obj[o] \in ObjRec
    BY DEF Shape
  <2>2. Taken(obj[o]) \in ObjRec /\ Taken(obj[o]).life = obj[o].life
    BY <2>1, TakeIs DEF TakenIs
  <2>3. [obj[o] EXCEPT !.member = FALSE] \in ObjRec /\ [obj[o] EXCEPT !.member = FALSE].life = obj[o].life
    BY <2>1 DEF ObjRec
  <2> QED
    BY <1>1, <2>2, <2>3
<1>3. ObjKept
  BY <1>1, <1>2 DEF ObjKept
<1>0. PICK s0 \in Seq(Objects) : s0 = <<>>
  <2>1. <<>> \in Seq(Objects)
    OBVIOUS
  <2> QED
    BY ONLY <2>1
<1>4. group' \in GroupRec
  <2>1. group' = [group EXCEPT !.members = s0] /\ group \in GroupRec
    BY <1>0, <1>1 DEF Shape
  <2> QED
    BY <2>1 DEF GroupRec
<1>5. caller' \in [Callers -> CallerSet]
  <2>1. Marked \in Seq(Objects)
    BY MarkedIs
  <2>2. CASE Marked = <<>>
    BY <1>1, <2>2, FreshRecords, CallerGoes
  <2>3. CASE Marked # <<>>
    <3>1. PICK td \in Seq(Objects), pc \in {"gcancel", "gwait"} :
            /\ td = IF c THEN Marked ELSE <<>>
            /\ pc = IF c THEN "gcancel" ELSE "gwait"
      BY <1>0, <2>1
    <3>2. pc = "gcancel" => td # <<>>
      BY <2>3, <3>1
    <3>3. [Idle EXCEPT !.list = Marked, !.todo = td, !.pc = pc] \in CallerSet
      BY <2>1, <2>3, <3>2, FreshRecords DEF CallerSet, CallerRec
    <3> QED
      BY <1>1, <2>3, <3>1, <3>3, CallerGoes
  <2> QED
    BY <2>2, <2>3
<1> QED
  BY <1>1, <1>3, <1>4, <1>5, ShapeBecomes DEF Shape

(* A caller in a group release. *)
LEMMA CallerList ==
  ASSUME Shape, NEW t \in Callers, caller[t].pc \in {"gcancel", "gwait", "gsleep", "gdrop"}
  PROVE  /\ caller[t] \in CallerSet /\ caller[t].list \in Seq(Objects) /\ caller[t].list # <<>>
         /\ Head(caller[t].list) \in Objects /\ Tail(caller[t].list) \in Seq(Objects)
         /\ caller[t].todo \in Seq(Objects)
<1>1. /\ caller[t] \in CallerSet /\ caller[t].list \in Seq(Objects) /\ caller[t].list # <<>>
      /\ caller[t].todo \in Seq(Objects)
  BY DEF Shape, CallerSet, CallerRec
<1>2. \A s \in Seq(Objects) : s # <<>> => Head(s) \in Objects /\ Tail(s) \in Seq(Objects)
  OBVIOUS
<1> QED
  BY <1>1, <1>2

(* One of them is cancelled. *)
LEMMA GroupCancelShape ==
  ASSUME Shape, NEW t \in Callers, GroupCancel(t)
  PROVE  Shape' /\ ObjKept
<1>1. caller[t] \in CallerSet /\ caller[t].todo \in Seq(Objects)
  BY CallerList DEF GroupCancel
<1>2. caller[t].todo # <<>> /\ caller[t].list # <<>>
  BY <1>1 DEF CallerSet, GroupCancel
<1>3. /\ Head(caller[t].todo) \in Objects /\ Tail(caller[t].todo) \in Seq(Objects)
      /\ Len(caller[t].todo) # 1 => Tail(caller[t].todo) # <<>>
  <2>1. \A s \in Seq(Objects) : s # <<>> => /\ Head(s) \in Objects /\ Tail(s) \in Seq(Objects)
                                            /\ Len(s) # 1 => Tail(s) # <<>>
    <3>1. ASSUME NEW s \in Seq(Objects), s # <<>>
          PROVE  /\ Head(s) \in Objects /\ Tail(s) \in Seq(Objects)
                 /\ Len(Tail(s)) = Len(s) - 1 /\ Len(s) \in Nat
      BY <3>1
    <3>2. ASSUME NEW s \in Seq(Objects), s # <<>>, Len(s) # 1
          PROVE  Tail(s) # <<>>
      <4>1. Len(Tail(s)) # 0
        BY <3>1, <3>2
      <4>2. Len(<<>>) = 0
        OBVIOUS
      <4> QED
        BY ONLY <4>1, <4>2
    <3> QED
      BY <3>1, <3>2
  <2> QED
    BY <1>1, <1>2, <2>1
<1>4. ObjKept /\ pools' \in PoolLists
  BY <1>3, CancelShape DEF GroupCancel
<1>5. PICK s \in Seq(Objects), pc \in {"gwait", "gcancel"} :
        /\ s = Tail(caller[t].todo)
        /\ pc = IF Len(caller[t].todo) = 1 THEN "gwait" ELSE "gcancel"
  BY <1>3
<1>6. pc = "gcancel" => s # <<>>
  BY <1>3, <1>5
<1>7. [caller[t] EXCEPT !.todo = s, !.pc = pc] \in CallerSet
  BY <1>1, <1>2, <1>6 DEF CallerSet, CallerRec
<1>8. caller' \in [Callers -> CallerSet]
  BY <1>5, <1>7, CallerGoes DEF GroupCancel
<1> QED
  BY <1>4, <1>8, ShapeBecomes DEF GroupCancel, Shape

(* One of them is waited for. *)
LEMMA GroupWaitShape ==
  ASSUME Shape, NEW t \in Callers, GroupWait(t)
  PROVE  Shape' /\ ObjKept
<1> DEFINE o == Head(caller[t].list)
<1>1. caller[t] \in CallerSet /\ caller[t].list # <<>> /\ o \in Objects
  BY CallerList DEF GroupWait
<1>2. PICK pc \in {"gdrop", "gsleep"} : pc = IF object_is_finished(obj[o], TRUE) THEN "gdrop" ELSE "gsleep"
  OBVIOUS
<1>3. [caller[t] EXCEPT !.obj = o, !.pc = pc] \in CallerSet
  BY <1>1 DEF CallerSet, CallerRec
<1>4. Goto(t, [caller[t] EXCEPT !.obj = o, !.pc = pc])
  BY <1>2 DEF GroupWait
<1>5. caller' \in [Callers -> CallerSet]
  BY <1>3, <1>4, CallerGoes
<1> QED
  BY <1>5, ShapeStays DEF GroupWait, Shape

(* One of them is let go. *)
LEMMA GroupDropShape ==
  ASSUME Shape, NEW t \in Callers, GroupDrop(t)
  PROVE  Shape' /\ ObjKept
<1> DEFINE o == Head(caller[t].list)
           left == Tail(caller[t].list)
<1>1. o \in Objects /\ left \in Seq(Objects)
  BY CallerList DEF GroupDrop
<1>2. obj[o] \in ObjRec
  BY <1>1 DEF Shape
<1>3. PICK n \in Int : n = IF ~obj[o].shutdown /\ Type[o] # "simple" THEN 2 ELSE 1
  OBVIOUS
<1> DEFINE e == Closed(obj[o], n, "none")
<1>4. /\ obj' = [obj EXCEPT ![o] = e]
      /\ Goto(t, IF obj[o].refcount = n
                       THEN [Idle EXCEPT !.pc = "destroy", !.obj = o, !.list = left]
                     ELSE IF left = <<>> THEN Idle ELSE [Idle EXCEPT !.pc = "gwait", !.list = left])
      /\ pool' = pool /\ pools' = pools /\ group' = group /\ worker' = worker
  BY <1>3 DEF GroupDrop
<1>5. ReleasedIs(obj[o], e, n, "none")
  BY <1>2, ReleaseIs
<1> HIDE DEF e, o, left
<1>6. e \in ObjRec /\ e.life \in {"dying", obj[o].life}
  BY <1>5 DEF ReleasedIs
<1>7. ObjKept
  BY <1>1, <1>4, <1>6, OneObject
<1>8. /\ [Idle EXCEPT !.pc = "destroy", !.obj = o, !.list = left] \in CallerSet
      /\ left # <<>> => [Idle EXCEPT !.pc = "gwait", !.list = left] \in CallerSet
      /\ Idle \in CallerSet
  BY <1>1, FreshRecords DEF CallerSet, CallerRec
<1>9. caller' \in [Callers -> CallerSet]
  BY <1>4, <1>8, CallerGoes
<1> QED
  BY <1>4, <1>7, <1>9, ShapeBecomes DEF Shape

(* The group is released. *)
LEMMA ReleaseGroupShape ==
  ASSUME Shape, NEW t \in Callers, TpReleaseCleanupGroup(t)
  PROVE  Shape' /\ ObjKept
<1>1. [group EXCEPT !.shutdown = TRUE] \in GroupRec
  BY DEF Shape, GroupRec
<1>2. group' \in GroupRec
  BY <1>1, GroupReleaseIs DEF TpReleaseCleanupGroup
<1> QED
  BY <1>2, NoObjectChanges, ShapeBecomes DEF TpReleaseCleanupGroup, Shape

(* The service threads. *)
LEMMA ServiceSubmitShape ==
  ASSUME Shape, NEW o \in Objects, tp_object_submit(o, obj[o], pool), group' = group, caller' = caller
  PROVE  Shape' /\ ObjKept
<1>1. obj[o] \in ObjRec /\ pool \in PoolRec /\ caller' \in [Callers -> CallerSet]
  BY DEF Shape
<1> QED
  BY <1>1, SubmitStepShape

(* A handle was signalled: the record counts it. *)
LEMMA SignaledIs ==
  ASSUME NEW ob \in ObjRec
  PROVE  LET e == [ob EXCEPT !.signaled = @ + 1] IN
         /\ e \in ObjRec /\ e.life = ob.life /\ e.refcount = ob.refcount /\ e.owner = ob.owner
         /\ e.shutdown = ob.shutdown /\ e.grouped = ob.grouped /\ e.member = ob.member
         /\ e.pending = ob.pending /\ e.running = ob.running /\ e.associated = ob.associated
         /\ e.signaled = ob.signaled + 1 /\ e.ops = ob.ops /\ e.skipped = ob.skipped
         /\ e.completions = ob.completions /\ e.posts = ob.posts
<1>1. PICK n \in Int : n = ob.signaled + 1
  BY DEF ObjRec
<1>2. [ob EXCEPT !.signaled = @ + 1] = [ob EXCEPT !.signaled = n]
  BY <1>1
<1>3. LET e == [ob EXCEPT !.signaled = n] IN
         /\ e \in ObjRec /\ e.life = ob.life /\ e.refcount = ob.refcount /\ e.owner = ob.owner
         /\ e.shutdown = ob.shutdown /\ e.grouped = ob.grouped /\ e.member = ob.member
         /\ e.pending = ob.pending /\ e.running = ob.running /\ e.associated = ob.associated
         /\ e.signaled = n /\ e.ops = ob.ops /\ e.skipped = ob.skipped
         /\ e.completions = ob.completions /\ e.posts = ob.posts
  BY DEF ObjRec
<1> QED
  BY ONLY <1>1, <1>2, <1>3

(* A wait object is submitted because its handle was signalled. *)
LEMMA SubmitSignaledShape ==
  ASSUME Shape, WaitInv, now \in Nat, NEW b \in Buckets, SubmitSignaled(b)
  PROVE  Shape' /\ ObjKept /\ HitObject(b) \in Waits
<1> DEFINE o == HitObject(b)
<1>1. o \in Waits
  BY FiresKeeps DEF SubmitSignaled
<1>2. o \in Objects
  BY <1>1, WaitsFinite
<1>3. obj[o] \in ObjRec /\ pool \in PoolRec
  BY <1>2 DEF Shape
<1>4. /\ tp_object_submit(o, [obj[o] EXCEPT !.signaled = @ + 1], pool)
      /\ group' = group /\ caller' = caller
  BY DEF SubmitSignaled
<1>5. [obj[o] EXCEPT !.signaled = @ + 1] \in ObjRec /\ [obj[o] EXCEPT !.signaled = @ + 1].life = obj[o].life
  BY <1>3, SignaledIs
<1>6. caller' \in [Callers -> CallerSet]
  BY <1>4 DEF Shape
<1> QED
  BY <1>1, <1>2, <1>3, <1>4, <1>5, <1>6, SubmitStepShape

(* One more reference. *)
LEMMA HeldIs ==
  ASSUME NEW ob \in ObjRec
  PROVE  LET e == [ob EXCEPT !.refcount = @ + 1] IN
         /\ e \in ObjRec /\ e.life = ob.life /\ e.refcount = ob.refcount + 1 /\ e.owner = ob.owner
         /\ e.shutdown = ob.shutdown /\ e.grouped = ob.grouped /\ e.member = ob.member
         /\ e.pending = ob.pending /\ e.running = ob.running /\ e.associated = ob.associated
         /\ e.signaled = ob.signaled /\ e.ops = ob.ops /\ e.skipped = ob.skipped
         /\ e.completions = ob.completions /\ e.posts = ob.posts
<1>1. PICK n \in Int : n = ob.refcount + 1
  BY DEF ObjRec
<1>2. [ob EXCEPT !.refcount = @ + 1] = [ob EXCEPT !.refcount = n]
  BY <1>1
<1>3. LET e == [ob EXCEPT !.refcount = n] IN
         /\ e \in ObjRec /\ e.life = ob.life /\ e.refcount = n /\ e.owner = ob.owner
         /\ e.shutdown = ob.shutdown /\ e.grouped = ob.grouped /\ e.member = ob.member
         /\ e.pending = ob.pending /\ e.running = ob.running /\ e.associated = ob.associated
         /\ e.signaled = ob.signaled /\ e.ops = ob.ops /\ e.skipped = ob.skipped
         /\ e.completions = ob.completions /\ e.posts = ob.posts
  BY DEF ObjRec
<1> QED
  BY ONLY <1>1, <1>2, <1>3

(* A wait thread takes its references. *)
LEMMA HoldObjectsShape ==
  ASSUME Shape, NEW b \in Buckets, HoldObjects(b)
  PROVE  Shape' /\ ObjKept
<1>1. ASSUME NEW o \in Objects
      PROVE  obj'[o] \in ObjRec /\ obj'[o].life = obj[o].life
  <2>1. obj[o] \in ObjRec
    BY DEF Shape
  <2>2. [obj[o] EXCEPT !.refcount = @ + 1] \in ObjRec /\ [obj[o] EXCEPT !.refcount = @ + 1].life = obj[o].life
    BY <2>1, HeldIs
  <2> QED
    BY <2>1, <2>2 DEF HoldObjects
<1>2. obj' = [o \in Objects |-> obj'[o]]
  BY DEF HoldObjects
<1>3. ObjKept
  BY <1>1, <1>2 DEF ObjKept
<1> QED
  BY <1>3, ShapeBecomes DEF HoldObjects, Shape

(* The object at the end of what a thread holds. *)
LEMMA LastHeldIs ==
  ASSUME WaitInv, NEW b \in Buckets, bucket[b].held # <<>>
  PROVE  LastHeld(b) \in Waits /\ LastHeld(b) \in Objects
<1>1. bucket[b].held \in Seq(HeldRecord)
  BY DEF WaitInv, BucketRec
<1>2. bucket[b].held[Len(bucket[b].held)] \in HeldRecord
  <2>1. \A s \in Seq(HeldRecord) : s # <<>> => s[Len(s)] \in HeldRecord
    OBVIOUS
  <2> QED
    BY <1>1, <2>1
<1>3. LastHeld(b) \in Waits
  BY <1>2 DEF LastHeld, HeldRecord
<1> QED
  BY <1>3, WaitsFinite

(* It drops one of them. *)
LEMMA ReleaseHeldShape ==
  ASSUME Shape, WaitInv, NEW b \in Buckets, ReleaseHeld(b)
  PROVE  Shape' /\ ObjKept
<1> DEFINE o == LastHeld(b)
<1>1. o \in Objects
  BY LastHeldIs DEF ReleaseHeld
<1>2. CASE tp_object_destroy(o)
  <2>1. ObjKept /\ pools' = pools /\ pool' \in PoolRec /\ group' \in GroupRec
    BY <1>1, <1>2, DestroyShape
  <2> QED
    BY <2>1, ShapeBecomes DEF ReleaseHeld, Shape
<1>3. CASE obj' = [obj EXCEPT ![o] = Dropped(@, 1)] /\ pool' = pool /\ pools' = pools /\ group' = group
  <2>1. obj[o] \in ObjRec
    BY <1>1 DEF Shape
  <2>2. Dropped(obj[o], 1) \in ObjRec /\ Dropped(obj[o], 1).life \in {"dying", obj[o].life}
    BY <2>1, DroppedIs
  <2>3. ObjKept
    BY <1>1, <1>3, <2>2, OneObject
  <2> QED
    BY <1>3, <2>3, ShapeBecomes DEF ReleaseHeld, Shape
<1> QED
  BY <1>2, <1>3 DEF ReleaseHeld

(* The I/O queue, its thread and its operations: one object changes. *)
LEMMA OneObjectShape ==
  ASSUME Shape, NEW o \in Objects, NEW e \in ObjRec, e.life \in {"dying", obj[o].life},
         obj' = [obj EXCEPT ![o] = e], pool' = pool, pools' = pools, group' = group,
         worker' = worker, caller' \in [Callers -> CallerSet]
  PROVE  Shape' /\ ObjKept
<1>1. ObjKept
  BY OneObject
<1> QED
  BY <1>1, ShapeBecomes DEF Shape

(* A counter of the operations changes. *)
LEMMA OpsIs ==
  ASSUME NEW ob \in ObjRec, NEW n \in Int
  PROVE  LET e == [ob EXCEPT !.ops = n] IN
         /\ e \in ObjRec /\ e.life = ob.life /\ e.refcount = ob.refcount /\ e.owner = ob.owner
         /\ e.shutdown = ob.shutdown /\ e.grouped = ob.grouped /\ e.member = ob.member
         /\ e.pending = ob.pending /\ e.running = ob.running /\ e.associated = ob.associated
         /\ e.signaled = ob.signaled /\ e.ops = n /\ e.skipped = ob.skipped
         /\ e.completions = ob.completions /\ e.posts = ob.posts
  BY DEF ObjRec

(* A packet that is skipped. *)
LEMMA SkippedIs ==
  ASSUME NEW ob \in ObjRec, NEW n \in Int
  PROVE  LET e == [ob EXCEPT !.skipped = n] IN
         /\ e \in ObjRec /\ e.life = ob.life /\ e.refcount = ob.refcount /\ e.owner = ob.owner
         /\ e.shutdown = ob.shutdown /\ e.grouped = ob.grouped /\ e.member = ob.member
         /\ e.pending = ob.pending /\ e.running = ob.running /\ e.associated = ob.associated
         /\ e.signaled = ob.signaled /\ e.ops = ob.ops /\ e.skipped = n
         /\ e.completions = ob.completions /\ e.posts = ob.posts
  BY DEF ObjRec

(* A completion that is stored. *)
LEMMA StoresIs ==
  ASSUME NEW ob \in ObjRec, NEW o
  PROVE  LET e == Stores(o, ob) IN
         /\ e \in ObjRec /\ e.life = ob.life /\ e.refcount = ob.refcount /\ e.owner = ob.owner
         /\ e.shutdown = ob.shutdown /\ e.grouped = ob.grouped /\ e.member = ob.member
         /\ e.pending = ob.pending /\ e.running = ob.running /\ e.associated = ob.associated
         /\ e.signaled = ob.signaled /\ e.ops = ob.ops /\ e.skipped = ob.skipped
         /\ e.completions = ob.completions + 1 /\ e.posts = ob.posts
<1>1. PICK n \in Int : n = ob.completions + 1
  BY DEF ObjRec
<1>2. Stores(o, ob) = [ob EXCEPT !.completions = n]
  BY <1>1 DEF Stores
<1>3. LET e == [ob EXCEPT !.completions = n] IN
         /\ e \in ObjRec /\ e.life = ob.life /\ e.refcount = ob.refcount /\ e.owner = ob.owner
         /\ e.shutdown = ob.shutdown /\ e.grouped = ob.grouped /\ e.member = ob.member
         /\ e.pending = ob.pending /\ e.running = ob.running /\ e.associated = ob.associated
         /\ e.signaled = ob.signaled /\ e.ops = ob.ops /\ e.skipped = ob.skipped
         /\ e.completions = n /\ e.posts = ob.posts
  BY DEF ObjRec
<1> QED
  BY ONLY <1>1, <1>2, <1>3

(* An operation is started. *)
LEMMA IoStartShape ==
  ASSUME Shape, NEW t \in Callers, NEW o \in Objects, TpStartAsyncIoOperation(t, o)
  PROVE  Shape' /\ ObjKept
<1>1. obj[o] \in ObjRec /\ caller' \in [Callers -> CallerSet]
  BY DEF Shape, TpStartAsyncIoOperation
<1>2. PICK n \in Int : n = obj[o].ops + 1
  BY <1>1 DEF ObjRec
<1> DEFINE e == [obj[o] EXCEPT !.ops = n]
<1>3. obj' = [obj EXCEPT ![o] = e]
  BY <1>2 DEF TpStartAsyncIoOperation
<1>4. e \in ObjRec /\ e.life = obj[o].life
  BY <1>1, OpsIs
<1> HIDE DEF e
<1> QED
  BY <1>1, <1>3, <1>4, OneObjectShape DEF TpStartAsyncIoOperation

(* An operation is taken back. *)
LEMMA IoCancelShape ==
  ASSUME Shape, NEW t \in Callers, NEW o \in Objects, TpCancelAsyncIoOperation(t, o)
  PROVE  Shape' /\ ObjKept
<1>1. obj[o] \in ObjRec
  BY DEF Shape
<1>2. PICK n \in Int : n = obj[o].ops - 1
  BY <1>1 DEF ObjRec
<1> DEFINE e == [obj[o] EXCEPT !.ops = n]
<1>3. obj' = [obj EXCEPT ![o] = e] /\ WakeWaiters(o, e, {"sleep", "gsleep"})
  BY <1>2 DEF TpCancelAsyncIoOperation
<1>4. e \in ObjRec /\ e.life = obj[o].life
  BY <1>1, OpsIs
<1> HIDE DEF e
<1>5. caller' \in [Callers -> CallerSet]
  <2>1. {"sleep", "gsleep"} \in SUBSET {"sleep", "gsleep"}
    OBVIOUS
  <2> QED
    BY <1>3, <2>1, WakeWaitersShape
<1> QED
  BY <1>3, <1>4, <1>5, OneObjectShape DEF TpCancelAsyncIoOperation

(* The program releases an I/O object. *)
LEMMA IoReleaseShape ==
  ASSUME Shape, NEW t \in Callers, NEW o \in Objects, TpReleaseIoCompletion(t, o)
  PROVE  Shape' /\ ObjKept
<1>1. CASE TpRelease(t, o)
  BY <1>1, ReleaseShape
<1>2. CASE /\ obj' = [obj EXCEPT ![o].owner = "none"]
           /\ pool' = pool /\ pools' = pools /\ group' = group /\ worker' = worker /\ caller' = caller
  <2>1. obj[o] \in ObjRec /\ caller' \in [Callers -> CallerSet]
    BY <1>2 DEF Shape
  <2>2. [obj[o] EXCEPT !.owner = "none"] \in ObjRec /\ [obj[o] EXCEPT !.owner = "none"].life = obj[o].life
    BY <2>1 DEF ObjRec
  <2> QED
    BY <1>2, <2>1, <2>2, OneObjectShape
<1> QED
  BY <1>1, <1>2 DEF TpReleaseIoCompletion

(* The I/O thread works on a packet. *)
LEMMA IoThreadShape ==
  ASSUME Shape, NEW o \in Objects,
         IoSkips(o) \/ IoReleases(o) \/ IoDestroys(o) \/ IoSubmits(o) \/ IoSubmitsAgain(o)
           \/ IoLacksMemory(o)
  PROVE  Shape' /\ ObjKept
<1>0. obj[o] \in ObjRec /\ pool \in PoolRec /\ caller \in [Callers -> CallerSet]
  BY DEF Shape
<1>1. CASE IoSkips(o)
  <2>1. PICK n \in Int : n = obj[o].skipped - 1
    BY <1>0 DEF ObjRec
  <2> DEFINE e == [obj[o] EXCEPT !.skipped = n]
  <2>2. obj' = [obj EXCEPT ![o] = e] /\ caller' \in [Callers -> CallerSet]
    BY <1>0, <1>1, <2>1 DEF IoSkips
  <2>3. e \in ObjRec /\ e.life = obj[o].life
    BY <1>0, SkippedIs
  <2> HIDE DEF e
  <2> QED
    BY <1>1, <2>2, <2>3, OneObjectShape DEF IoSkips
<1>2. CASE IoReleases(o)
  <2> DEFINE d == Closed(obj[o], 1, obj[o].owner)
  <2>1. PICK z \in Int : z = 0
    OBVIOUS
  <2> DEFINE e == [d EXCEPT !.skipped = z]
  <2>2. obj' = [obj EXCEPT ![o] = e] /\ caller' \in [Callers -> CallerSet]
    BY <1>0, <1>2, <2>1 DEF IoReleases
  <2>3. obj[o].owner \in {"none", "user", "group"}
    BY <1>0 DEF ObjRec
  <2>4. d \in ObjRec /\ d.life \in {"dying", obj[o].life}
    <3>1. ReleasedIs(obj[o], d, 1, obj[o].owner)
      BY <1>0, <2>3, ReleaseIs
    <3> QED
      BY <3>1 DEF ReleasedIs
  <2> HIDE DEF d
  <2>5. e \in ObjRec /\ e.life = d.life
    BY <2>4, SkippedIs
  <2> HIDE DEF e
  <2> QED
    BY <1>2, <2>2, <2>4, <2>5, OneObjectShape DEF IoReleases
<1>3. CASE IoDestroys(o)
  <2>1. ObjKept /\ pools' = pools /\ pool' \in PoolRec /\ group' \in GroupRec
    BY <1>3, DestroyShape DEF IoDestroys
  <2> QED
    BY <1>3, <2>1, ShapeBecomes DEF IoDestroys, Shape
<1>4. CASE IoSubmits(o)
  <2>1. PICK n \in Int : n = obj[o].ops - 1
    BY <1>0 DEF ObjRec
  <2> DEFINE d == [obj[o] EXCEPT !.ops = n]
             p == [pool EXCEPT !.cs = "io"]
  <2>2. /\ tp_object_submit(o, Stores(o, d), p) /\ group' = group
        /\ caller' \in [Callers -> CallerSet]
    BY <1>0, <1>4, <2>1 DEF IoSubmits
  <2>3. d \in ObjRec /\ d.life = obj[o].life
    BY <1>0, OpsIs
  <2>4. p \in PoolRec
    BY <1>0, LockedIs
  <2> HIDE DEF d, p
  <2>5. Stores(o, d) \in ObjRec /\ Stores(o, d).life = d.life
    BY <2>3, StoresIs
  <2> QED
    BY <2>2, <2>3, <2>4, <2>5, SubmitStepShape
<1>5. CASE IoSubmitsAgain(o)
  <2> DEFINE p == [pool EXCEPT !.cs = Nil]
  <2>1. /\ tp_object_submit(o, Stores(o, obj[o]), p) /\ group' = group
        /\ caller' \in [Callers -> CallerSet]
    BY <1>0, <1>5 DEF IoSubmitsAgain
  <2>2. p \in PoolRec
    BY <1>0, LockedIs
  <2> HIDE DEF p
  <2>3. Stores(o, obj[o]) \in ObjRec /\ Stores(o, obj[o]).life = obj[o].life
    BY <1>0, StoresIs
  <2> QED
    BY <2>1, <2>2, <2>3, SubmitStepShape
<1>6. CASE IoLacksMemory(o)
  <2>1. PICK n \in Int : n = obj[o].ops - 1
    BY <1>0 DEF ObjRec
  <2> DEFINE e == [obj[o] EXCEPT !.ops = n]
  <2>2. obj' = [obj EXCEPT ![o] = e] /\ caller' \in [Callers -> CallerSet]
    BY <1>0, <1>6, <2>1 DEF IoLacksMemory
  <2>3. e \in ObjRec /\ e.life = obj[o].life
    BY <1>0, OpsIs
  <2> HIDE DEF e
  <2> QED
    BY <1>6, <2>2, <2>3, OneObjectShape DEF IoLacksMemory
<1> QED
  BY <1>1, <1>2, <1>3, <1>4, <1>5, <1>6

-----------------------------------------------------------------------------
(* What a step of the wait queue does to the objects of the pool: who holds *)
(* them, and which are in the queue.                                        *)

HeldKept == \A b \in Buckets : bucket'[b].held = bucket[b].held
InQueue(o) == wait[o].bucket # NoBucket
QueuedKept == \A o \in Waits : (wait'[o].bucket = NoBucket) <=> (wait[o].bucket = NoBucket)

(* Moving a wait object between the lists of a bucket leaves the rest. *)
LEMMA MovedHeld ==
  ASSUME NEW c \in BucketRec, NEW o
  PROVE  /\ ToReserved(c, o).held = c.held /\ ToWaiting(c, o).held = c.held
         /\ Updated(ToReserved(c, o)).held = c.held /\ Updated(ToWaiting(c, o)).held = c.held
  BY DEF ToReserved, ToWaiting, Updated, BucketRec

(* One bucket changes, and not in what it holds. *)
LEMMA HeldSame ==
  ASSUME WaitInv, NEW b \in Buckets, NEW r, bucket' = [bucket EXCEPT ![b] = r],
         r.held = bucket[b].held, wait' = wait
  PROVE  HeldKept /\ QueuedKept
<1>1. bucket \in [Buckets -> BucketRec]
  BY DEF WaitInv
<1> QED
  BY <1>1 DEF HeldKept, QueuedKept

(* A wait object enters the queue. *)
LEMMA LockEffect ==
  ASSUME WaitInv, NEW o \in Waits, tp_waitqueue_lock(o)
  PROVE  /\ HeldKept /\ wait'[o].bucket # NoBucket
         /\ \A x \in Waits \ {o} : wait'[x] = wait[x]
<1> DEFINE Room == {i \in DOMAIN buckets : bucket[buckets[i]].objcount < MaxInBucket}
           first == CHOOSE i \in Room : \A j \in Room : i <= j
<1>1. /\ bucket \in [Buckets -> BucketRec] /\ WaitsOK(wait) /\ wait \in [Waits -> WaitRec]
      /\ buckets \in Seq(Buckets) /\ \A b \in Buckets : BucketOK(b, bucket[b], wait)
  BY DEF WaitInv, WaitsOK
<1>2. ASSUME NEW b \in Buckets, NEW k \in BucketRec, k.held = bucket[b].held, Joins(b, k, o)
      PROVE  /\ HeldKept /\ wait'[o].bucket # NoBucket
             /\ \A x \in Waits \ {o} : wait'[x] = wait[x]
  <2>1. [NoWait EXCEPT !.bucket = b].bucket = b
    BY DEF NoWait
  <2>2. wait'[o].bucket = b /\ \A x \in Waits \ {o} : wait'[x] = wait[x]
    BY <1>1, <1>2, <2>1 DEF Joins
  <2>3. b # NoBucket
    BY WaitConstants
  <2>4. ToReserved(k, o).held = k.held
    BY MovedHeld
  <2>5. [ToReserved(k, o) EXCEPT !.objcount = @ + 1].held = k.held
    BY <2>4 DEF ToReserved, BucketRec
  <2>6. HeldKept
    BY <1>1, <1>2, <2>5 DEF Joins, HeldKept
  <2> QED
    BY <2>2, <2>3, <2>6
<1>3. CASE Room # {}
  <2> DEFINE b == buckets[first]
  <2>1. Joins(b, bucket[b], o) /\ buckets' = buckets
    BY <1>3 DEF tp_waitqueue_lock, Joins
  <2>2. first \in Room
    <3>1. DOMAIN buckets = 1..Len(buckets) /\ Len(buckets) \in Nat
      BY <1>1, LenProperties
    <3>2. Room \in SUBSET Nat
      BY <3>1
    <3> QED
      BY <1>3, <3>2, FirstIs
  <2> HIDE DEF first
  <2>3. b \in Buckets /\ bucket[b] \in BucketRec
    BY <1>1, <2>2
  <2> QED
    BY <1>2, <2>1, <2>3
<1>4. CASE Room = {}
  <2> DEFINE b == CHOOSE x \in Buckets : bucket[x].pc = "none"
             k == [NewBucket EXCEPT !.pc = "start"]
  <2>1. /\ \E x \in Buckets : bucket[x].pc = "none"
        /\ Joins(b, k, o)
    BY <1>4 DEF tp_waitqueue_lock, Joins
  <2>2. b \in Buckets /\ bucket[b].pc = "none"
    BY <2>1
  <2> HIDE DEF b
  <2>3. k \in BucketRec /\ k.held = <<>>
    <3>1. NewBucket \in BucketRec /\ NewBucket.held = <<>>
      BY WaitConstants DEF NewBucket, BucketRec
    <3> QED
      BY <3>1 DEF BucketRec
  <2>4. bucket[b].held = <<>>
    BY <2>2, BucketFacts DEF ThreadPart
  <2> QED
    BY <1>2, <2>1, <2>2, <2>3, <2>4
<1> QED
  BY <1>3, <1>4

(* The wait objects of S leave it. *)
LEMMA UnlockEffect ==
  ASSUME WaitInv, NEW S \in SUBSET Waits, tp_waitqueue_unlock(S)
  PROVE  /\ HeldKept /\ \A x \in S : wait'[x].bucket = NoBucket
         /\ \A x \in Waits \ S : wait'[x] = wait[x]
<1>1. bucket \in [Buckets -> BucketRec]
  BY DEF WaitInv
<1>2. HeldKept
  <2>1. ASSUME NEW b \in Buckets
        PROVE  bucket'[b].held = bucket[b].held
    <3> DEFINE Mine == {o \in S : wait[o].bucket = b}
               c == [bucket[b] EXCEPT !.waiting = Without(@, Mine),
                            !.reserved = Without(@, Mine),
                            !.objcount = @ - Cardinality(Mine)]
    <3>1. bucket[b] \in BucketRec
      BY <1>1
    <3>2. bucket'[b] = IF Mine = {} THEN bucket[b] ELSE Updated(c)
      BY DEF tp_waitqueue_unlock
    <3>3. Updated(c).held = bucket[b].held
      BY <3>1 DEF Updated, BucketRec
    <3> QED
      BY <3>2, <3>3
  <2> QED
    BY <2>1 DEF HeldKept
<1>3. /\ \A x \in S : wait'[x].bucket = NoBucket
      /\ \A x \in Waits \ S : wait'[x] = wait[x]
  BY DEF tp_waitqueue_unlock, NoWait
<1> QED
  BY <1>2, <1>3

(* The other steps that change neither. *)
LEMMA SetWaitEffect ==
  ASSUME WaitInv, NEW o \in Waits, NEW h, NEW delay, TpSetWaitEx(o, h, delay)
  PROVE  HeldKept /\ QueuedKept /\ InQueue(o)
<1>1. bucket \in [Buckets -> BucketRec] /\ wait \in [Waits -> WaitRec]
  BY DEF WaitInv, WaitsOK
<1>2. wait[o].bucket \in Buckets /\ InQueue(o)
  BY <1>1 DEF TpSetWaitEx, WaitRec, InQueue
<1>3. bucket[wait[o].bucket] \in BucketRec
  BY <1>1, <1>2
<1>4. HeldKept
  BY <1>1, <1>2, <1>3, MovedHeld DEF TpSetWaitEx, HeldKept
<1>5. QueuedKept
  <2>1. wait[o] \in WaitRec
    BY <1>1
  <2>2. CASE wait' = [wait EXCEPT ![o] = [wait[o] EXCEPT !.duped = h]]
    BY <1>1, <2>1, <2>2 DEF QueuedKept, WaitRec
  <2>3. ASSUME NEW p, NEW t, NEW s,
               wait' = [wait EXCEPT ![o] = [[wait[o] EXCEPT !.duped = h]
                          EXCEPT !.pending = p, !.timeout = t, !.serial = s]]
        PROVE  QueuedKept
    BY <1>1, <2>1, <2>3 DEF QueuedKept, WaitRec
  <2>4. CASE ~(h = NoBucket /\ ~wait[o].pending)
    <3> DEFINE w == [wait[o] EXCEPT !.duped = h]
    <3>1. PICK p, t, s :
            /\ p = (h # NoBucket)
            /\ t = (IF h = NoBucket THEN w.timeout ELSE IF delay = Never THEN Never ELSE now + delay)
            /\ s = (IF wait[o].handle = h THEN w.serial ELSE w.serial + 1)
      OBVIOUS
    <3>2. wait' = [wait EXCEPT ![o] = [w EXCEPT !.pending = p, !.timeout = t, !.serial = s]]
      BY <2>4, <3>1 DEF TpSetWaitEx
    <3> QED
      BY <2>3, <3>2
  <2> QED
    BY <2>2, <2>4 DEF TpSetWaitEx
<1> QED
  BY <1>2, <1>4, <1>5

(* A wait that times out stays in its bucket. *)
LEMMA ElapsesEffect ==
  ASSUME WaitInv, NEW b \in Buckets, WaitElapses(b) \/ WaitFires(b)
  PROVE  HeldKept /\ QueuedKept
<1>1. bucket \in [Buckets -> BucketRec] /\ wait \in [Waits -> WaitRec]
  BY DEF WaitInv, WaitsOK
<1>2. CASE WaitElapses(b)
  BY <1>1, <1>2, MovedHeld DEF WaitElapses, HeldKept, QueuedKept, WaitRec
<1>3. CASE WaitFires(b)
  <2>1. [ToReserved(bucket[b], HitObject(b)) EXCEPT !.pc = "drop", !.hit = 0].held = bucket[b].held
    BY <1>1 DEF ToReserved, BucketRec
  <2> QED
    BY <1>1, <1>3, <2>1 DEF WaitFires, HeldKept, QueuedKept, WaitRec
<1> QED
  BY <1>2, <1>3

(* The steps of a bucket alone hold and let go nothing. *)
LEMMA ThreadStepEffect ==
  ASSUME WaitInv, NEW b \in Buckets, WaitThreadStep(b)
  PROVE  HeldKept /\ QueuedKept
<1>1. bucket \in [Buckets -> BucketRec] /\ wait \in [Waits -> WaitRec] /\ bucket[b] \in BucketRec
  BY DEF WaitInv, WaitsOK
<1>2. CASE WaitThreadStarts(b) \/ WaitReturns(b)
  <2>1. [bucket[b] EXCEPT !.pc = "scan"].held = bucket[b].held
    BY <1>1 DEF BucketRec
  <2>2. [bucket[b] EXCEPT !.pc = "drop", !.hit = 0].held = bucket[b].held
    BY <1>1 DEF BucketRec
  <2>3. \/ bucket' = [bucket EXCEPT ![b] = [bucket[b] EXCEPT !.pc = "scan"]]
        \/ bucket' = [bucket EXCEPT ![b] = [bucket[b] EXCEPT !.pc = "drop", !.hit = 0]]
    BY <1>1, <1>2 DEF WaitThreadStarts, WaitReturns
  <2>4. wait' = wait
    BY <1>2 DEF WaitThreadStarts, WaitReturns
  <2> QED
    BY <2>1, <2>2, <2>3, <2>4, HeldSame
<1>3. CASE WaitThreadWakes(b)
  <2>0. wait' = wait
    BY <1>3 DEF WaitThreadWakes
  <2>1. ASSUME NEW i, bucket' = [bucket EXCEPT ![b].pc = "back", ![b].hit = i]
        PROVE  HeldKept /\ QueuedKept
    <3>1. bucket' = [bucket EXCEPT ![b] = [bucket[b] EXCEPT !.pc = "back", !.hit = i]]
      BY <1>1, <2>1
    <3>2. [bucket[b] EXCEPT !.pc = "back", !.hit = i].held = bucket[b].held
      BY <1>1 DEF BucketRec
    <3> QED
      BY <2>0, <3>1, <3>2, HeldSame
  <2>2. CASE bucket' = [bucket EXCEPT ![b].pc = "back", ![b].update = FALSE]
    <3>1. bucket' = [bucket EXCEPT ![b] = [bucket[b] EXCEPT !.pc = "back", !.update = FALSE]]
      BY <1>1, <2>2
    <3>2. [bucket[b] EXCEPT !.pc = "back", !.update = FALSE].held = bucket[b].held
      BY <1>1 DEF BucketRec
    <3> QED
      BY <2>0, <3>1, <3>2, HeldSame
  <2>3. ASSUME NEW p, bucket' = [bucket EXCEPT ![b].pc = p]
        PROVE  HeldKept /\ QueuedKept
    <3>1. bucket' = [bucket EXCEPT ![b] = [bucket[b] EXCEPT !.pc = p]]
      BY <1>1, <2>3
    <3>2. [bucket[b] EXCEPT !.pc = p].held = bucket[b].held
      BY <1>1 DEF BucketRec
    <3> QED
      BY <2>0, <3>1, <3>2, HeldSame
  <2> QED
    BY <1>3, <2>1, <2>2, <2>3 DEF WaitThreadWakes
<1>4. CASE WaitThreadEnds(b)
  <2>1. bucket[b].held = <<>>
    BY <1>4, BucketFacts DEF WaitThreadEnds, ThreadPart
  <2>2. NewBucket.held = <<>>
    BY DEF NewBucket
  <2> QED
    BY <1>1, <1>4, <2>1, <2>2 DEF WaitThreadEnds, HeldKept, QueuedKept
<1>5. CASE WaitThreadMerges(b)
  <2>1. CASE wait' = wait /\ bucket' = [bucket EXCEPT ![b].pc = "scan"]
    BY <1>1, <2>1 DEF HeldKept, QueuedKept, BucketRec
  <2>2. CASE ~(wait' = wait /\ bucket' = [bucket EXCEPT ![b].pc = "scan"])
    <3>1. DOMAIN buckets = 1..Len(buckets) /\ Len(buckets) \in Nat /\ buckets \in Seq(Buckets)
      BY LenProperties DEF WaitInv
    <3> DEFINE i == CHOOSE i \in Takers(b) : \A j \in Takers(b) : i <= j
               c == buckets[i]
    <3>2. /\ Takers(b) # {} /\ bucket' = [bucket EXCEPT ![c] = Joined(c, b), ![b] = Emptied(b)]
          /\ wait' = [o \in Waits |-> IF wait[o].bucket = b THEN [wait[o] EXCEPT !.bucket = c]
                                                                ELSE wait[o]]
      BY <1>5, <2>2 DEF WaitThreadMerges
    <3>3. i \in Takers(b)
      <4>1. Takers(b) \in SUBSET Nat
        BY <3>1 DEF Takers
      <4> QED
        BY <3>2, <4>1, FirstIs
    <3> HIDE DEF i
    <3>4. c \in Buckets /\ c # b
      BY <3>1, <3>3 DEF Takers
    <3> HIDE DEF c
    <3>5. Joined(c, b).held = bucket[c].held /\ Emptied(b).held = bucket[b].held
      <4>1. bucket[c] \in BucketRec
        BY <1>1, <3>4
      <4> QED
        BY <1>1, <4>1 DEF Joined, Emptied, Updated, BucketRec
    <3>6. HeldKept
      BY <1>1, <3>2, <3>4, <3>5 DEF HeldKept
    <3>7. QueuedKept
      BY <1>1, <3>2, <3>4, WaitConstants DEF QueuedKept, WaitRec
    <3> QED
      BY <3>6, <3>7
  <2> QED
    BY <2>1, <2>2
<1> QED
  BY <1>2, <1>3, <1>4, <1>5 DEF WaitThreadStep

(* A thread takes references, for the objects on its waiting list. *)
LEMMA BlocksEffect ==
  ASSUME WaitInv, NEW b \in Buckets, WaitThreadBlocks(b)
  PROVE  /\ wait' = wait /\ bucket[b].held = <<>>
         /\ \A x \in Buckets \ {b} : bucket'[x].held = bucket[x].held
         /\ bucket'[b].held \in Seq(HeldRecord)
         /\ Len(bucket'[b].held) = Len(bucket[b].waiting)
         /\ \A i \in 1..Len(bucket[b].waiting) : bucket'[b].held[i].obj = bucket[b].waiting[i]
<1> DEFINE k == bucket[b]
           h == [i \in DOMAIN k.waiting |-> Watched(wait, k.waiting[i])]
<1>1. /\ k \in BucketRec /\ ListPart(b, k, wait) /\ ThreadPart(b, k, wait)
      /\ bucket \in [Buckets -> BucketRec] /\ wait \in [Waits -> WaitRec] /\ WaitsOK(wait)
      /\ Len(k.held) \in Nat /\ Len(k.waiting) \in Nat /\ Len(k.reserved) \in Nat
  BY BucketFacts
<1>2. k.pc = "scan" /\ wait' = wait
  BY DEF WaitThreadBlocks
<1>3. k.held = <<>>
  BY <1>1, <1>2 DEF ThreadPart
<1>4. \A x \in Buckets \ {b} : bucket'[x].held = bucket[x].held
  BY <1>1 DEF WaitThreadBlocks
<1>5. bucket'[b].held \in Seq(HeldRecord)
  <2>1. WaitInv'
    BY BlocksKeeps
  <2> QED
    BY <2>1 DEF WaitInv, BucketRec
<1>6. CASE k.objcount = 0
  <2>1. bucket'[b] = [k EXCEPT !.pc = "linger"]
    BY <1>1, <1>6 DEF WaitThreadBlocks
  <2>2. bucket'[b].held = <<>>
    BY <1>1, <1>3, <2>1 DEF BucketRec
  <2>3. PICK n \in Nat, m \in Nat : n = Len(k.reserved) /\ m = Len(k.waiting)
    BY <1>1
  <2>4. n + m = 0
    BY <1>1, <1>6, <2>3 DEF ListPart
  <2>5. m = 0
    BY <2>4
  <2>6. Len(bucket'[b].held) = 0 /\ Len(k.waiting) = 0
    BY <2>2, <2>3, <2>5
  <2> QED
    BY <1>2, <1>3, <1>4, <1>5, <2>6
<1>7. CASE k.objcount # 0
  <2>1. bucket'[b] = [k EXCEPT !.pc = "block", !.held = h]
    BY <1>1, <1>7 DEF WaitThreadBlocks, Watched
  <2>2. bucket'[b].held = h
    BY <1>1, <2>1 DEF BucketRec
  <2>3. k.waiting \in Seq(Waits) /\ DOMAIN k.waiting = 1..Len(k.waiting)
    BY <1>1 DEF BucketRec
  <2>4. Len(h) = Len(k.waiting) /\ \A i \in 1..Len(k.waiting) : h[i].obj = k.waiting[i]
    <3>1. DOMAIN h = 1..Len(k.waiting)
      BY <2>3
    <3>2. Len(h) = Len(k.waiting)
      BY <1>1, <1>5, <2>2, <3>1, LenProperties
    <3>3. \A i \in 1..Len(k.waiting) : h[i].obj = k.waiting[i]
      BY <2>3 DEF Watched
    <3> QED
      BY <3>2, <3>3
  <2> QED
    BY <1>2, <1>3, <1>4, <1>5, <2>2, <2>4
<1> QED
  BY <1>6, <1>7

(* A thread releases one. *)
LEMMA DropsEffect ==
  ASSUME WaitInv, NEW b \in Buckets, WaitThreadDrops(b)
  PROVE  /\ wait' = wait /\ bucket[b].held # <<>>
         /\ \A x \in Buckets \ {b} : bucket'[x].held = bucket[x].held
         /\ bucket'[b].held = SubSeq(bucket[b].held, 1, Len(bucket[b].held) - 1)
<1>1. bucket \in [Buckets -> BucketRec] /\ bucket[b] \in BucketRec
  BY DEF WaitInv
<1> QED
  BY <1>1 DEF WaitThreadDrops, BucketRec

-----------------------------------------------------------------------------
(* An object that is not allocated is in no queue. *)
QueueLinks ==
    /\ \A o \in Timers : obj[o].life = "none" => timer[o].initialized = FALSE
    /\ \A o \in Waits : obj[o].life = "none" => wait[o].bucket = NoBucket /\ NotHeld(o)

(* All that is known of the queues and of the shape of the pool. *)
BaseInv == Shape /\ TimerInv /\ WaitInv /\ QueueLinks

(* Only an object that is allocated enters a queue. *)
TimerLink ==
    \A o \in Timers : timer'[o].initialized = TRUE =>
      timer[o].initialized = TRUE \/ obj'[o].life # "none"
WaitLink ==
    /\ \A o \in Waits : wait'[o].bucket # NoBucket => wait[o].bucket # NoBucket \/ obj'[o].life # "none"
    /\ \A o \in Waits : wait[o].bucket = NoBucket /\ NotHeld(o) => NotHeld(o)'

(* A step as the queues see it. *)
TimerPart == TimerStep /\ TimerLink
WaitPart == WaitStep /\ WaitLink
StepOK == Shape' /\ ObjKept /\ TimerPart /\ WaitPart

(* Such steps keep what is known. *)
LEMMA BaseStep ==
  ASSUME BaseInv, StepOK, program' = program
  PROVE  BaseInv'
<1>1. Shape' /\ TimerInv' /\ WaitInv'
  <2>1. now \in Nat
    BY DEF BaseInv, TimerInv
  <2> QED
    BY <2>1, TimerStepKeeps, WaitStepKeeps DEF BaseInv, StepOK, TimerPart, WaitPart
<1>2. ASSUME NEW o \in Timers, obj'[o].life = "none"
      PROVE  timer'[o].initialized = FALSE
  <2>1. o \in Objects
    BY TimersFinite
  <2>2. obj[o].life = "none"
    BY <1>2, <2>1 DEF StepOK, ObjKept
  <2>3. timer[o].initialized = FALSE
    BY <2>2 DEF BaseInv, QueueLinks
  <2>4. timer'[o].initialized # TRUE
    BY <1>2, <2>3 DEF StepOK, TimerPart, TimerLink
  <2>5. timer'[o].initialized \in BOOLEAN
    <3>1. timer' \in [Timers -> TimerRec]
      BY <1>1 DEF TimerInv
    <3>2. timer'[o] \in TimerRec
      BY <3>1
    <3> QED
      BY <3>2 DEF TimerRec
  <2> QED
    BY <2>4, <2>5
<1>3. ASSUME NEW o \in Waits, obj'[o].life = "none"
      PROVE  wait'[o].bucket = NoBucket /\ NotHeld(o)'
  <2>1. o \in Objects
    BY WaitsFinite
  <2>2. obj[o].life = "none"
    BY <1>3, <2>1 DEF StepOK, ObjKept
  <2>3. wait[o].bucket = NoBucket /\ NotHeld(o)
    BY <2>2 DEF BaseInv, QueueLinks
  <2> QED
    BY <1>3, <2>3 DEF StepOK, WaitPart, WaitLink
<1> QED
  BY <1>1, <1>2, <1>3 DEF BaseInv, QueueLinks

(* The parts of a step that leaves a queue alone. *)
LEMMA TimersAlone ==
  ASSUME UNCHANGED timerVars, now' \in {now, now + 1}
  PROVE  TimerPart
<1>1. timer' = timer
  BY DEF timerVars
<1> QED
  BY <1>1 DEF TimerPart, TimerStep, TimerLink

(* A step that leaves the wait queue alone keeps the links of those objects. *)
LEMMA WaitsAlone ==
  ASSUME UNCHANGED waitVars
  PROVE  WaitPart
<1>1. wait' = wait /\ bucket' = bucket
  BY DEF waitVars
<1> QED
  BY <1>1 DEF WaitPart, WaitStep, WaitLink, NotHeld

(* Nobody is held who was not, if nothing that is held changes. *)
LEMMA HeldLink ==
  ASSUME HeldKept, NEW o
  PROVE  NotHeld(o) <=> NotHeld(o)'
  BY DEF HeldKept, NotHeld

(* So does one that keeps who is held and who is queued. *)
LEMMA KeptLink ==
  ASSUME HeldKept, QueuedKept
  PROVE  WaitLink
  BY HeldLink DEF QueuedKept, WaitLink

(* A timer object is allocated. *)
LEMMA TimerLockPart ==
  ASSUME BaseInv, NEW o \in Timers, obj[o].life = "none", tp_timerqueue_lock(o),
         obj'[o].life # "none", now' = now
  PROVE  TimerPart
<1>1. timer[o].initialized = FALSE /\ timer \in [Timers -> TimerRec]
  BY DEF BaseInv, QueueLinks, TimerInv
<1>2. \A x \in Timers \ {o} : timer'[x] = timer[x]
  BY <1>1 DEF tp_timerqueue_lock
<1>3. TimerLink
  BY <1>2 DEF TimerLink
<1> QED
  BY <1>1, <1>3 DEF TimerPart, TimerStep

(* The timers of S are shut down. *)
LEMMA TimerUnlockPart ==
  ASSUME BaseInv, NEW S \in SUBSET Timers, tp_timerqueue_unlock(S), now' = now
  PROVE  TimerPart
<1>1. \A x \in Timers : timer'[x] = IF x \in S THEN NoTimer ELSE timer[x]
  BY DEF tp_timerqueue_unlock
<1>2. NoTimer.initialized = FALSE
  BY DEF NoTimer
<1>3. TimerLink
  BY <1>1, <1>2 DEF TimerLink
<1> QED
  BY <1>3 DEF TimerPart, TimerStep

(* A timer is set. *)
LEMMA TimerSetPart ==
  ASSUME BaseInv, NEW o \in Timers, NEW at \in Timeouts, NEW p \in Nat, NEW n \in UsedWindows,
         TpSetTimerEx(o, at, p, n), now' = now
  PROVE  TimerPart
<1>1. timer[o].initialized = TRUE
  <2>1. timer[o] \in TimerRec
    BY DEF BaseInv, TimerInv
  <2> QED
    BY <2>1 DEF TpSetTimerEx, TimerRec
<1>2. \A x \in Timers \ {o} : timer'[x] = timer[x]
  BY DEF TpSetTimerEx, BaseInv, TimerInv
<1>3. TimerLink
  BY <1>1, <1>2 DEF TimerLink
<1> QED
  BY <1>3 DEF TimerPart, TimerStep

(* A timer expires. *)
LEMMA TimerExpiryPart ==
  ASSUME BaseInv, NEW shut \in BOOLEAN, submit_expired_timers(shut), now' = now
  PROVE  TimerPart /\ ExpiredTimer \in Timers
<1>1. timer \in [Timers -> TimerRec] /\ TimerInv
  BY DEF BaseInv, TimerInv
<1>2. ExpiredTimer \in Timers
  <2>1. AnyExpired
    BY DEF submit_expired_timers
  <2> QED
    BY <1>1, <2>1, ExpiredIs
<1>3. \A x \in Timers : timer'[x].initialized = timer[x].initialized
  BY <1>1, <1>2 DEF submit_expired_timers, TimerRec
<1>4. TimerLink
  BY <1>3 DEF TimerLink
<1> QED
  BY <1>2, <1>4 DEF TimerPart, TimerStep

(* The thread of the timer queue. *)
LEMMA TimerThreadPart ==
  ASSUME BaseInv, TimerThreadWaits \/ TimerThreadWakes \/ TimerThreadEnters, now' = now
  PROVE  TimerPart
<1>1. timer' = timer
  BY DEF TimerThreadWaits, TimerThreadWakes, TimerThreadEnters
<1> QED
  BY <1>1 DEF TimerPart, TimerStep, TimerLink

(* A wait object is allocated. *)
LEMMA WaitLockPart ==
  ASSUME BaseInv, NEW o \in Waits, obj[o].life = "none", tp_waitqueue_lock(o), obj'[o].life # "none"
  PROVE  WaitPart
<1>1. wait[o].bucket = NoBucket /\ NotHeld(o) /\ WaitInv
  BY DEF BaseInv, QueueLinks
<1>2. HeldKept /\ \A x \in Waits \ {o} : wait'[x] = wait[x]
  BY <1>1, LockEffect
<1>3. WaitLink
  BY <1>2, HeldLink DEF WaitLink
<1> QED
  BY <1>1, <1>3 DEF WaitPart, WaitStep

(* Wait objects leave their buckets. *)
LEMMA WaitUnlockPart ==
  ASSUME BaseInv, NEW S \in SUBSET Waits, tp_waitqueue_unlock(S)
  PROVE  WaitPart
<1>1. WaitInv
  BY DEF BaseInv
<1>2. /\ HeldKept /\ \A x \in S : wait'[x].bucket = NoBucket
      /\ \A x \in Waits \ S : wait'[x] = wait[x]
  BY <1>1, UnlockEffect
<1>3. WaitLink
  BY <1>2, HeldLink DEF WaitLink
<1> QED
  BY <1>3 DEF WaitPart, WaitStep

(* A wait is set. *)
LEMMA WaitSetPart ==
  ASSUME BaseInv, NEW o \in Waits, NEW h \in Handles \cup {NoBucket}, NEW delay \in Nat,
         TpSetWaitEx(o, h, delay)
  PROVE  WaitPart
<1>1. WaitInv
  BY DEF BaseInv
<1>2. WaitLink
  BY <1>1, SetWaitEffect, KeptLink
<1> QED
  BY <1>2 DEF WaitPart, WaitStep

(* An event of the program is set. *)
LEMMA WaitEventPart ==
  ASSUME BaseInv, NEW h \in Handles, SetEvent(h)
  PROVE  WaitPart
<1>1. HeldKept /\ QueuedKept
  BY DEF SetEvent, HeldKept, QueuedKept
<1> QED
  BY <1>1, KeptLink DEF WaitPart, WaitStep

(* A wait times out or fires, or the thread of a bucket takes a step alone. *)
LEMMA WaitThreadPart ==
  ASSUME BaseInv, NEW b \in Buckets, WaitThreadStep(b) \/ WaitElapses(b) \/ WaitFires(b)
  PROVE  WaitPart
<1>1. WaitInv
  BY DEF BaseInv
<1>2. HeldKept /\ QueuedKept
  BY <1>1, ThreadStepEffect, ElapsesEffect
<1> QED
  BY <1>2, KeptLink DEF WaitPart, WaitStep

(* A wait thread blocks. *)
LEMMA WaitBlocksPart ==
  ASSUME BaseInv, NEW b \in Buckets, WaitThreadBlocks(b)
  PROVE  WaitPart
<1>0. WaitInv
  BY DEF BaseInv
<1>1. /\ wait' = wait /\ bucket[b].held = <<>>
      /\ \A x \in Buckets \ {b} : bucket'[x].held = bucket[x].held
      /\ Len(bucket'[b].held) = Len(bucket[b].waiting)
      /\ \A i \in 1..Len(bucket[b].waiting) : bucket'[b].held[i].obj = bucket[b].waiting[i]
  BY <1>0, BlocksEffect
<1>2. ASSUME NEW o \in Waits, wait[o].bucket = NoBucket, NotHeld(o),
             NEW x \in Buckets, NEW i \in 1..Len(bucket'[x].held)
      PROVE  bucket'[x].held[i].obj # o
  <2>1. CASE x # b
    BY <1>1, <1>2, <2>1 DEF NotHeld
  <2>2. CASE x = b
    <3>1. i \in 1..Len(bucket[b].waiting) /\ bucket'[b].held[i].obj = bucket[b].waiting[i]
      BY <1>1, <2>2
    <3>2. bucket[b].waiting[i] \in Rng(bucket[b].waiting)
      BY <3>1 DEF Rng
    <3>3. o \notin Rng(bucket[b].waiting)
      <4>1. ListPart(b, bucket[b], wait)
        BY <1>0, BucketFacts
      <4>2. b # NoBucket
        BY WaitConstants
      <4> QED
        BY <1>2, <4>1, <4>2 DEF ListPart
    <3> QED
      BY <2>2, <3>1, <3>2, <3>3
  <2> QED
    BY <2>1, <2>2
<1>3. WaitLink
  BY <1>1, <1>2 DEF WaitLink, NotHeld
<1> QED
  BY <1>3 DEF WaitPart, WaitStep

(* A list without its last entry. *)
LEMMA ButLastIs ==
  ASSUME NEW S, NEW s \in Seq(S), s # <<>>
  PROVE  LET h == SubSeq(s, 1, Len(s) - 1) IN
         /\ h \in Seq(S) /\ Len(s) \in Nat \ {0} /\ Len(h) = Len(s) - 1
         /\ \A i \in 1..(Len(s) - 1) : h[i] = s[i]
<1>1. Len(s) \in Nat /\ Len(s) > 0
  BY EmptySeq, LenProperties
<1>2. PICK n \in Nat : n = Len(s) - 1
  BY <1>1
<1>3. 1 \in 1..(Len(s) + 1) /\ n \in 1-1..Len(s)
  BY <1>1, <1>2
<1>4. s \in Seq(S)
  OBVIOUS
<1>5. SubSeq(s, 1, n) \in Seq(S)
  BY <1>3, <1>4, <1>1, <1>2, SubSeqProperties
<1>6. Len(SubSeq(s, 1, n)) = n
  BY <1>3, <1>4, <1>1, <1>2, SubSeqProperties
<1>7. \A i \in 1..n : SubSeq(s, 1, n)[i] = s[i]
  BY <1>3, <1>4, <1>1, <1>2, <1>6, SubSeqProperties
<1> QED
  BY <1>1, <1>2, <1>5, <1>6, <1>7

(* A wait thread lets the last object go that it holds. *)
LEMMA WaitDropsPart ==
  ASSUME BaseInv, NEW b \in Buckets, WaitThreadDrops(b)
  PROVE  WaitPart
<1>0. WaitInv
  BY DEF BaseInv
<1>1. /\ wait' = wait /\ bucket[b].held # <<>>
      /\ \A x \in Buckets \ {b} : bucket'[x].held = bucket[x].held
      /\ bucket'[b].held = SubSeq(bucket[b].held, 1, Len(bucket[b].held) - 1)
  BY <1>0, DropsEffect
<1>2. bucket[b].held \in Seq(HeldRecord)
  BY <1>0 DEF WaitInv, BucketRec
<1>3. /\ Len(bucket'[b].held) = Len(bucket[b].held) - 1 /\ Len(bucket[b].held) \in Nat
      /\ \A i \in 1..(Len(bucket[b].held) - 1) : bucket'[b].held[i] = bucket[b].held[i]
  BY <1>1, <1>2, ButLastIs
<1>4. ASSUME NEW o \in Waits, NotHeld(o), NEW x \in Buckets, NEW i \in 1..Len(bucket'[x].held)
      PROVE  bucket'[x].held[i].obj # o
  <2>1. CASE x # b
    BY <1>1, <1>4, <2>1 DEF NotHeld
  <2>2. CASE x = b
    <3>1. i \in 1..(Len(bucket[b].held) - 1) /\ i \in 1..Len(bucket[b].held)
      BY <1>3, <2>2
    <3> QED
      BY <1>3, <1>4, <2>2, <3>1 DEF NotHeld
  <2> QED
    BY <2>1, <2>2
<1>5. WaitLink
  BY <1>1, <1>4 DEF WaitLink, NotHeld
<1> QED
  BY <1>5 DEF WaitPart, WaitStep

(* The steps of the pool alone. *)
LEMMA PoolOnly ==
  ASSUME BaseInv, Shape', ObjKept, UNCHANGED <<queueVars, now>>
  PROVE  StepOK
<1>1. UNCHANGED timerVars /\ UNCHANGED waitVars /\ now' \in {now, now + 1}
  BY DEF queueVars
<1> QED
  BY <1>1, TimersAlone, WaitsAlone DEF StepOK

(* The steps of a worker. *)
LEMMA WorkerMovesOK ==
  ASSUME BaseInv, NEW w \in Workers, WorkerMoves(w)
  PROVE  StepOK
<1>1. Shape
  BY DEF BaseInv
<1>2. WorkerStep(w) /\ UNCHANGED <<queueVars, now>>
  BY DEF WorkerMoves, InPool
<1>3. Shape' /\ ObjKept
  BY <1>1, <1>2, WorkerTakeShape, WorkerReturnShape, WorkerDestroyShape, WorkerCheckShape,
     WorkerRestShape DEF WorkerStep
<1> QED
  BY <1>2, <1>3, PoolOnly

(* The steps of a caller inside a call. *)
LEMMA CallerMovesOK ==
  ASSUME BaseInv, NEW t \in Callers, CallerMoves(t)
  PROVE  StepOK
<1>1. Shape
  BY DEF BaseInv
<1>2. CallerStep(t) /\ UNCHANGED <<queueVars, now>>
  BY DEF CallerMoves, InPool
<1>3. Shape' /\ ObjKept
  BY <1>1, <1>2, CallerSubmitShape, SimpleJoinShape, SimpleReleaseShape, CallerDestroyShape,
     ObjectWaitShape, GroupCancelShape, GroupWaitShape, GroupDropShape DEF CallerStep
<1> QED
  BY <1>2, <1>3, PoolOnly

(* The objects of S leave their queues. *)
LEMMA ShutdownPart ==
  ASSUME BaseInv, NEW S, tp_object_prepare_shutdown(S), now' = now
  PROVE  TimerPart /\ WaitPart
<1>1. tp_timerqueue_unlock(S \cap Timers) /\ tp_waitqueue_unlock(S \cap Waits)
  BY DEF tp_object_prepare_shutdown
<1>2. S \cap Timers \in SUBSET Timers /\ S \cap Waits \in SUBSET Waits
  OBVIOUS
<1> QED
  BY <1>1, <1>2, TimerUnlockPart, WaitUnlockPart

(* The calls of a callback. *)
LEMMA CallbackCallsOK ==
  ASSUME BaseInv, NEW w \in Workers, CallbackCalls(w)
  PROVE  StepOK
<1>1. Shape
  BY DEF BaseInv
<1>2. CASE InPool(TpDisassociateCallback(w))
  BY <1>1, <1>2, DisassociateShape, PoolOnly DEF InPool
<1>3. CASE InPool(TpCallbackMayRunLong(w))
  BY <1>1, <1>3, MayRunLongShape, PoolOnly DEF InPool
<1>4. CASE InPool(CallbackPosts(w))
  BY <1>1, <1>4, CallbackPostsShape, PoolOnly DEF InPool
<1>5. CASE CallbackReleasesObject(w) /\ UNCHANGED <<now, sets>>
  <2>1. CallbackReleases(w) /\ tp_object_prepare_shutdown({worker[w].obj}) /\ now' = now
    BY <1>5 DEF CallbackReleasesObject
  <2> QED
    BY <1>1, <2>1, CallbackReleasesShape, ShutdownPart DEF StepOK
<1>6. ASSUME NEW at \in Timeouts, CallbackSetsTimer(w, at)
      PROVE  StepOK
  <2>1. /\ InCallback(w) /\ Type[worker[w].obj] = "timer" /\ TpSetTimerEx(worker[w].obj, at, 0, 0)
        /\ UNCHANGED <<poolVars, waitVars, now>>
    BY <1>6 DEF CallbackSetsTimer
  <2>2. worker[w].obj \in Objects
    BY <1>1, <2>1 DEF Shape, WorkerSet, InCallback
  <2>3. worker[w].obj \in Timers
    BY <2>1, <2>2, KindsOfObjects
  <2>4. TimerPart
    BY <2>1, <2>3, UsedWindowsNat, TimerSetPart
  <2>5. Shape' /\ ObjKept
    BY <1>1, <2>1, ShapeStays DEF poolVars, Shape
  <2> QED
    BY <2>1, <2>4, <2>5, WaitsAlone DEF StepOK
<1> QED
  BY <1>2, <1>3, <1>4, <1>5, <1>6 DEF CallbackCalls

(* The allocations. *)
LEMMA AllocOK ==
  ASSUME BaseInv, NEW t \in Callers, NEW o \in Objects, NEW grp \in BOOLEAN, now' = now,
         \/ TpAllocWork(t, o, grp) \/ TpAllocTimer(t, o, grp) \/ TpAllocWait(t, o, grp)
         \/ TpAllocIoCompletion(t, o)
  PROVE  StepOK
<1>1. \/ TpAlloc(t, o, grp)
      \/ TpAlloc(t, o, FALSE)
  BY DEF TpAllocWork, TpAllocTimer, TpAllocWait, TpAllocIoCompletion
<1>2. Shape' /\ ObjKept /\ obj'[o].life # "none" /\ obj[o].life = "none"
  <2>1. obj[o].life = "none"
    BY <1>1 DEF TpAlloc
  <2> QED
    BY <1>1, <2>1, AllocShape DEF BaseInv
<1>3. CASE TpAllocWork(t, o, grp) \/ TpAllocIoCompletion(t, o)
  <2>1. UNCHANGED timerVars /\ UNCHANGED waitVars
    BY <1>3 DEF TpAllocWork, TpAllocIoCompletion, queueVars
  <2> QED
    BY <1>2, <2>1, TimersAlone, WaitsAlone DEF StepOK
<1>4. CASE TpAllocTimer(t, o, grp)
  <2>1. o \in Timers /\ tp_timerqueue_lock(o) /\ UNCHANGED waitVars
    BY <1>4, KindsOfObjects DEF TpAllocTimer
  <2> QED
    BY <1>2, <2>1, TimerLockPart, WaitsAlone DEF StepOK
<1>5. CASE TpAllocWait(t, o, grp)
  <2>1. o \in Waits /\ tp_waitqueue_lock(o) /\ UNCHANGED timerVars
    BY <1>5, KindsOfObjects DEF TpAllocWait
  <2> QED
    BY <1>2, <2>1, WaitLockPart, TimersAlone DEF StepOK
<1> QED
  BY <1>3, <1>4, <1>5

(* The I/O queue does not touch the others. *)
LEMMA InIoOK ==
  ASSUME BaseInv, Shape', ObjKept, UNCHANGED <<timerVars, waitVars, now, sets>>
  PROVE  StepOK
  BY TimersAlone, WaitsAlone DEF StepOK

(* The calls on an object. *)
LEMMA ObjectCallsOK ==
  ASSUME BaseInv, NEW t \in Callers, NEW o \in Objects, ObjectCalls(t, o)
  PROVE  StepOK
<1>0. Shape
  BY DEF BaseInv
<1> DEFINE grp == o \in program.grouped
<1>1. grp \in BOOLEAN
  OBVIOUS
<1> HIDE DEF grp
<1>2. CASE /\ \/ TpAllocWork(t, o, grp) \/ TpAllocTimer(t, o, grp) \/ TpAllocWait(t, o, grp)
              \/ TpAllocIoCompletion(t, o)
           /\ UNCHANGED <<now, sets>>
  BY <1>1, <1>2, AllocOK
<1>3. CASE InPool(TpSimpleTryPost(t, o, grp))
  BY <1>0, <1>1, <1>3, SimplePostShape, PoolOnly DEF InPool
<1>4. CASE InPool(TpPostWork(t, o))
  BY <1>0, <1>4, PostWorkShape, PoolOnly DEF InPool
<1>5. CASE InPool(TpWaitFor(t, o, FALSE)) \/ InPool(TpWaitFor(t, o, TRUE))
  BY <1>0, <1>5, WaitForShape, PoolOnly DEF InPool
<1>6. CASE TpReleaseObject(t, o) /\ UNCHANGED <<now, sets>>
  <2>1. TpRelease(t, o) /\ tp_object_prepare_shutdown({o}) /\ now' = now
    BY <1>6 DEF TpReleaseObject
  <2> QED
    BY <1>0, <2>1, ReleaseShape, ShutdownPart DEF StepOK
<1>7. ASSUME o \in Timers, NEW at \in Timeouts, NEW p \in Periods, NEW n \in UsedWindows,
             TpSetTimer(t, o, at, p, n)
      PROVE  StepOK
  <2>1. /\ TpSetTimerEx(o, at, p, n) /\ UNCHANGED <<pool, pools, obj, group, worker, waitVars, now>>
        /\ caller' = IF at[1] # "zero" THEN caller
                     ELSE [caller EXCEPT ![t] = [Idle EXCEPT !.pc = "submit", !.obj = o]]
    BY <1>7 DEF TpSetTimer
  <2>2. p \in Nat
    BY CallsOfPrograms
  <2>3. TimerPart
    BY <1>7, <2>1, <2>2, TimerSetPart
  <2>4. caller' \in [Callers -> CallerSet]
    <3>1. [Idle EXCEPT !.pc = "submit", !.obj = o] \in CallerSet
      BY CallerAt
    <3> QED
      BY <1>0, <2>1, <3>1 DEF Shape
  <2>5. Shape' /\ ObjKept
    BY <1>0, <2>1, <2>4, ShapeStays DEF Shape
  <2> QED
    BY <2>1, <2>3, <2>5, WaitsAlone DEF StepOK
<1>8. ASSUME o \in Waits, NEW h \in Handles \cup {NoBucket}, NEW d \in Nat, TpSetWait(t, o, h, d)
      PROVE  StepOK
  <2>1. TpSetWaitEx(o, h, d) /\ UNCHANGED <<poolVars, timerVars, now>>
    BY <1>8 DEF TpSetWait
  <2>2. Shape' /\ ObjKept
    BY <1>0, <2>1, ShapeStays DEF poolVars, Shape
  <2> QED
    BY <1>8, <2>1, <2>2, WaitSetPart, TimersAlone DEF StepOK
<1>9. CASE InIo(\/ TpStartAsyncIoOperation(t, o)
                \/ Can("cancelio") /\ TpCancelAsyncIoOperation(t, o)
                \/ Can("release") /\ TpReleaseIoCompletion(t, o))
  <2>1. Shape' /\ ObjKept
    BY <1>0, <1>9, IoStartShape, IoCancelShape, IoReleaseShape DEF InIo
  <2> QED
    BY <1>9, <2>1, InIoOK DEF InIo
<1>10. Never \in Nat /\ Delays \subseteq Nat
  BY TimeIsBounded, CallsOfPrograms DEF Never
<1> QED
  BY <1>2, <1>3, <1>4, <1>5, <1>6, <1>7, <1>8, <1>9, <1>10 DEF ObjectCalls, grp

(* The calls on pool and group. *)
LEMMA PoolCallsOK ==
  ASSUME BaseInv, NEW t \in Callers, PoolCalls(t)
  PROVE  StepOK
<1>0. Shape
  BY DEF BaseInv
<1>1. CASE InPool(TpAllocFails(t))
  BY <1>0, <1>1, AllocFailsShape, PoolOnly DEF InPool
<1>2. CASE InPool(TpReleasePool(t))
  BY <1>0, <1>2, ReleasePoolShape, PoolOnly DEF InPool
<1>3. ASSUME NEW n \in Limits, InPool(TpSetPoolMaxThreads(t, n) \/ TpSetPoolMinThreads(t, n))
      PROVE  StepOK
  <2>1. n \in Nat
    BY CallsOfPrograms
  <2> QED
    BY <1>0, <1>3, <2>1, MaxThreadsShape, MinThreadsShape, PoolOnly DEF InPool
<1>4. CASE InPool(TpReleaseCleanupGroup(t))
  BY <1>0, <1>4, ReleaseGroupShape, PoolOnly DEF InPool
<1>5. ASSUME NEW c \in BOOLEAN, ReleaseGroupMembers(t, c), now' = now
      PROVE  StepOK
  <2>1. TpReleaseCleanupGroupMembers(t, c) /\ tp_object_prepare_shutdown(MarkedSet)
    BY <1>5 DEF ReleaseGroupMembers
  <2> QED
    BY <1>0, <1>5, <2>1, GroupMembersShape, ShutdownPart DEF StepOK
<1> QED
  BY <1>1, <1>2, <1>3, <1>4, <1>5 DEF PoolCalls

(* The steps of the service threads and of the clock. *)
LEMMA ServiceOK ==
  ASSUME BaseInv, ServiceMoves
  PROVE  StepOK
<1>0. Shape /\ WaitInv /\ now \in Nat /\ TimerInv
  BY DEF BaseInv, TimerInv
<1>1. CASE TimerExpires
  <2>1. /\ submit_expired_timers(obj[ExpiredTimer].shutdown) /\ now' = now /\ UNCHANGED waitVars
        /\ tp_object_submit(ExpiredTimer, obj[ExpiredTimer], pool) /\ group' = group /\ caller' = caller
    BY <1>1 DEF TimerExpires
  <2>2. ExpiredTimer \in Timers
    <3>1. AnyExpired
      BY <2>1 DEF submit_expired_timers
    <3> QED
      BY <1>0, <3>1, ExpiredIs
  <2>3. ExpiredTimer \in Objects
    BY <2>2, TimersFinite
  <2>4. obj[ExpiredTimer].shutdown \in BOOLEAN
    BY <1>0, <2>3 DEF Shape, ObjRec
  <2>5. TimerPart
    BY <2>1, <2>4, TimerExpiryPart
  <2>6. Shape' /\ ObjKept
    BY <1>0, <2>1, <2>3, ServiceSubmitShape
  <2> QED
    BY <2>1, <2>5, <2>6, WaitsAlone DEF StepOK
<1>2. CASE /\ TimerThreadWaits \/ TimerThreadWakes \/ TimerThreadEnters
           /\ UNCHANGED <<poolVars, waitVars, ioVars, now, sets>>
  <2>1. Shape' /\ ObjKept
    BY <1>0, <1>2, ShapeStays DEF poolVars, Shape
  <2> QED
    BY <1>2, <2>1, TimerThreadPart, WaitsAlone DEF StepOK
<1>3. CASE IoThread
  <2>1. Shape' /\ ObjKept
    <3>1. CASE UNCHANGED poolVars
      BY <1>0, <3>1, ShapeStays DEF poolVars, Shape
    <3>2. ASSUME NEW o \in Ios, \/ IoSkips(o) \/ IoReleases(o) \/ IoDestroys(o) \/ IoSubmits(o)
                                \/ IoSubmitsAgain(o) \/ IoLacksMemory(o)
          PROVE  Shape' /\ ObjKept
      <4>1. o \in Objects
        BY KindsOfObjects
      <4> QED
        BY <1>0, <3>2, <4>1, IoThreadShape
    <3> QED
      BY <1>3, <3>1, <3>2 DEF IoThread, InIo
  <2> QED
    BY <1>3, <2>1, InIoOK DEF IoThread, InIo
<1>4. CASE Tick
  <2>1. UNCHANGED poolVars /\ UNCHANGED timerVars /\ UNCHANGED waitVars /\ now' = now + 1
    BY <1>4 DEF Tick, queueVars
  <2>2. Shape' /\ ObjKept
    BY <1>0, <2>1, ShapeStays DEF poolVars, Shape
  <2> QED
    BY <2>1, <2>2, TimersAlone, WaitsAlone DEF StepOK
<1>5. ASSUME NEW b \in Buckets, WaitThread(b)
      PROVE  StepOK
  <2>0. UNCHANGED timerVars /\ now' = now
    BY <1>5 DEF WaitThread
  <2>1. CASE SubmitElapsed(b)
    <3>1. /\ WaitElapses(b) /\ tp_object_submit(ElapsedWait(b), obj[ElapsedWait(b)], pool)
          /\ group' = group /\ caller' = caller
      BY <2>1 DEF SubmitElapsed
    <3>2. ElapsedWait(b) \in Objects
      BY <1>0, <3>1, ElapsesKeeps, WaitsFinite
    <3>3. Shape' /\ ObjKept
      BY <1>0, <3>1, <3>2, ServiceSubmitShape
    <3> QED
      BY <2>0, <3>1, <3>3, WaitThreadPart, TimersAlone DEF StepOK
  <2>2. CASE SubmitSignaled(b)
    <3>1. Shape' /\ ObjKept /\ WaitFires(b)
      BY <1>0, <2>2, SubmitSignaledShape DEF SubmitSignaled
    <3> QED
      BY <2>0, <3>1, WaitThreadPart, TimersAlone DEF StepOK
  <2>3. CASE HoldObjects(b)
    <3>1. Shape' /\ ObjKept /\ WaitThreadBlocks(b)
      BY <1>0, <2>3, HoldObjectsShape DEF HoldObjects
    <3> QED
      BY <2>0, <3>1, WaitBlocksPart, TimersAlone DEF StepOK
  <2>4. CASE ReleaseHeld(b)
    <3>1. Shape' /\ ObjKept
      BY <1>0, <2>4, ReleaseHeldShape
    <3>2. WaitThreadDrops(b) \/ UNCHANGED waitVars
      BY <2>4 DEF ReleaseHeld
    <3>3. WaitPart
      BY <3>2, WaitDropsPart, WaitsAlone
    <3> QED
      BY <2>0, <3>1, <3>3, TimersAlone DEF StepOK
  <2>5. CASE WaitThreadStep(b) /\ UNCHANGED poolVars
    <3>1. Shape' /\ ObjKept
      BY <1>0, <2>5, ShapeStays DEF poolVars, Shape
    <3> QED
      BY <2>0, <2>5, <3>1, WaitThreadPart, TimersAlone DEF StepOK
  <2> QED
    BY <1>5, <2>1, <2>2, <2>3, <2>4, <2>5 DEF WaitThread
<1>6. ASSUME NEW o \in Ios, IoCompletes(o)
      PROVE  StepOK
  <2>1. UNCHANGED poolVars /\ UNCHANGED <<timerVars, waitVars, now, sets>>
    BY <1>6 DEF IoCompletes, InIo
  <2>2. Shape' /\ ObjKept
    BY <1>0, <2>1, ShapeStays DEF poolVars, Shape
  <2> QED
    BY <2>1, <2>2, InIoOK
<1> QED
  BY <1>1, <1>2, <1>3, <1>4, <1>5, <1>6 DEF ServiceMoves, TimerThread

(* Every step of the pool is such a step. *)
LEMMA NextOK ==
  ASSUME BaseInv, program \in Programs, [Next]_vars
  PROVE  StepOK /\ BaseInv' /\ program' = program
<1>0. Shape
  BY DEF BaseInv
<1>1. program' = program
  BY DEF Next, vars
<1>2. CASE UNCHANGED vars
  <2>1. UNCHANGED poolVars /\ UNCHANGED queueVars /\ now' = now
    BY <1>2 DEF vars
  <2>2. Shape' /\ ObjKept
    BY <1>0, <2>1, ShapeStays DEF poolVars, Shape
  <2> QED
    BY <1>1, <2>1, <2>2, PoolOnly, BaseStep
<1>3. CASE Next
  <2>1. program.callers \subseteq Callers /\ program.objects \subseteq Objects
    BY CallsOfPrograms
  <2>2. ASSUME NEW h \in Handles, Signal(h)
        PROVE  StepOK
    <3>1. SetEvent(h) /\ UNCHANGED <<poolVars, timerVars, now>>
      BY <2>2 DEF Signal
    <3>2. Shape' /\ ObjKept
      BY <1>0, <3>1, ShapeStays DEF poolVars, Shape
    <3> QED
      BY <3>1, <3>2, WaitEventPart, TimersAlone DEF StepOK
  <2>3. StepOK
    BY <1>3, <2>1, <2>2, WorkerMovesOK, CallbackCallsOK, CallerMovesOK, PoolCallsOK, ObjectCallsOK,
       ServiceOK DEF Next
  <2> QED
    BY <1>1, <2>3, BaseStep
<1> QED
  BY <1>2, <1>3

(* The start. *)
LEMMA BaseInit == Init => BaseInv /\ program \in Programs
<1> SUFFICES ASSUME Init PROVE BaseInv /\ program \in Programs
  OBVIOUS
<1>1. PoolInit /\ TimerInit /\ WaitInit /\ now = 0 /\ program \in Programs
  BY DEF Init
<1>2. TimerInv /\ WaitInv
  BY <1>1, TimerInitInv, WaitInitInv
<1>3. Shape
  <2>1. pools \in PoolLists
    <3>1. \A p \in 1..3 : <<>> \in Seq(OfPriority(p)) /\ <<>> \in Seq(Objects)
      OBVIOUS
    <3> QED
      BY <1>1, <3>1 DEF PoolInit, PoolLists
  <2>2. pool \in PoolRec
    <3>1. PICK n \in 0..MaxLate, k \in 1..MaxWorkers :
            pool = [tp_threadpool_alloc EXCEPT !.late = n, !.max_workers = k]
      BY <1>1 DEF PoolInit
    <3>2. 0 \in 0..MaxLate /\ k \in Nat \ {0} /\ MaxWorkers \in Nat \ {0}
      BY PoolConstants
    <3>3. tp_threadpool_alloc \in PoolRec
      BY <3>2 DEF tp_threadpool_alloc, PoolRec
    <3> QED
      BY <3>1, <3>2, <3>3 DEF PoolRec
  <2>3. group \in GroupRec
    <3>1. <<>> \in Seq(Objects)
      OBVIOUS
    <3>2. PICK s \in Seq(Objects) : s = <<>>
      BY ONLY <3>1
    <3>3. group = [life |-> "live", refcount |-> 1, shutdown |-> FALSE, members |-> s]
      BY <1>1, <3>2 DEF PoolInit, tp_group_alloc
    <3> QED
      BY <3>3 DEF GroupRec
  <2> QED
    BY <1>1, <2>1, <2>2, <2>3, FreshRecords DEF PoolInit, Shape
<1>4. QueueLinks
  BY <1>1 DEF TimerInit, WaitInit, NoTimer, NoWait, NewBucket, QueueLinks, NotHeld
<1> QED
  BY <1>1, <1>2, <1>3, <1>4 DEF BaseInv

(* It holds throughout. *)
LEMMA BaseAlways == Spec => [](BaseInv /\ program \in Programs)
<1>1. Init => BaseInv /\ program \in Programs
  BY BaseInit
<1>2. (BaseInv /\ program \in Programs) /\ [Next]_vars => (BaseInv /\ program \in Programs)'
  BY NextOK
<1> QED
  BY <1>1, <1>2, PTL DEF Spec

(* The timer lists are sorted and hold every pending timer once, and the    *)
(* timer thread oversleeps none and is there as long as there are timer     *)
(* objects, whatever is set, expires or is released.                        *)
THEOREM TimersAreNotMissed == Spec => []NoTimerMissed
<1>1. BaseInv => NoTimerMissed
  BY TimerInvGives DEF BaseInv
<1> QED
  BY <1>1, BaseAlways, PTL

(* Wait objects, buckets and the handles that bucket threads block on agree.*)
THEOREM WaitQueueIsSound == Spec => [](WaitTypeOK /\ WaitQueueSound)
<1>1. BaseInv => WaitTypeOK /\ WaitQueueSound
  BY WaitInvGives DEF BaseInv
<1> QED
  BY <1>1, BaseAlways, PTL

-----------------------------------------------------------------------------
(* Counting: how many places of f have a value in A. *)

Cnt(f, A) == Cardinality({x \in DOMAIN f : f[x] \in A})

(* Two finite sets that differ at most in x. *)
LEMMA SetStep ==
  ASSUME NEW S, NEW T, NEW x, IsFiniteSet(S), S \ {x} = T \ {x}
  PROVE  /\ IsFiniteSet(T) /\ Cardinality(S) \in Nat /\ Cardinality(T) \in Nat
         /\ Cardinality(T) = Cardinality(S) + One(x \in T) - One(x \in S)
<1> DEFINE R == S \ {x}
<1>1. IsFiniteSet(R) /\ Cardinality(R) \in Nat /\ x \notin R
  BY FS_Subset, FS_CardinalityType
<1>2. IsFiniteSet(R \cup {x}) /\ Cardinality(R \cup {x}) = Cardinality(R) + 1
  BY <1>1, FS_AddElement
<1>3. S = (IF x \in S THEN R \cup {x} ELSE R) /\ T = (IF x \in T THEN R \cup {x} ELSE R)
  OBVIOUS
<1> HIDE DEF R
<1>4. /\ IsFiniteSet(S) /\ Cardinality(S) = Cardinality(R) + One(x \in S)
  BY <1>1, <1>2, <1>3 DEF One
<1>5. /\ IsFiniteSet(T) /\ Cardinality(T) = Cardinality(R) + One(x \in T)
  BY <1>1, <1>2, <1>3 DEF One
<1>6. One(x \in S) \in {0, 1} /\ One(x \in T) \in {0, 1}
  BY DEF One
<1> QED
  BY <1>1, <1>4, <1>5, <1>6

(* One place of a function changes; the others may change within A and     *)
(* outside of it.                                                           *)
LEMMA CntStep ==
  ASSUME NEW D, IsFiniteSet(D), NEW f, NEW g, DOMAIN f = D, DOMAIN g = D, NEW A, NEW d \in D,
         \A x \in D \ {d} : f[x] \in A <=> g[x] \in A
  PROVE  /\ Cnt(f, A) \in Nat /\ Cnt(g, A) \in Nat
         /\ Cnt(g, A) = Cnt(f, A) + One(g[d] \in A) - One(f[d] \in A)
<1> DEFINE S == {x \in D : f[x] \in A}
           T == {x \in D : g[x] \in A}
<1>1. IsFiniteSet(S) /\ S \ {d} = T \ {d}
  BY FS_Subset
<1>2. /\ Cardinality(S) \in Nat /\ Cardinality(T) \in Nat
      /\ Cardinality(T) = Cardinality(S) + One(d \in T) - One(d \in S)
  BY <1>1, SetStep
<1>3. (d \in T) = (g[d] \in A) /\ (d \in S) = (f[d] \in A)
  OBVIOUS
<1>4. Cnt(f, A) = Cardinality(S) /\ Cnt(g, A) = Cardinality(T)
  BY DEF Cnt
<1> HIDE DEF S, T
<1> QED
  BY <1>2, <1>3, <1>4

(* No place of a function enters or leaves A. *)
LEMMA CntSame ==
  ASSUME NEW D, NEW f, NEW g, DOMAIN f = D, DOMAIN g = D, NEW A,
         \A x \in D : f[x] \in A <=> g[x] \in A
  PROVE  Cnt(g, A) = Cnt(f, A)
<1>1. {x \in D : f[x] \in A} = {x \in D : g[x] \in A}
  OBVIOUS
<1> QED
  BY <1>1 DEF Cnt

(* A count is positive when some place is in A, and zero when none is. *)
LEMMA CntSome ==
  ASSUME NEW D, IsFiniteSet(D), NEW f, DOMAIN f = D, NEW A
  PROVE  /\ Cnt(f, A) \in Nat
         /\ Cnt(f, A) = 0 <=> \A x \in D : f[x] \notin A
<1> DEFINE S == {x \in D : f[x] \in A}
<1>1. IsFiniteSet(S) /\ Cardinality(S) \in Nat
  BY FS_Subset, FS_CardinalityType
<1>2. Cardinality(S) = 0 <=> S = {}
  BY <1>1, FS_EmptySet
<1>3. Cnt(f, A) = Cardinality(S)
  BY DEF Cnt
<1> QED
  BY <1>1, <1>2, <1>3

-----------------------------------------------------------------------------
(* The numbers that the reference count of an object is made of, and the    *)
(* other places where an object is in use.                                  *)

RunsOf(o) == {r \in WorkerSet : r.pc = "callback" /\ r.obj = o}
LinksOf(o) == {r \in WorkerSet : r.pc = "callback" /\ r.obj = o /\ r.associated = TRUE}
EndsOf(o) == {r \in WorkerSet : r.pc = "destroy" /\ r.obj = o}

WNum == {n \in [run : Nat, linked : Nat, ends : Nat] : n.linked <= n.run}
WN(o) == [run |-> Cnt(worker, RunsOf(o)), linked |-> Cnt(worker, LinksOf(o)),
          ends |-> Cnt(worker, EndsOf(o))]

CallsAt(o, pcs) == {c \in CallerSet : c.pc \in pcs /\ c.obj = o}
Keepers(o) == {c \in CallerSet : o \in Rng(c.list)}

CNum == [sub : Nat, join : Nat, rel : Nat, wait : Nat, ends : Nat, keep : Nat]
CN(o) == [sub |-> Cnt(caller, CallsAt(o, {"submit"})), join |-> Cnt(caller, CallsAt(o, {"join"})),
          rel |-> Cnt(caller, CallsAt(o, {"release"})),
          wait |-> Cnt(caller, CallsAt(o, {"wait", "sleep"})),
          ends |-> Cnt(caller, CallsAt(o, {"destroy"})), keep |-> Cnt(caller, Keepers(o))]

(* A worker, or a caller, that has o in hand. *)
Handles1(r, o) == r.pc \in {"callback", "destroy"} /\ r.obj = o
InHand(c, o) ==
    \/ c.pc \in {"submit", "join", "release", "wait", "sleep", "destroy"} /\ c.obj = o
    \/ o \in Rng(c.list)

(* Changes of a worker, and of a caller, that the numbers do not see. *)
SameWork(r, s) ==
    r.pc \in {"callback", "destroy"} \/ s.pc \in {"callback", "destroy"} =>
      s.pc = r.pc /\ s.obj = r.obj /\ s.associated = r.associated
SameCall(c, d) ==
    /\ d.obj = c.obj /\ d.list = c.list
    /\ \/ d.pc = c.pc
       \/ {c.pc, d.pc} \subseteq {"wait", "sleep"}
       \/ {c.pc, d.pc} \subseteq {"idle", "gcancel", "gwait", "gsleep", "gdrop"}

(* The numbers of workers stay. *)
LEMMA WorkSame ==
  ASSUME Shape, Shape', \A x \in Workers : SameWork(worker[x], worker'[x]), NEW o
  PROVE  WN(o)' = WN(o)
<1>1. DOMAIN worker = Workers /\ DOMAIN worker' = Workers
  BY DEF Shape
<1>2. \A x \in Workers : worker[x] \in WorkerSet /\ worker'[x] \in WorkerSet
  BY DEF Shape
<1>3. \A x \in Workers : /\ worker[x] \in RunsOf(o) <=> worker'[x] \in RunsOf(o)
                         /\ worker[x] \in LinksOf(o) <=> worker'[x] \in LinksOf(o)
                         /\ worker[x] \in EndsOf(o) <=> worker'[x] \in EndsOf(o)
  BY <1>2 DEF SameWork, RunsOf, LinksOf, EndsOf
<1>4. /\ Cnt(worker', RunsOf(o)) = Cnt(worker, RunsOf(o))
      /\ Cnt(worker', LinksOf(o)) = Cnt(worker, LinksOf(o))
      /\ Cnt(worker', EndsOf(o)) = Cnt(worker, EndsOf(o))
  BY <1>1, <1>3, CntSame
<1> QED
  BY <1>4 DEF WN

(* The numbers of workers are numbers: a callback that is associated runs.  *)
LEMMA WorkNums ==
  ASSUME NEW f \in [Workers -> WorkerSet], NEW o
  PROVE  /\ Cnt(f, RunsOf(o)) \in Nat /\ Cnt(f, LinksOf(o)) \in Nat /\ Cnt(f, EndsOf(o)) \in Nat
         /\ Cnt(f, LinksOf(o)) <= Cnt(f, RunsOf(o))
<1>1. DOMAIN f = Workers /\ IsFiniteSet(Workers)
  BY PoolConstants
<1>2. /\ Cnt(f, RunsOf(o)) \in Nat /\ Cnt(f, LinksOf(o)) \in Nat /\ Cnt(f, EndsOf(o)) \in Nat
  BY <1>1, CntSome
<1> DEFINE R == {x \in Workers : f[x] \in RunsOf(o)}
           L == {x \in Workers : f[x] \in LinksOf(o)}
<1>3. L \subseteq R
  BY DEF RunsOf, LinksOf
<1>4. IsFiniteSet(R)
  BY <1>1, FS_Subset
<1>5. Cardinality(L) <= Cardinality(R)
  BY <1>3, <1>4, FS_Subset
<1>6. Cnt(f, RunsOf(o)) = Cardinality(R) /\ Cnt(f, LinksOf(o)) = Cardinality(L)
  BY <1>1 DEF Cnt
<1> QED
  BY <1>2, <1>5, <1>6

(* The numbers of workers when w goes on. *)
WorkShift(o, r, s) ==
    /\ WN(o) \in WNum /\ WN(o)' \in WNum
    /\ WN(o)'.run = WN(o).run + One(s \in RunsOf(o)) - One(r \in RunsOf(o))
    /\ WN(o)'.linked = WN(o).linked + One(s \in LinksOf(o)) - One(r \in LinksOf(o))
    /\ WN(o)'.ends = WN(o).ends + One(s \in EndsOf(o)) - One(r \in EndsOf(o))

(* One worker changes: the numbers follow its old and its new record. *)
LEMMA WorkStep ==
  ASSUME Shape, Shape', NEW w \in Workers, NEW o,
         \A x \in Workers \ {w} : SameWork(worker[x], worker'[x])
  PROVE  WorkShift(o, worker[w], worker'[w])
<1>1. DOMAIN worker = Workers /\ DOMAIN worker' = Workers /\ IsFiniteSet(Workers)
  BY PoolConstants DEF Shape
<1>2. \A x \in Workers : worker[x] \in WorkerSet /\ worker'[x] \in WorkerSet
  BY DEF Shape
<1>3. \A x \in Workers \ {w} :
         /\ worker[x] \in RunsOf(o) <=> worker'[x] \in RunsOf(o)
         /\ worker[x] \in LinksOf(o) <=> worker'[x] \in LinksOf(o)
         /\ worker[x] \in EndsOf(o) <=> worker'[x] \in EndsOf(o)
  BY <1>2 DEF SameWork, RunsOf, LinksOf, EndsOf
<1>4. /\ Cnt(worker, RunsOf(o)) \in Nat /\ Cnt(worker', RunsOf(o)) \in Nat
      /\ Cnt(worker', RunsOf(o))
           = Cnt(worker, RunsOf(o)) + One(worker'[w] \in RunsOf(o)) - One(worker[w] \in RunsOf(o))
  BY <1>1, <1>3, CntStep
<1>5. /\ Cnt(worker, LinksOf(o)) \in Nat /\ Cnt(worker', LinksOf(o)) \in Nat
      /\ Cnt(worker', LinksOf(o))
           = Cnt(worker, LinksOf(o)) + One(worker'[w] \in LinksOf(o)) - One(worker[w] \in LinksOf(o))
  BY <1>1, <1>3, CntStep
<1>6. /\ Cnt(worker, EndsOf(o)) \in Nat /\ Cnt(worker', EndsOf(o)) \in Nat
      /\ Cnt(worker', EndsOf(o))
           = Cnt(worker, EndsOf(o)) + One(worker'[w] \in EndsOf(o)) - One(worker[w] \in EndsOf(o))
  BY <1>1, <1>3, CntStep
<1>7. /\ Cnt(worker, LinksOf(o)) <= Cnt(worker, RunsOf(o))
      /\ Cnt(worker', LinksOf(o)) <= Cnt(worker', RunsOf(o))
  BY WorkNums DEF Shape
<1>8. WN(o) \in WNum /\ WN(o)' \in WNum
  BY <1>4, <1>5, <1>6, <1>7 DEF WN, WNum
<1> QED
  BY <1>4, <1>5, <1>6, <1>8 DEF WorkShift, WN

(* The numbers of callers stay. *)
LEMMA CallSame ==
  ASSUME Shape, Shape', \A x \in Callers : SameCall(caller[x], caller'[x]), NEW o
  PROVE  CN(o)' = CN(o)
<1>1. DOMAIN caller = Callers /\ DOMAIN caller' = Callers
  BY DEF Shape
<1>2. \A x \in Callers : caller[x] \in CallerSet /\ caller'[x] \in CallerSet
  BY DEF Shape
<1>3. \A x \in Callers : /\ caller[x] \in CallsAt(o, {"submit"}) <=> caller'[x] \in CallsAt(o, {"submit"})
                         /\ caller[x] \in CallsAt(o, {"join"}) <=> caller'[x] \in CallsAt(o, {"join"})
                         /\ caller[x] \in CallsAt(o, {"release"}) <=> caller'[x] \in CallsAt(o, {"release"})
                         /\ caller[x] \in CallsAt(o, {"wait", "sleep"}) <=> caller'[x] \in CallsAt(o, {"wait", "sleep"})
                         /\ caller[x] \in CallsAt(o, {"destroy"}) <=> caller'[x] \in CallsAt(o, {"destroy"})
                         /\ caller[x] \in Keepers(o) <=> caller'[x] \in Keepers(o)
  BY <1>2 DEF SameCall, CallsAt, Keepers
<1>4. /\ Cnt(caller', CallsAt(o, {"submit"})) = Cnt(caller, CallsAt(o, {"submit"}))
      /\ Cnt(caller', CallsAt(o, {"join"})) = Cnt(caller, CallsAt(o, {"join"}))
      /\ Cnt(caller', CallsAt(o, {"release"})) = Cnt(caller, CallsAt(o, {"release"}))
      /\ Cnt(caller', CallsAt(o, {"wait", "sleep"})) = Cnt(caller, CallsAt(o, {"wait", "sleep"}))
      /\ Cnt(caller', CallsAt(o, {"destroy"})) = Cnt(caller, CallsAt(o, {"destroy"}))
      /\ Cnt(caller', Keepers(o)) = Cnt(caller, Keepers(o))
  BY <1>1, <1>3, CntSame
<1> QED
  BY <1>4 DEF CN

(* The numbers of callers when t goes on. *)
CallShift(o, c, d) ==
    /\ CN(o) \in CNum /\ CN(o)' \in CNum
    /\ CN(o)'.sub = CN(o).sub + One(d \in CallsAt(o, {"submit"})) - One(c \in CallsAt(o, {"submit"}))
    /\ CN(o)'.join = CN(o).join + One(d \in CallsAt(o, {"join"})) - One(c \in CallsAt(o, {"join"}))
    /\ CN(o)'.rel = CN(o).rel + One(d \in CallsAt(o, {"release"})) - One(c \in CallsAt(o, {"release"}))
    /\ CN(o)'.wait = CN(o).wait + One(d \in CallsAt(o, {"wait", "sleep"}))
                                - One(c \in CallsAt(o, {"wait", "sleep"}))
    /\ CN(o)'.ends = CN(o).ends + One(d \in CallsAt(o, {"destroy"})) - One(c \in CallsAt(o, {"destroy"}))
    /\ CN(o)'.keep = CN(o).keep + One(d \in Keepers(o)) - One(c \in Keepers(o))

(* One caller changes. *)
LEMMA CallStep ==
  ASSUME Shape, Shape', NEW t \in Callers, NEW o,
         \A x \in Callers \ {t} : SameCall(caller[x], caller'[x])
  PROVE  CallShift(o, caller[t], caller'[t])
<1>1. DOMAIN caller = Callers /\ DOMAIN caller' = Callers /\ IsFiniteSet(Callers)
  BY PoolConstants DEF Shape
<1>2. \A x \in Callers : caller[x] \in CallerSet /\ caller'[x] \in CallerSet
  BY DEF Shape
<1>3. ASSUME NEW P \in {{"submit"}, {"join"}, {"release"}, {"wait", "sleep"}, {"destroy"}}
      PROVE  /\ Cnt(caller, CallsAt(o, P)) \in Nat /\ Cnt(caller', CallsAt(o, P)) \in Nat
             /\ Cnt(caller', CallsAt(o, P)) = Cnt(caller, CallsAt(o, P))
                  + One(caller'[t] \in CallsAt(o, P)) - One(caller[t] \in CallsAt(o, P))
  <2>1. \A x \in Callers \ {t} : caller[x] \in CallsAt(o, P) <=> caller'[x] \in CallsAt(o, P)
    BY <1>2 DEF SameCall, CallsAt
  <2> QED
    BY <1>1, <2>1, CntStep
<1>4. /\ Cnt(caller, Keepers(o)) \in Nat /\ Cnt(caller', Keepers(o)) \in Nat
      /\ Cnt(caller', Keepers(o)) = Cnt(caller, Keepers(o))
           + One(caller'[t] \in Keepers(o)) - One(caller[t] \in Keepers(o))
  <2>1. \A x \in Callers \ {t} : caller[x] \in Keepers(o) <=> caller'[x] \in Keepers(o)
    BY <1>2 DEF SameCall, Keepers
  <2> QED
    BY <1>1, <2>1, CntStep
<1>5. CN(o) \in CNum /\ CN(o)' \in CNum
  BY <1>3, <1>4 DEF CN, CNum
<1> QED
  BY <1>3, <1>4, <1>5 DEF CallShift, CN

-----------------------------------------------------------------------------
(* The references that wait threads hold. *)
HeldBy(o) == {h \in Buckets \X (1..MaxInBucket) :
                h[2] <= Len(bucket[h[1]].held) /\ bucket[h[1]].held[h[2]].obj = o}
HN(o) == Cardinality(HeldBy(o))

(* They are finitely many. *)
LEMMA HeldFinite ==
  ASSUME NEW o
  PROVE  IsFiniteSet(HeldBy(o)) /\ HN(o) \in Nat
<1>1. IsFiniteSet(1..MaxInBucket)
  BY WaitConstants, FS_Interval
<1>2. IsFiniteSet(Buckets \X (1..MaxInBucket))
  BY <1>1, WaitConstants, FS_Product
<1>3. HeldBy(o) \subseteq Buckets \X (1..MaxInBucket)
  BY DEF HeldBy
<1> QED
  BY <1>2, <1>3, FS_Subset, FS_CardinalityType DEF HN

(* They stay if what is held stays. *)
LEMMA HoldSame ==
  ASSUME HeldKept, NEW o
  PROVE  HN(o)' = HN(o)
<1>1. HeldBy(o)' = HeldBy(o)
  BY DEF HeldBy, HeldKept
<1> QED
  BY <1>1 DEF HN

(* A wait thread takes a reference to each object on its waiting list. *)
LEMMA HoldTakes ==
  ASSUME WaitInv, WaitInv', NEW b \in Buckets, WaitThreadBlocks(b), NEW o
  PROVE  /\ o \in Rng(bucket[b].waiting) => HN(o)' = HN(o) + 1
         /\ o \notin Rng(bucket[b].waiting) => HN(o)' = HN(o)
<1> DEFINE n == Len(bucket[b].waiting)
<1>1. /\ bucket[b].held = <<>> /\ Len(bucket'[b].held) = n
      /\ \A x \in Buckets \ {b} : bucket'[x].held = bucket[x].held
      /\ \A i \in 1..n : bucket'[b].held[i].obj = bucket[b].waiting[i]
  BY BlocksEffect
<1>2. n \in Nat /\ Once(bucket[b].waiting)
  <2>1. bucket[b] \in BucketRec /\ ListPart(b, bucket[b], wait)
    BY BucketFacts
  <2> QED
    BY <2>1 DEF BucketRec, ListPart
<1>3. n <= MaxInBucket
  <2>1. bucket'[b] \in BucketRec /\ ThreadPart(b, bucket'[b], wait')
    BY DEF WaitInv, BucketOK
  <2> QED
    BY <1>1, <2>1 DEF ThreadPart
<1>4. Len(bucket[b].held) = 0
  <2>1. Len(<<>>) = 0
    OBVIOUS
  <2> QED
    BY ONLY <1>1, <2>1
<1>5. ASSUME NEW h \in Buckets \X (1..MaxInBucket), h[1] # b
      PROVE  h \in HeldBy(o)' <=> h \in HeldBy(o)
  BY <1>1, <1>5 DEF HeldBy
<1>6. ASSUME NEW h \in Buckets \X (1..MaxInBucket), h[1] = b
      PROVE  /\ h \notin HeldBy(o)
             /\ h \in HeldBy(o)' <=> h[2] \in 1..n /\ bucket[b].waiting[h[2]] = o
  <2>1. h[2] \in 1..MaxInBucket /\ h[2] \in Nat /\ h[2] >= 1
    BY WaitConstants
  <2>2. h \notin HeldBy(o)
    BY <1>4, <1>6, <2>1 DEF HeldBy
  <2>3. h \in HeldBy(o)' <=> h[2] <= n /\ bucket'[b].held[h[2]].obj = o
    BY <1>1, <1>6 DEF HeldBy
  <2>4. h[2] <= n <=> h[2] \in 1..n
    BY <1>2, <2>1
  <2> QED
    BY <1>1, <2>2, <2>3, <2>4
<1> HIDE DEF n
<1>7. HeldBy(o) \subseteq Buckets \X (1..MaxInBucket) /\ HeldBy(o)' \subseteq Buckets \X (1..MaxInBucket)
  BY DEF HeldBy
<1>8. CASE o \notin Rng(bucket[b].waiting)
  <2>1. \A i \in 1..n : bucket[b].waiting[i] # o
    BY <1>8 DEF Rng, n
  <2>2. HeldBy(o)' = HeldBy(o)
    BY <1>5, <1>6, <1>7, <2>1
  <2> QED
    BY <1>8, <2>2 DEF HN
<1>9. CASE o \in Rng(bucket[b].waiting)
  <2>1. PICK i \in 1..n : bucket[b].waiting[i] = o
    BY <1>9 DEF Rng, n
  <2>2. \A j \in 1..n : bucket[b].waiting[j] = o => j = i
    BY <1>2, <2>1 DEF Once, n
  <2> DEFINE h == <<b, i>>
  <2>3. h \in Buckets \X (1..MaxInBucket) /\ h[1] = b /\ h[2] = i
    BY <1>2, <1>3, <2>1, WaitConstants
  <2>4. h \notin HeldBy(o) /\ h \in HeldBy(o)'
    BY <1>6, <2>1, <2>3
  <2>5. ASSUME NEW g \in Buckets \X (1..MaxInBucket), g # h
        PROVE  g \in HeldBy(o)' <=> g \in HeldBy(o)
    <3>1. CASE g[1] # b
      BY <1>5, <3>1
    <3>2. CASE g[1] = b
      <4>1. g = <<g[1], g[2]>>
        OBVIOUS
      <4>2. g[2] # i
        BY <2>5, <3>2, <4>1
      <4> QED
        BY <1>6, <2>2, <3>2, <4>2
    <3> QED
      BY <3>1, <3>2
  <2> HIDE DEF h
  <2>6. HeldBy(o) \ {h} = HeldBy(o)' \ {h}
    BY <1>7, <2>5
  <2>7. IsFiniteSet(HeldBy(o))
    BY HeldFinite
  <2>8. /\ Cardinality(HeldBy(o)) \in Nat
        /\ Cardinality(HeldBy(o)') = Cardinality(HeldBy(o)) + One(h \in HeldBy(o)') - One(h \in HeldBy(o))
    BY <2>6, <2>7, SetStep
  <2>9. One(h \in HeldBy(o)') = 1 /\ One(h \in HeldBy(o)) = 0
    BY <2>4 DEF One
  <2>10. Cardinality(HeldBy(o)') = Cardinality(HeldBy(o)) + 1
    BY <2>8, <2>9
  <2> QED
    BY <1>9, <2>10 DEF HN
<1> QED
  BY <1>8, <1>9

(* A wait thread lets the last object go that it holds. *)
LEMMA HoldDrops ==
  ASSUME WaitInv, NEW b \in Buckets, WaitThreadDrops(b), NEW o
  PROVE  /\ o = LastHeld(b) => HN(o)' = HN(o) - 1 /\ HN(o) > 0
         /\ o # LastHeld(b) => HN(o)' = HN(o)
<1> DEFINE s == bucket[b].held
           m == Len(s)
           h == <<b, m>>
<1>1. /\ s # <<>> /\ bucket'[b].held = SubSeq(s, 1, m - 1)
      /\ \A x \in Buckets \ {b} : bucket'[x].held = bucket[x].held
  BY DropsEffect
<1>2. s \in Seq(HeldRecord) /\ m <= MaxInBucket
  <2>1. bucket[b] \in BucketRec /\ ThreadPart(b, bucket[b], wait)
    BY BucketFacts
  <2> QED
    BY <2>1 DEF BucketRec, ThreadPart
<1>3. m \in Nat \ {0} /\ Len(bucket'[b].held) = m - 1 /\ \A i \in 1..(m - 1) : bucket'[b].held[i] = s[i]
  BY <1>1, <1>2, ButLastIs
<1>4. h \in Buckets \X (1..MaxInBucket) /\ h[1] = b /\ h[2] = m
  BY <1>2, <1>3, WaitConstants
<1>5. h \notin HeldBy(o)' /\ (h \in HeldBy(o) <=> o = LastHeld(b))
  BY <1>3, <1>4 DEF HeldBy, LastHeld
<1>6. ASSUME NEW g \in Buckets \X (1..MaxInBucket), g # h
      PROVE  g \in HeldBy(o)' <=> g \in HeldBy(o)
  <2>1. CASE g[1] # b
    BY <1>1, <2>1 DEF HeldBy
  <2>2. CASE g[1] = b
    <3>1. g = <<g[1], g[2]>> /\ g[2] \in 1..MaxInBucket
      OBVIOUS
    <3>2. g[2] # m /\ g[2] \in Nat /\ g[2] >= 1
      BY <1>6, <2>2, <3>1, WaitConstants
    <3>3. (g[2] <= m - 1 <=> g[2] <= m) /\ (g[2] <= m - 1 => g[2] \in 1..(m - 1))
      BY <1>3, <3>2
    <3>4. g[2] <= m - 1 => bucket'[b].held[g[2]] = s[g[2]]
      BY <1>3, <3>3
    <3> HIDE DEF m
    <3>5. (g \in HeldBy(o)' <=> g[2] <= m - 1 /\ bucket'[b].held[g[2]].obj = o)
      BY <1>3, <2>2 DEF HeldBy
    <3>6. (g \in HeldBy(o) <=> g[2] <= m /\ s[g[2]].obj = o)
      BY <2>2 DEF HeldBy, m
    <3> QED
      BY <3>3, <3>4, <3>5, <3>6
  <2> QED
    BY <2>1, <2>2
<1>7. HeldBy(o) \subseteq Buckets \X (1..MaxInBucket) /\ HeldBy(o)' \subseteq Buckets \X (1..MaxInBucket)
  BY DEF HeldBy
<1> HIDE DEF h
<1>8. HeldBy(o) \ {h} = HeldBy(o)' \ {h}
  BY <1>6, <1>7
<1>9. IsFiniteSet(HeldBy(o))
  BY HeldFinite
<1>10. /\ Cardinality(HeldBy(o)) \in Nat /\ Cardinality(HeldBy(o)') \in Nat
       /\ Cardinality(HeldBy(o)') = Cardinality(HeldBy(o)) + One(h \in HeldBy(o)') - One(h \in HeldBy(o))
  BY <1>8, <1>9, SetStep
<1>11. One(h \in HeldBy(o)') = 0 /\ One(h \in HeldBy(o)) = (IF o = LastHeld(b) THEN 1 ELSE 0)
  BY <1>5 DEF One
<1>12. o = LastHeld(b) => Cardinality(HeldBy(o)') = Cardinality(HeldBy(o)) - 1 /\ Cardinality(HeldBy(o)) > 0
  BY <1>10, <1>11
<1>13. o # LastHeld(b) => Cardinality(HeldBy(o)') = Cardinality(HeldBy(o))
  BY <1>10, <1>11
<1> QED
  BY <1>12, <1>13 DEF HN

-----------------------------------------------------------------------------
(* The I/O queue. *)

IoqRec == [objcount : Int, key : Ios \cup {NoKey},
           pc : {"none", "get", "packet", "again", "destroy", "tail", "idle", "late", "exit"}]
IoRec == [shutting_down : BOOLEAN, outstanding : Nat, started : Nat]
IoState(q, s, f) == q \in IoqRec /\ s \in Seq(Ios \cup {NoKey}) /\ f \in [Ios -> IoRec]
IoShape == IoState(ioq, port, io)

(* What the queue has of o: operations that the kernel works on and packets *)
(* that were not handled yet.                                               *)
PacketsOf(q, s, f, o) ==
    IF o \in Ios THEN f[o].outstanding + Cnt(s, {o}) + One(q.pc = "packet" /\ q.key = o)
                 ELSE 0
PNum == [ends : Nat, packets : Nat, again : BOOLEAN, closes : BOOLEAN]
PNOf(q, s, f, o) ==
    [ends |-> One(q.pc = "destroy" /\ q.key = o), packets |-> PacketsOf(q, s, f, o),
     again |-> (q.pc = "again" /\ q.key = o), closes |-> (o \in Ios /\ f[o].shutting_down = TRUE)]
PN(o) == PNOf(ioq, port, io, o)

(* A packet more. *)
LEMMA CntAppend ==
  ASSUME NEW S, NEW s \in Seq(S), NEW x \in S, NEW A
  PROVE  Cnt(s, A) \in Nat /\ Cnt(Append(s, x), A) = Cnt(s, A) + One(x \in A)
<1> DEFINE q == Append(s, x)
           n == Len(s)
           P == {i \in 1..n : s[i] \in A}
           Q == {i \in 1..(n + 1) : q[i] \in A}
<1>1. /\ n \in Nat /\ q \in Seq(S) /\ Len(q) = n + 1 /\ q[n + 1] = x
      /\ \A i \in 1..n : q[i] = s[i]
  BY AppendIs
<1>2. Cnt(s, A) = Cardinality(P) /\ Cnt(q, A) = Cardinality(Q)
  <2>1. DOMAIN s = 1..n /\ DOMAIN q = 1..(n + 1)
    BY <1>1
  <2> QED
    BY <2>1 DEF Cnt
<1>3. IsFiniteSet(P)
  <2>0. 1 \in Int /\ n \in Int
    BY <1>1
  <2>1. IsFiniteSet(1..n)
    BY ONLY <2>0, FS_Interval
  <2> QED
    BY <2>1, FS_Subset
<1>4. ASSUME NEW i
      PROVE  i \in P \ {n + 1} <=> i \in Q \ {n + 1}
  <2>1. i \in 1..n <=> i \in 1..(n + 1) /\ i # n + 1
    BY <1>1
  <2> QED
    BY <1>1, <2>1
<1>5. P \ {n + 1} = Q \ {n + 1}
  BY <1>4
<1>6. (n + 1 \notin P) /\ (n + 1 \in Q <=> x \in A)
  BY <1>1
<1> HIDE DEF P, Q
<1>7. /\ Cardinality(P) \in Nat
      /\ Cardinality(Q) = Cardinality(P) + One(n + 1 \in Q) - One(n + 1 \in P)
  BY <1>3, <1>5, SetStep
<1>8. One(n + 1 \in Q) = One(x \in A) /\ One(n + 1 \in P) = 0 /\ One(x \in A) \in {0, 1}
  BY <1>6 DEF One
<1> QED
  BY <1>2, <1>7, <1>8

(* The first packet is taken. *)
LEMMA CntTail ==
  ASSUME NEW S, NEW s \in Seq(S), s # <<>>, NEW A
  PROVE  /\ Cnt(s, A) \in Nat /\ Cnt(Tail(s), A) \in Nat
         /\ Cnt(s, A) = Cnt(Tail(s), A) + One(Head(s) \in A)
<1> DEFINE q == Tail(s)
           n == Len(s)
           P == {i \in 1..n : s[i] \in A}
           R == P \ {1}
           Q == {i \in 1..(n - 1) : q[i] \in A}
           f == [i \in Q |-> i + 1]
<1>1. /\ n \in Nat \ {0} /\ q \in Seq(S) /\ Len(q) = n - 1 /\ Head(s) = s[1]
      /\ \A i \in 1..(n - 1) : q[i] = s[i + 1]
  BY TailIs
<1>2. Cnt(s, A) = Cardinality(P) /\ Cnt(q, A) = Cardinality(Q)
  <2>1. DOMAIN s = 1..n /\ DOMAIN q = 1..(n - 1)
    BY <1>1
  <2> QED
    BY <2>1 DEF Cnt
<1>3. IsFiniteSet(P) /\ IsFiniteSet(Q)
  <2>1. IsFiniteSet(1..n) /\ IsFiniteSet(1..(n - 1))
    BY <1>1, FS_Interval
  <2> QED
    BY <2>1, FS_Subset
<1>4. \A i \in Q : i + 1 \in R
  BY <1>1
<1>5. \A i, j \in Q : i + 1 = j + 1 => i = j
  BY <1>1
<1>6. \A j \in R : \E i \in Q : i + 1 = j
  <2> SUFFICES ASSUME NEW j \in R PROVE \E i \in Q : i + 1 = j
    OBVIOUS
  <2>1. j \in 1..n /\ j # 1 /\ s[j] \in A
    OBVIOUS
  <2>2. j - 1 \in 1..(n - 1) /\ (j - 1) + 1 = j
    BY <1>1, <2>1
  <2>3. q[j - 1] = s[j]
    BY <1>1, <2>2
  <2> QED
    BY <2>1, <2>2, <2>3
<1> HIDE DEF Q, R
<1>7. f \in Bijection(Q, R)
  <2>1. f \in [Q -> R] /\ \A a, b \in Q : f[a] = f[b] => a = b
    BY <1>4, <1>5
  <2>2. \A t \in R : \E x \in Q : f[x] = t
    BY <1>6
  <2> QED
    BY <2>1, <2>2 DEF Bijection, Injection, Surjection, IsInjective
<1>8. Cardinality(R) = Cardinality(Q)
  BY <1>3, <1>7, FS_Bijection DEF ExistsBijection
<1>9. P \ {1} = R \ {1} /\ 1 \notin R
  BY DEF R
<1>10. (1 \in P) <=> (Head(s) \in A)
  BY <1>1
<1> HIDE DEF P
<1>11. /\ Cardinality(P) \in Nat /\ Cardinality(R) \in Nat
       /\ Cardinality(R) = Cardinality(P) + One(1 \in R) - One(1 \in P)
  BY <1>3, <1>9, SetStep
<1>12. One(1 \in R) = 0 /\ One(1 \in P) = One(Head(s) \in A) /\ One(Head(s) \in A) \in {0, 1}
  BY <1>9, <1>10 DEF One
<1> QED
  BY <1>2, <1>8, <1>11, <1>12

(* The numbers of the I/O queue are numbers. *)
LEMMA PacketNums ==
  ASSUME NEW q, NEW s, NEW f, IoState(q, s, f), NEW o
  PROVE  /\ PNOf(q, s, f, o) \in PNum /\ Cnt(s, {o}) \in Nat
         /\ PNOf(q, s, f, o).packets = PacketsOf(q, s, f, o)
         /\ PNOf(q, s, f, o).ends = One(q.pc = "destroy" /\ q.key = o)
         /\ PNOf(q, s, f, o).again = (q.pc = "again" /\ q.key = o)
         /\ PNOf(q, s, f, o).closes = (o \in Ios /\ f[o].shutting_down = TRUE)
         /\ o \in Ios => f[o].outstanding \in Nat
<1>1. Cnt(s, {o}) \in Nat
  <2>1. s \in Seq(Ios \cup {NoKey})
    BY DEF IoState
  <2>2. Len(s) \in Nat /\ DOMAIN s = 1..Len(s)
    BY <2>1, RngIs
  <2>3. 1 \in Int /\ Len(s) \in Int
    BY <2>2
  <2>4. IsFiniteSet(1..Len(s))
    BY ONLY <2>3, FS_Interval
  <2> QED
    BY <2>2, <2>4, CntSome
<1>2. \A p : One(p) \in {0, 1}
  BY DEF One
<1>3. o \in Ios => f[o].outstanding \in Nat
  BY DEF IoState, IoRec
<1>4. PacketsOf(q, s, f, o) \in Nat
  BY <1>1, <1>2, <1>3 DEF PacketsOf
<1>5. PNOf(q, s, f, o) \in PNum
  <2>1. One(q.pc = "destroy" /\ q.key = o) \in Nat
    BY <1>2
  <2>2. (q.pc = "again" /\ q.key = o) \in BOOLEAN /\ (o \in Ios /\ f[o].shutting_down = TRUE) \in BOOLEAN
    OBVIOUS
  <2> QED
    BY <1>4, <2>1, <2>2 DEF PNOf, PNum
<1>6. /\ PNOf(q, s, f, o).packets = PacketsOf(q, s, f, o)
      /\ PNOf(q, s, f, o).ends = One(q.pc = "destroy" /\ q.key = o)
      /\ PNOf(q, s, f, o).again = (q.pc = "again" /\ q.key = o)
      /\ PNOf(q, s, f, o).closes = (o \in Ios /\ f[o].shutting_down = TRUE)
  BY DEF PNOf
<1> QED
  BY <1>1, <1>3, <1>5, <1>6

(* The queue stays, or moves without a change of the numbers. *)
LEMMA PacketsSame ==
  ASSUME UNCHANGED ioVars, NEW o
  PROVE  PN(o)' = PN(o)
<1>1. ioq' = ioq /\ port' = port /\ io' = io
  BY DEF ioVars
<1> QED
  BY <1>1 DEF PN

-----------------------------------------------------------------------------
(* What is known of one object: its record ob, with the numbers of workers, *)
(* callers, references held by wait threads and packets, and whether it is  *)
(* in a queue.                                                              *)

CountPart(o, ob, w, p) ==
    /\ ob.refcount >= 0 /\ ob.pending >= 0 /\ ob.running = w.run /\ ob.associated = w.linked
    /\ ob.ops >= 0 /\ ob.skipped >= 0 /\ ob.posts >= 0 /\ ob.signaled >= 0 /\ ob.completions >= 0
    /\ Type[o] = "io" => ob.pending <= ob.completions
    /\ p.packets <= ob.ops + ob.skipped

(* Nobody has the object, but for those who destroy it. *)
Unused(ob, w, c) ==
    /\ ob.refcount = 0 /\ ob.pending = 0 /\ w.run = 0
    /\ c.sub = 0 /\ c.join = 0 /\ c.rel = 0 /\ c.keep = 0

(* Those who destroy it. *)
Enders(w, c, h, p) == w.ends + c.ends + p.ends + h

DeadPart(o, ob, w, c, h, p) ==
    /\ ob.life \in {"none", "gone"} =>
         /\ Unused(ob, w, c) /\ Enders(w, c, h, p) = 0
         /\ ob.owner = "none" /\ ob.member = FALSE /\ ob.ops = 0 /\ ob.skipped = 0
    /\ ob.life = "none" => ob.shutdown = FALSE /\ p.closes = FALSE
    /\ ob.life = "gone" => ob.shutdown = TRUE
    /\ ob.life = "dying" => Unused(ob, w, c) /\ Enders(w, c, h, p) = 1 /\ ob.shutdown = TRUE

(* The references to a live object. *)
Own(o, ob) == One(ob.shutdown = FALSE /\ (ob.owner # "none" \/ Type[o] = "io"))
Posts(o, c) == IF Type[o] = "simple" THEN c.sub + c.join + c.rel ELSE 0
LivePart(o, ob, w, c, h, p) ==
    ob.life = "live" =>
      /\ ob.refcount = Own(o, ob) + ob.pending + w.run + Posts(o, c) + c.keep + h
      /\ ob.refcount > 0 /\ w.ends = 0 /\ c.ends = 0 /\ p.ends = 0
      /\ ob.shutdown = FALSE /\ Type[o] \notin {"simple", "io"} => ob.owner # "none"
      /\ ob.shutdown = FALSE /\ Type[o] = "simple" =>
           c.sub > 0 \/ ob.pending > 0 \/ w.run > 0 \/ c.keep > 0

(* Who may use it, and when. *)
SimplePart(o, ob, w, c, s) ==
    /\ Type[o] = "simple" => ob.owner = "none" /\ c.wait = 0 /\ s = FALSE
    /\ Type[o] = "simple" /\ c.sub > 0 =>
         /\ c.sub = 1 /\ c.join = 0 /\ c.keep = 0 /\ ob.pending = 0 /\ w.run = 0
         /\ ob.shutdown = FALSE /\ ob.member = FALSE
    /\ Type[o] # "simple" => c.join = 0 /\ c.rel = 0
UserPart(o, ob, c, p, s) ==
    /\ c.sub > 0 /\ Type[o] # "simple" => Type[o] = "timer" /\ ob.owner = "user" /\ ob.shutdown = FALSE
    /\ c.wait > 0 => ob.owner = "user" /\ ob.shutdown = FALSE
    /\ s = TRUE => ob.owner = "user" /\ ob.shutdown = FALSE
    /\ p.closes = TRUE => ob.owner = "none"
GroupPart(o, ob, c) ==
    /\ c.join > 0 \/ ob.member = TRUE \/ c.keep > 0 => ob.grouped = TRUE
    /\ c.join > 0 => ob.member = FALSE /\ c.keep = 0 /\ c.join = 1
    /\ c.keep > 0 => ob.owner # "user" /\ ob.member = FALSE /\ c.keep = 1
    /\ Type[o] = "io" => ob.grouped = FALSE
IoPart(o, ob, p) ==
    /\ Type[o] # "io" \/ ob.shutdown = TRUE => ob.ops = 0 /\ ob.skipped = 0
    /\ p.again = TRUE => Type[o] = "io" /\ ob.life = "live" /\ ob.shutdown = FALSE

UsePart(o, ob, w, c, p, s) ==
    /\ SimplePart(o, ob, w, c, s) /\ UserPart(o, ob, c, p, s)
    /\ GroupPart(o, ob, c) /\ IoPart(o, ob, p)

ObjOK(o, ob, w, c, h, p, s) ==
    /\ CountPart(o, ob, w, p) /\ DeadPart(o, ob, w, c, h, p) /\ LivePart(o, ob, w, c, h, p)
    /\ UsePart(o, ob, w, c, p, s)

InService(o) == (o \in Timers /\ timer[o].initialized = TRUE) \/ (o \in Waits /\ wait[o].bucket # NoBucket)
Good(o) == ObjOK(o, obj[o], WN(o), CN(o), HN(o), PN(o), InService(o))

(* What is known of a caller. *)
CallerGood(c) ==
    /\ c.pc \in {"idle", "submit", "join", "release", "wait", "sleep"} => c.list = <<>>
    /\ c.pc \in {"gcancel", "gwait", "gsleep", "gdrop"} => c.obj = Nil \/ c.obj = Head(c.list)
    /\ c.pc = "gcancel" => Rng(c.todo) \subseteq Rng(c.list)
    /\ Once(c.list)

(* The lists agree with the objects. *)
ListedOK ==
    /\ \A p \in 1..3 : Once(pools[p])
    /\ \A o \in Objects : o \in Rng(pools[Priority[o]]) <=> obj[o].pending > 0
MembersOK ==
    /\ Once(group.members)
    /\ \A o \in Objects : o \in Rng(group.members) <=> obj[o].member = TRUE
KeyOK == ioq.pc \in {"destroy", "again"} => ioq.key \in Ios

ObjInv == \A o \in Objects : Good(o)
CallersInv == \A t \in Callers : CallerGood(caller[t])
CoreInv == ObjInv /\ CallersInv /\ ListedOK /\ MembersOK /\ IoShape /\ KeyOK


-----------------------------------------------------------------------------
(* What may happen to one object.  Each kind of step keeps what is known.   *)

Typed(ob, w, c, h, p, s) ==
    ob \in ObjRec /\ w \in WNum /\ c \in CNum /\ h \in Nat /\ p \in PNum /\ s \in BOOLEAN

(* Types of the fields. *)
LEMMA TypedIs ==
  ASSUME NEW ob, NEW w, NEW c, NEW h, NEW p, NEW s, Typed(ob, w, c, h, p, s)
  PROVE  /\ ob.refcount \in Int /\ ob.pending \in Int /\ ob.running \in Int /\ ob.associated \in Int
         /\ ob.ops \in Int /\ ob.skipped \in Int /\ ob.posts \in Int /\ ob.signaled \in Int
         /\ ob.completions \in Int /\ ob.life \in {"none", "live", "dying", "gone"}
         /\ ob.owner \in {"none", "user", "group"}
         /\ ob.shutdown \in BOOLEAN /\ ob.grouped \in BOOLEAN /\ ob.member \in BOOLEAN
         /\ w.run \in Nat /\ w.linked \in Nat /\ w.ends \in Nat
         /\ c.sub \in Nat /\ c.join \in Nat /\ c.rel \in Nat /\ c.wait \in Nat /\ c.ends \in Nat
         /\ c.keep \in Nat /\ h \in Nat /\ p.ends \in Nat /\ p.packets \in Nat
         /\ p.again \in BOOLEAN /\ p.closes \in BOOLEAN /\ s \in BOOLEAN /\ w.linked <= w.run
  BY DEF Typed, ObjRec, WNum, CNum, PNum

(* A callback is started. *)
LEMMA TakesOK ==
  ASSUME NEW o \in Objects, NEW ob, NEW w, NEW c, NEW h, NEW p, NEW s, Typed(ob, w, c, h, p, s),
         ObjOK(o, ob, w, c, h, p, s), NEW e, ExecutedIs(ob, e, Type[o] = "io"), NEW v \in WNum,
         v.run = w.run + 1, v.linked = w.linked + 1, v.ends = w.ends, ob.pending > 0
  PROVE  ObjOK(o, e, v, c, h, p, s)
<1>1. CountPart(o, e, v, p)
  BY TypedIs DEF ObjOK, CountPart, ExecutedIs
<1>2. DeadPart(o, e, v, c, h, p) /\ e.life = "live"
  BY TypedIs DEF ObjOK, DeadPart, ExecutedIs, Unused, CountPart
<1>3. LivePart(o, e, v, c, h, p)
  <2>1. Own(o, e) = Own(o, ob) /\ Own(o, ob) \in {0, 1}
    BY DEF ExecutedIs, Own, One
  <2>2. Posts(o, c) \in Nat
    BY TypedIs DEF Posts
  <2> QED
    BY <1>2, <2>1, <2>2, TypedIs DEF ObjOK, LivePart, ExecutedIs
<1>4. UsePart(o, e, v, c, p, s)
  BY TypedIs DEF ObjOK, UsePart, SimplePart, UserPart, GroupPart, IoPart, ExecutedIs
<1> QED
  BY <1>1, <1>2, <1>3, <1>4 DEF ObjOK

(* References are given back. *)
GivenBack(ob, e, n) ==
    /\ e \in ObjRec /\ e.refcount = ob.refcount - n
    /\ ob.refcount = n => e.life = "dying"
    /\ ob.refcount # n => e.life = ob.life
    /\ e.owner = ob.owner /\ e.shutdown = ob.shutdown /\ e.grouped = ob.grouped
    /\ e.member = ob.member /\ e.pending = ob.pending /\ e.running = ob.running
    /\ e.associated = ob.associated /\ e.signaled = ob.signaled /\ e.ops = ob.ops
    /\ e.skipped = ob.skipped /\ e.completions = ob.completions /\ e.posts = ob.posts

(* A callback returns. *)
LEMMA ReturnsOK ==
  ASSUME NEW o \in Objects, NEW ob, NEW w, NEW c, NEW h, NEW p, NEW s, Typed(ob, w, c, h, p, s),
         ObjOK(o, ob, w, c, h, p, s), NEW a \in BOOLEAN, NEW r, ReturnedIs(ob, r, a, Type[o] = "simple"),
         NEW e, GivenBack(r, e, 1), NEW v \in WNum, w.run > 0, v.run = w.run - 1,
         a => v.linked = w.linked - 1, ~a => v.linked = w.linked,
         v.ends = w.ends + One(ob.refcount = 1)
  PROVE  ObjOK(o, e, v, c, h, p, s)
<1>1. CountPart(o, e, v, p) /\ ob.life = "live"
  <2>1. ob.life = "live" /\ ob.refcount > 0
    BY TypedIs DEF ObjOK, DeadPart, Unused, LivePart
  <2> QED
    BY <2>1, TypedIs DEF ObjOK, CountPart, ReturnedIs, GivenBack
<1>2. /\ Own(o, e) = Own(o, ob) /\ Own(o, ob) \in {0, 1}
      /\ e.shutdown = FALSE => ob.shutdown = FALSE /\ Type[o] # "simple"
      /\ Type[o] # "simple" => e.shutdown = ob.shutdown
  <2>1. /\ Type[o] = "simple" => ob.owner = "none"
        /\ ob.shutdown \in BOOLEAN
    BY TypedIs DEF ObjOK, UsePart, SimplePart
  <2> QED
    BY <2>1 DEF ReturnedIs, GivenBack, Own, One
<1>3. Posts(o, c) \in Nat
  BY TypedIs DEF Posts
<1>4. ob.refcount = Own(o, ob) + ob.pending + w.run + Posts(o, c) + c.keep + h
  BY <1>1 DEF ObjOK, LivePart
<1>5. /\ Type[o] = "simple" => c.sub = 0
      /\ Type[o] # "simple" => c.join = 0 /\ c.rel = 0
      /\ Type[o] # "simple" /\ c.sub > 0 => Own(o, ob) = 1
      /\ Type[o] # "simple" /\ ob.shutdown = FALSE => Own(o, ob) = 1
      /\ p.again = TRUE => Own(o, ob) = 1
  BY <1>1, TypedIs DEF ObjOK, UsePart, SimplePart, UserPart, IoPart, LivePart, Own, One
<1>6. DeadPart(o, e, v, c, h, p)
  <2>1. CASE ob.refcount = 1
    <3>1. v.ends = w.ends + 1
      BY <2>1 DEF One
    <3>a. /\ Own(o, ob) \in Nat /\ ob.pending \in Nat /\ w.run \in Nat /\ w.run > 0 /\ Posts(o, c) \in Nat
          /\ c.keep \in Nat /\ h \in Nat
      BY <1>2, <1>3, TypedIs DEF ObjOK, CountPart
    <3>2. Own(o, ob) = 0 /\ ob.pending = 0 /\ w.run = 1 /\ Posts(o, c) = 0 /\ c.keep = 0 /\ h = 0
      BY ONLY <1>4, <2>1, <3>a
    <3>3. c.sub = 0 /\ c.join = 0 /\ c.rel = 0 /\ e.shutdown = TRUE
      BY <1>2, <1>5, <3>2, TypedIs DEF Posts, ReturnedIs, GivenBack, ObjRec
    <3> QED
      BY <1>1, <2>1, <3>1, <3>2, <3>3, TypedIs DEF ObjOK, LivePart, DeadPart, Unused, Enders, ReturnedIs, GivenBack
  <2>2. CASE ob.refcount # 1
    BY <1>1, <2>2 DEF DeadPart, ReturnedIs, GivenBack
  <2> QED
    BY <2>1, <2>2
<1>7. LivePart(o, e, v, c, h, p)
  <2> SUFFICES ASSUME e.life = "live" PROVE LivePart(o, e, v, c, h, p)
    BY DEF LivePart
  <2>1. ob.refcount # 1
    BY DEF ReturnedIs, GivenBack
  <2>2. v.ends = w.ends
    BY <2>1, TypedIs DEF One
  <2> QED
    BY <1>1, <1>2, <1>3, <1>4, <2>1, <2>2, TypedIs DEF ObjOK, LivePart, CountPart, ReturnedIs, GivenBack
<1>8. UsePart(o, e, v, c, p, s)
  <2>1. e.life = "live" \/ ob.refcount = 1
    BY <1>1 DEF ReturnedIs, GivenBack
  <2>2. SimplePart(o, e, v, c, s)
    BY <1>2, <1>5, TypedIs DEF ObjOK, UsePart, SimplePart, ReturnedIs, GivenBack
  <2>3. UserPart(o, e, c, p, s)
    BY <1>2, <1>5, TypedIs DEF ObjOK, UsePart, SimplePart, UserPart, ReturnedIs, GivenBack
  <2>4. GroupPart(o, e, c)
    BY <1>2, <1>5, TypedIs DEF ObjOK, UsePart, GroupPart, ReturnedIs, GivenBack
  <2>5. IoPart(o, e, p)
    <3>1. p.again = TRUE => ob.refcount # 1
      BY <1>2, <1>3, <1>4, <1>5, TypedIs DEF ObjOK, CountPart
    <3> QED
      BY <1>1, <1>2, <2>1, <3>1, TypedIs DEF ObjOK, UsePart, IoPart, ReturnedIs, GivenBack
  <2> QED
    BY <2>2, <2>3, <2>4, <2>5 DEF UsePart
<1> QED
  BY <1>1, <1>6, <1>7, <1>8 DEF ObjOK

(* The object is destroyed. *)
DestroyedTo(ob, e) ==
    /\ e \in ObjRec /\ e.life = "gone" /\ e.shutdown = ob.shutdown /\ e.grouped = ob.grouped
    /\ e.refcount = 0 /\ e.owner = "none" /\ e.member = FALSE /\ e.pending = 0 /\ e.running = 0
    /\ e.associated = 0 /\ e.signaled = 0 /\ e.ops = 0 /\ e.skipped = 0 /\ e.completions = 0
    /\ e.posts = 0
SameButEnds(w, c, p, v, d, q) ==
    /\ v \in WNum /\ d \in CNum /\ q \in PNum
    /\ v.run = w.run /\ v.linked = w.linked
    /\ d.sub = c.sub /\ d.join = c.join /\ d.rel = c.rel /\ d.wait = c.wait /\ d.keep = c.keep
    /\ q.packets = p.packets /\ q.again = p.again /\ q.closes = p.closes

(* The object that was dying is gone. *)
LEMMA DestroysOK ==
  ASSUME NEW o \in Objects, NEW ob, NEW w, NEW c, NEW h, NEW p, NEW s, Typed(ob, w, c, h, p, s),
         ObjOK(o, ob, w, c, h, p, s), ob.life = "dying", NEW e, DestroyedTo(ob, e),
         NEW v, NEW d, NEW g \in Nat, NEW q, SameButEnds(w, c, p, v, d, q),
         Enders(v, d, g, q) = Enders(w, c, h, p) - 1
  PROVE  ObjOK(o, e, v, d, g, q, s)
<1>1. /\ Unused(ob, w, c) /\ Enders(w, c, h, p) = 1 /\ ob.shutdown = TRUE
      /\ ob.ops = 0 /\ ob.skipped = 0 /\ c.wait = 0 /\ s = FALSE /\ p.again = FALSE
      /\ w.linked = 0 /\ p.packets = 0
  BY TypedIs DEF ObjOK, DeadPart, UsePart, UserPart, IoPart, Unused, CountPart
<1>2. CountPart(o, e, v, q)
  BY <1>1, TypedIs DEF CountPart, DestroyedTo, SameButEnds, Unused
<1>3. DeadPart(o, e, v, d, g, q)
  BY <1>1 DEF DeadPart, DestroyedTo, SameButEnds, Unused
<1>4. LivePart(o, e, v, d, g, q)
  BY DEF LivePart, DestroyedTo
<1>5. UsePart(o, e, v, d, q, s)
  BY <1>1 DEF UsePart, SimplePart, UserPart, GroupPart, IoPart, DestroyedTo, SameButEnds, Unused, ObjOK
<1> QED
  BY <1>2, <1>3, <1>4, <1>5 DEF ObjOK

(* Nothing but small counters changes. *)
Plain(ob, e) ==
    /\ e \in ObjRec /\ e.life = ob.life /\ e.refcount = ob.refcount /\ e.owner = ob.owner
    /\ e.shutdown = ob.shutdown /\ e.grouped = ob.grouped /\ e.member = ob.member
    /\ e.pending = ob.pending /\ e.running = ob.running /\ e.posts = ob.posts
    /\ e.signaled = ob.signaled /\ e.completions = ob.completions

(* A callback is disassociated. *)
LEMMA LinkOK ==
  ASSUME NEW o \in Objects, NEW ob, NEW w, NEW c, NEW h, NEW p, NEW s, Typed(ob, w, c, h, p, s),
         ObjOK(o, ob, w, c, h, p, s), NEW e, Plain(ob, e), e.associated = ob.associated - 1,
         e.ops = ob.ops, e.skipped = ob.skipped, NEW v \in WNum, v.run = w.run,
         v.linked = w.linked - 1, v.ends = w.ends
  PROVE  ObjOK(o, e, v, c, h, p, s)
<1>1. CountPart(o, e, v, p)
  BY TypedIs DEF ObjOK, CountPart, Plain
<1>2. DeadPart(o, e, v, c, h, p) /\ LivePart(o, e, v, c, h, p)
  <2>1. Own(o, e) = Own(o, ob)
    BY DEF Own, Plain
  <2> QED
    BY <2>1 DEF ObjOK, DeadPart, LivePart, Unused, Enders, Plain
<1>3. UsePart(o, e, v, c, p, s)
  BY DEF ObjOK, UsePart, SimplePart, UserPart, GroupPart, IoPart, Plain
<1> QED
  BY <1>1, <1>2, <1>3 DEF ObjOK

(* Sums of six numbers. *)
Total(a, b, c, d, e, f) == a + b + c + d + e + f
Numbers(a, b, c, d, e, f) ==
    a \in Nat /\ b \in Nat /\ c \in Nat /\ d \in Nat /\ e \in Nat /\ f \in Nat

(* What is known of a number if the sum is small. *)
LEMMA TotalIs ==
  ASSUME NEW a, NEW b, NEW c, NEW d, NEW e, NEW f, Numbers(a, b, c, d, e, f)
  PROVE  LET n == Total(a, b, c, d, e, f) IN
         /\ n \in Nat /\ n = a + b + c + d + e + f
         /\ n = 1 /\ a > 0 => a = 1 /\ b = 0 /\ c = 0 /\ d = 0 /\ e = 0 /\ f = 0
         /\ n = 1 /\ c > 0 => a = 0 /\ b = 0 /\ c = 1 /\ d = 0 /\ e = 0 /\ f = 0
         /\ n = 1 /\ d > 0 => a = 0 /\ b = 0 /\ c = 0 /\ d = 1 /\ e = 0 /\ f = 0
         /\ n = 1 /\ e > 0 => a = 0 /\ b = 0 /\ c = 0 /\ d = 0 /\ e = 1 /\ f = 0
         /\ n = 1 /\ f > 0 => a = 0 /\ b = 0 /\ c = 0 /\ d = 0 /\ e = 0 /\ f = 1
         /\ n = 2 /\ a > 0 /\ e > 0 => a = 1 /\ b = 0 /\ c = 0 /\ d = 0 /\ e = 1 /\ f = 0
         /\ a > 0 \/ c > 0 \/ d > 0 \/ e > 0 \/ f > 0 => n > b
         /\ a > 0 /\ (c > 0 \/ e > 0) => n > 1
  BY DEF Total, Numbers

(* Facts about a live object, for the arithmetic. *)
Lively(o, ob, w, c, h, p) ==
    /\ Own(o, ob) \in Nat /\ Own(o, ob) \in {0, 1} /\ Posts(o, c) \in Nat /\ ob.pending \in Nat
    /\ w.run \in Nat /\ c.keep \in Nat /\ h \in Nat
    /\ ob.refcount = Own(o, ob) + ob.pending + w.run + Posts(o, c) + c.keep + h
    /\ Numbers(Own(o, ob), ob.pending, w.run, Posts(o, c), c.keep, h)
    /\ ob.refcount = Total(Own(o, ob), ob.pending, w.run, Posts(o, c), c.keep, h)
    /\ ob.refcount \in Nat /\ ob.refcount > 0 /\ w.ends = 0 /\ c.ends = 0 /\ p.ends = 0
    /\ Type[o] # "simple" /\ ob.shutdown = FALSE => Own(o, ob) = 1
    /\ ob.shutdown = TRUE => Own(o, ob) = 0
    /\ Type[o] = "simple" => Own(o, ob) = 0
    /\ Type[o] = "simple" => Posts(o, c) = c.sub + c.join + c.rel
    /\ Type[o] # "simple" => Posts(o, c) = 0

(* They hold. *)
LEMMA LiveIs ==
  ASSUME NEW o \in Objects, NEW ob, NEW w, NEW c, NEW h, NEW p, NEW s, Typed(ob, w, c, h, p, s),
         ObjOK(o, ob, w, c, h, p, s), ob.life = "live"
  PROVE  Lively(o, ob, w, c, h, p)
<1>1. Own(o, ob) \in Nat /\ Own(o, ob) \in {0, 1}
  BY DEF Own, One
<1>2. Posts(o, c) \in Nat /\ ob.pending \in Nat /\ w.run \in Nat /\ c.keep \in Nat /\ h \in Nat
  BY TypedIs DEF Posts, ObjOK, CountPart
<1>3. /\ ob.refcount = Own(o, ob) + ob.pending + w.run + Posts(o, c) + c.keep + h
      /\ ob.refcount \in Nat /\ ob.refcount > 0 /\ w.ends = 0 /\ c.ends = 0 /\ p.ends = 0
  BY TypedIs DEF ObjOK, LivePart, CountPart
<1>4. /\ Type[o] # "simple" /\ ob.shutdown = FALSE => Own(o, ob) = 1
      /\ ob.shutdown = TRUE => Own(o, ob) = 0
      /\ Type[o] = "simple" => Own(o, ob) = 0
  BY DEF ObjOK, LivePart, UsePart, SimplePart, Own, One
<1>5. /\ Type[o] = "simple" => Posts(o, c) = c.sub + c.join + c.rel
      /\ Type[o] # "simple" => Posts(o, c) = 0
  BY DEF Posts
<1> QED
  BY <1>1, <1>2, <1>3, <1>4, <1>5 DEF Lively, Total, Numbers

(* Who has a reference, or is in charge, finds the object alive. *)
LEMMA AliveIf ==
  ASSUME NEW o \in Objects, NEW ob, NEW w, NEW c, NEW h, NEW p, NEW s, Typed(ob, w, c, h, p, s),
         ObjOK(o, ob, w, c, h, p, s)
  PROVE  /\ w.run > 0 \/ ob.pending > 0 \/ c.keep > 0 \/ c.join > 0 \/ c.rel > 0 \/ c.sub > 0
              \/ (ob.owner # "none" /\ ob.shutdown = FALSE) \/ p.again = TRUE \/ s = TRUE
              \/ ob.refcount # 0 => ob.life = "live"
         /\ p.packets > 0 => ob.life = "live" /\ ob.shutdown = FALSE /\ Type[o] = "io"
         /\ ob.life # "dying" /\ h > 0 => ob.life = "live"
  BY TypedIs DEF ObjOK, DeadPart, Unused, CountPart, UsePart, UserPart, IoPart, Enders

(* The same, as facts about the fields. *)
Fields(ob, w, c, h, p, s) ==
    /\ ob.refcount \in Int /\ ob.pending \in Int /\ ob.running \in Int /\ ob.associated \in Int
    /\ ob.ops \in Int /\ ob.skipped \in Int /\ ob.posts \in Int /\ ob.signaled \in Int
    /\ ob.completions \in Int /\ ob.life \in {"none", "live", "dying", "gone"}
    /\ ob.owner \in {"none", "user", "group"}
    /\ ob.shutdown \in BOOLEAN /\ ob.grouped \in BOOLEAN /\ ob.member \in BOOLEAN
    /\ w.run \in Nat /\ w.linked \in Nat /\ w.ends \in Nat
    /\ c.sub \in Nat /\ c.join \in Nat /\ c.rel \in Nat /\ c.wait \in Nat /\ c.ends \in Nat
    /\ c.keep \in Nat /\ h \in Nat /\ p.ends \in Nat /\ p.packets \in Nat
    /\ p.again \in BOOLEAN /\ p.closes \in BOOLEAN /\ s \in BOOLEAN /\ w.linked <= w.run
CFields(d) ==
    /\ d.sub \in Nat /\ d.join \in Nat /\ d.rel \in Nat /\ d.wait \in Nat /\ d.ends \in Nat
    /\ d.keep \in Nat
PFields(q) == q.ends \in Nat /\ q.packets \in Nat /\ q.again \in BOOLEAN /\ q.closes \in BOOLEAN
(* They hold. *)
LEMMA FieldsAre ==
  ASSUME NEW o \in Objects, NEW ob, NEW w, NEW c, NEW h, NEW p, NEW s, Typed(ob, w, c, h, p, s),
         ObjOK(o, ob, w, c, h, p, s)
  PROVE  /\ Fields(ob, w, c, h, p, s)
         /\ ob.life = "live" => Lively(o, ob, w, c, h, p)
<1>1. Fields(ob, w, c, h, p, s)
  BY TypedIs DEF Fields
<1>2. ob.life = "live" => Lively(o, ob, w, c, h, p)
  BY LiveIs
<1> QED
  BY <1>1, <1>2

(* And for the numbers of callers and packets. *)
LEMMA NumFields ==
  /\ \A d \in CNum : CFields(d)
  /\ \A q \in PNum : PFields(q)
  BY DEF CNum, PNum, CFields, PFields

(* A callback is submitted. *)
SubmittedTo(ob, e) ==
    /\ e \in ObjRec /\ e.life = ob.life /\ e.refcount = ob.refcount + 1 /\ e.owner = ob.owner
    /\ e.shutdown = ob.shutdown /\ e.grouped = ob.grouped /\ e.member = ob.member
    /\ e.pending = ob.pending + 1 /\ e.running = ob.running /\ e.associated = ob.associated
    /\ e.skipped = ob.skipped

(* It is, for an object that has an owner: by the owner, a callback or a    *)
(* service thread.                                                          *)
LEMMA SubmitsOK ==
  ASSUME NEW o \in Objects, NEW ob, NEW w, NEW c, NEW h, NEW p, NEW s, Typed(ob, w, c, h, p, s),
         ObjOK(o, ob, w, c, h, p, s), ob.life = "live", Type[o] # "simple", NEW e, SubmittedTo(ob, e),
         e.ops \in 0..ob.ops, e.posts >= 0, e.signaled >= 0, e.completions >= ob.completions,
         Type[o] = "io" => e.completions = ob.completions + 1,
         NEW d \in CNum, d.sub <= c.sub, d.join = c.join, d.rel = c.rel, d.wait = c.wait,
         d.ends = c.ends, d.keep = c.keep,
         NEW q \in PNum, q.ends = p.ends, q.closes = p.closes, q.packets <= e.ops + e.skipped,
         q.again = TRUE => Type[o] = "io" /\ ob.shutdown = FALSE
  PROVE  ObjOK(o, e, w, d, h, q, s)
<1>f. Fields(ob, w, c, h, p, s) /\ Lively(o, ob, w, c, h, p) /\ CFields(d) /\ PFields(q)
  BY FieldsAre, NumFields
<1>g. /\ CountPart(o, ob, w, p) /\ LivePart(o, ob, w, c, h, p) /\ SimplePart(o, ob, w, c, s)
      /\ UserPart(o, ob, c, p, s) /\ GroupPart(o, ob, c) /\ IoPart(o, ob, p)
  BY DEF ObjOK, UsePart
<1>h. e.completions \in Int
  BY DEF SubmittedTo, ObjRec
<1>1. CountPart(o, e, w, q)
  BY <1>f, <1>g, <1>h DEF CountPart, SubmittedTo, Fields
<1>2. DeadPart(o, e, w, d, h, q)
  BY DEF DeadPart, SubmittedTo
<1>3. LivePart(o, e, w, d, h, q)
  <2>1. Own(o, e) = Own(o, ob) /\ Posts(o, d) = 0 /\ Posts(o, c) = 0
    BY DEF Own, SubmittedTo, Posts
  <2>2. e.refcount = Own(o, e) + e.pending + w.run + Posts(o, d) + d.keep + h
    BY <1>f, <2>1 DEF SubmittedTo, Lively
  <2>3. e.refcount > 0
    BY <1>f DEF SubmittedTo, Lively
  <2> QED
    BY <1>f, <1>g, <2>2, <2>3 DEF LivePart, SubmittedTo, Lively
<1>4. SimplePart(o, e, w, d, s)
  BY <1>f, <1>g DEF SimplePart, SubmittedTo
<1>5. UserPart(o, e, d, q, s)
  BY <1>f, <1>g DEF UserPart, SubmittedTo, Fields, CFields
<1>6. GroupPart(o, e, d)
  BY <1>g DEF GroupPart, SubmittedTo
<1>7. IoPart(o, e, q)
  <2>1. e.ops \in 0..ob.ops /\ ob.ops \in Int
    BY <1>f DEF Fields
  <2>2. ob.ops = 0 => e.ops = 0
    BY ONLY <2>1
  <2> QED
    BY <1>g, <2>2 DEF IoPart, SubmittedTo
<1> QED
  BY <1>1, <1>2, <1>3, <1>4, <1>5, <1>6, <1>7 DEF ObjOK, UsePart

(* It is, by TpSimpleTryPost. *)
LEMMA SimpleSubmitsOK ==
  ASSUME NEW o \in Objects, NEW ob, NEW w, NEW c, NEW h, NEW p, NEW s, Typed(ob, w, c, h, p, s),
         ObjOK(o, ob, w, c, h, p, s), Type[o] = "simple", c.sub > 0, NEW e, SubmittedTo(ob, e),
         e.ops = ob.ops, e.posts = ob.posts, e.signaled = ob.signaled, e.completions = ob.completions,
         NEW d \in CNum, d.sub = c.sub - 1, d.wait = c.wait, d.ends = c.ends, d.keep = c.keep,
         ob.grouped = TRUE => d.join = c.join + 1 /\ d.rel = c.rel,
         ob.grouped # TRUE => d.join = c.join /\ d.rel = c.rel + 1
  PROVE  ObjOK(o, e, w, d, h, p, s)
<1>0. ob.life = "live"
  BY AliveIf
<1>f. Fields(ob, w, c, h, p, s) /\ Lively(o, ob, w, c, h, p) /\ CFields(d)
  BY <1>0, FieldsAre, NumFields
<1>g. /\ CountPart(o, ob, w, p) /\ LivePart(o, ob, w, c, h, p) /\ SimplePart(o, ob, w, c, s)
      /\ UserPart(o, ob, c, p, s) /\ GroupPart(o, ob, c) /\ IoPart(o, ob, p)
  BY DEF ObjOK, UsePart
<1>1. CountPart(o, e, w, p)
  BY <1>f, <1>g DEF CountPart, SubmittedTo, Fields
<1>2. DeadPart(o, e, w, d, h, p)
  BY <1>0 DEF DeadPart, SubmittedTo
<1>3. LivePart(o, e, w, d, h, p)
  <2>1. Own(o, e) = Own(o, ob) /\ Posts(o, d) = d.sub + d.join + d.rel
    BY DEF Own, SubmittedTo, Posts
  <2>2. d.sub + d.join + d.rel = c.sub + c.join + c.rel
    <3>1. /\ c.sub \in Nat /\ c.join \in Nat /\ c.rel \in Nat
          /\ d.sub = c.sub - 1
          /\ (d.join = c.join + 1 /\ d.rel = c.rel) \/ (d.join = c.join /\ d.rel = c.rel + 1)
      BY <1>f DEF Fields
    <3> QED
      BY ONLY <3>1
  <2>3. e.refcount = Own(o, e) + e.pending + w.run + Posts(o, d) + d.keep + h
    BY <1>f, <2>1, <2>2 DEF SubmittedTo, Lively
  <2>4. e.pending > 0 /\ e.refcount > 0
    BY <1>f DEF SubmittedTo, Lively
  <2> QED
    BY <1>f, <2>3, <2>4 DEF LivePart, Lively
<1>4. SimplePart(o, e, w, d, s)
  BY <1>f, <1>g DEF SimplePart, SubmittedTo, Fields, CFields
<1>5. UserPart(o, e, d, p, s)
  BY <1>f, <1>g DEF UserPart, SubmittedTo, Fields
<1>6. GroupPart(o, e, d)
  <2>1. c.join = 0 /\ c.keep = 0 /\ ob.member = FALSE
    BY <1>g DEF SimplePart
  <2>2. d.join > 0 => ob.grouped = TRUE /\ d.join = 1
    <3>1. (ob.grouped = TRUE /\ d.join = c.join + 1) \/ d.join = c.join
      OBVIOUS
    <3> QED
      BY ONLY <2>1, <3>1
  <2>3. d.keep = 0
    BY <2>1
  <2> QED
    BY ONLY <1>g, <2>1, <2>2, <2>3, SubmittedTo(ob, e), Type[o] = "simple" DEF GroupPart, SubmittedTo
<1>7. IoPart(o, e, p)
  BY <1>g DEF IoPart, SubmittedTo
<1> QED
  BY <1>1, <1>2, <1>3, <1>4, <1>5, <1>6, <1>7 DEF ObjOK, UsePart

(* An object is allocated. *)
InitializedTo(o, e, grp) ==
    /\ e \in ObjRec /\ e.life = "live" /\ e.refcount = 1 /\ e.grouped = grp
    /\ e.shutdown = FALSE /\ e.pending = 0 /\ e.running = 0 /\ e.associated = 0
    /\ e.signaled = 0 /\ e.ops = 0 /\ e.skipped = 0 /\ e.completions = 0 /\ e.posts = 0
    /\ Type[o] = "simple" => e.member = FALSE /\ e.owner = "none"
    /\ Type[o] # "simple" => e.member = grp /\ e.owner = "user"

(* The numbers of callers and the place in a queue with that. *)
BeginsWith(o, c, d, r) ==
    /\ d \in CNum /\ (Type[o] = "simple" => d.sub = c.sub + 1) /\ (Type[o] # "simple" => d.sub = c.sub)
    /\ d.join = c.join /\ d.rel = c.rel /\ d.wait = c.wait /\ d.ends = c.ends /\ d.keep = c.keep
    /\ r \in BOOLEAN /\ (Type[o] = "simple" => r = FALSE)
AllocatedTo(o, e) == \E grp \in BOOLEAN : InitializedTo(o, e, grp) /\ (Type[o] = "io" => grp = FALSE)

(* It has one reference: that of the owner, or of TpSimpleTryPost. *)
LEMMA AllocatesOK ==
  ASSUME NEW o \in Objects, NEW ob, NEW w, NEW c, NEW h, NEW p, NEW s, Typed(ob, w, c, h, p, s),
         ObjOK(o, ob, w, c, h, p, s), ob.life = "none", NEW e, AllocatedTo(o, e),
         NEW d, NEW r, BeginsWith(o, c, d, r)
  PROVE  ObjOK(o, e, w, d, h, p, r)
<1>g. PICK grp \in BOOLEAN : InitializedTo(o, e, grp) /\ (Type[o] = "io" => grp = FALSE)
  BY DEF AllocatedTo
<1>h. /\ d \in CNum /\ (Type[o] = "simple" => d.sub = c.sub + 1) /\ (Type[o] # "simple" => d.sub = c.sub)
      /\ d.join = c.join /\ d.rel = c.rel /\ d.wait = c.wait /\ d.ends = c.ends /\ d.keep = c.keep
      /\ r \in BOOLEAN /\ (Type[o] = "simple" => r = FALSE)
  BY DEF BeginsWith
<1>f. Fields(ob, w, c, h, p, s) /\ CFields(d)
  BY <1>h, FieldsAre, NumFields
<1>a. /\ Unused(ob, w, c) /\ w.ends + c.ends + p.ends + h = 0 /\ p.closes = FALSE
      /\ ob.owner = "none" /\ ob.ops = 0 /\ ob.skipped = 0
  BY <1>g, <1>h DEF ObjOK, DeadPart, Enders
<1>b. h = 0 /\ w.ends = 0 /\ c.ends = 0 /\ p.ends = 0
  <2>1. w.ends \in Nat /\ c.ends \in Nat /\ p.ends \in Nat /\ h \in Nat
    BY <1>f, <1>g, <1>h DEF Fields
  <2>2. w.ends + c.ends + p.ends + h = 0
    BY <1>a
  <2>3. \A i, j, k, l \in Nat : i + j + k + l = 0 => i = 0 /\ j = 0 /\ k = 0 /\ l = 0
    OBVIOUS
  <2> QED
    BY ONLY <2>1, <2>2, <2>3, Zenon
<1>c. c.wait = 0 /\ s = FALSE /\ p.again = FALSE
  BY <1>f, <1>a, <1>g, <1>h DEF Fields, ObjOK, UsePart, UserPart, IoPart
<1>d. p.packets = 0 /\ w.linked = 0
  BY <1>f, <1>a, <1>g, <1>h DEF Fields, ObjOK, CountPart, Unused
<1>1. /\ w.run = 0 /\ c.sub = 0 /\ c.join = 0 /\ c.rel = 0 /\ c.keep = 0
  BY <1>a, <1>g, <1>h DEF Unused
<1>2. CountPart(o, e, w, p)
  BY <1>1, <1>d, <1>g, <1>h DEF CountPart, InitializedTo
<1>3. DeadPart(o, e, w, d, h, p)
  BY <1>g, <1>h DEF DeadPart, InitializedTo
<1>4. LivePart(o, e, w, d, h, p)
  <2>1. CASE Type[o] = "simple"
    <3>1. Own(o, e) = 0 /\ Posts(o, d) = 1 /\ d.sub = 1
      BY <1>1, <2>1, <1>g, <1>h DEF Own, One, InitializedTo, Posts
    <3> QED
      BY <1>1, <1>b, <2>1, <3>1, <1>g, <1>h DEF LivePart, InitializedTo
  <2>2. CASE Type[o] # "simple"
    <3>1. Own(o, e) = 1 /\ Posts(o, d) = 0
      BY <1>1, <2>2, <1>g, <1>h DEF Own, One, InitializedTo, Posts
    <3> QED
      BY <1>1, <1>b, <2>2, <3>1, <1>g, <1>h DEF LivePart, InitializedTo
  <2> QED
    BY <2>1, <2>2
<1>5. UsePart(o, e, w, d, p, r)
  BY <1>1, <1>a, <1>c, <1>g, <1>h DEF UsePart, SimplePart, UserPart, GroupPart, IoPart, InitializedTo
<1> QED
  BY <1>2, <1>3, <1>4, <1>5, <1>g, <1>h DEF ObjOK


(* A simple object joins the group. *)
JoinedTo(ob, e, m) ==
    /\ e \in ObjRec /\ e.life = ob.life /\ e.refcount = ob.refcount /\ e.owner = ob.owner
    /\ e.shutdown = ob.shutdown /\ e.grouped = ob.grouped /\ e.member = m
    /\ e.pending = ob.pending /\ e.running = ob.running /\ e.associated = ob.associated
    /\ e.signaled = ob.signaled /\ e.ops = ob.ops /\ e.skipped = ob.skipped
    /\ e.completions = ob.completions /\ e.posts = ob.posts

(* It does. *)
LEMMA JoinOK ==
  ASSUME NEW o \in Objects, NEW ob, NEW w, NEW c, NEW h, NEW p, NEW s, Typed(ob, w, c, h, p, s),
         ObjOK(o, ob, w, c, h, p, s), c.join > 0, NEW e, JoinedTo(ob, e, TRUE),
         NEW d \in CNum, d.sub = c.sub, d.join = c.join - 1, d.rel = c.rel + 1, d.wait = c.wait,
         d.ends = c.ends, d.keep = c.keep
  PROVE  ObjOK(o, e, w, d, h, p, s)
<1>0. ob.life = "live"
  BY AliveIf
<1>f. Fields(ob, w, c, h, p, s) /\ Lively(o, ob, w, c, h, p) /\ CFields(d)
  BY <1>0, FieldsAre, NumFields
<1>g. /\ CountPart(o, ob, w, p) /\ LivePart(o, ob, w, c, h, p) /\ SimplePart(o, ob, w, c, s)
      /\ UserPart(o, ob, c, p, s) /\ GroupPart(o, ob, c) /\ IoPart(o, ob, p)
  BY DEF ObjOK, UsePart
<1>a. Type[o] = "simple" /\ c.sub = 0 /\ c.join = 1 /\ c.keep = 0 /\ ob.grouped = TRUE
  BY <1>f, <1>g DEF SimplePart, GroupPart, Fields
<1>1. CountPart(o, e, w, p)
  BY <1>g DEF CountPart, JoinedTo
<1>2. DeadPart(o, e, w, d, h, p)
  BY <1>0 DEF DeadPart, JoinedTo
<1>3. LivePart(o, e, w, d, h, p)
  <2>1. Own(o, e) = Own(o, ob) /\ Posts(o, d) = d.sub + d.join + d.rel
    BY <1>a DEF Own, JoinedTo, Posts
  <2>2. Posts(o, d) = Posts(o, c)
    BY <1>f, <1>a, <2>1 DEF Fields, Posts
  <2> QED
    BY <1>g, <1>a, <2>1, <2>2 DEF LivePart, JoinedTo
<1>4. UsePart(o, e, w, d, p, s)
  <2>1. SimplePart(o, e, w, d, s)
    BY <1>g, <1>a DEF SimplePart, JoinedTo
  <2>2. UserPart(o, e, d, p, s)
    BY <1>g, <1>a DEF UserPart, JoinedTo
  <2>3. GroupPart(o, e, d)
    BY <1>g, <1>a DEF GroupPart, JoinedTo
  <2>4. IoPart(o, e, p)
    BY <1>g DEF IoPart, JoinedTo
  <2> QED
    BY <2>1, <2>2, <2>3, <2>4 DEF UsePart
<1> QED
  BY <1>1, <1>2, <1>3, <1>4 DEF ObjOK

(* An object is taken off the list of members. *)
LEMMA UntakenOK ==
  ASSUME NEW o \in Objects, NEW ob, NEW w, NEW c, NEW h, NEW p, NEW s, Typed(ob, w, c, h, p, s),
         ObjOK(o, ob, w, c, h, p, s), NEW e, JoinedTo(ob, e, FALSE)
  PROVE  ObjOK(o, e, w, c, h, p, s)
<1>1. Own(o, e) = Own(o, ob)
  BY DEF Own, JoinedTo
<1>2. CountPart(o, e, w, p)
  BY DEF ObjOK, CountPart, JoinedTo
<1>3. DeadPart(o, e, w, c, h, p)
  BY DEF ObjOK, DeadPart, JoinedTo, Unused
<1>4. LivePart(o, e, w, c, h, p)
  BY <1>1 DEF ObjOK, LivePart, JoinedTo
<1>5. UsePart(o, e, w, c, p, s)
  BY DEF ObjOK, UsePart, SimplePart, UserPart, GroupPart, IoPart, JoinedTo
<1> QED
  BY <1>2, <1>3, <1>4, <1>5 DEF ObjOK

(* TpSimpleTryPost gives its reference back. *)
LEMMA SimpleReleaseOK ==
  ASSUME NEW o \in Objects, NEW ob, NEW w, NEW c, NEW h, NEW p, NEW s, Typed(ob, w, c, h, p, s),
         ObjOK(o, ob, w, c, h, p, s), c.rel > 0, NEW e, GivenBack(ob, e, 1),
         NEW d \in CNum, d.sub = c.sub, d.join = c.join, d.rel = c.rel - 1, d.wait = c.wait,
         d.ends = c.ends + One(ob.refcount = 1), d.keep = c.keep
  PROVE  ObjOK(o, e, w, d, h, p, s)
<1>0. ob.life = "live"
  BY AliveIf
<1>f. Fields(ob, w, c, h, p, s) /\ Lively(o, ob, w, c, h, p) /\ CFields(d)
  BY <1>0, FieldsAre, NumFields
<1>g. /\ CountPart(o, ob, w, p) /\ LivePart(o, ob, w, c, h, p) /\ SimplePart(o, ob, w, c, s)
      /\ UserPart(o, ob, c, p, s) /\ GroupPart(o, ob, c) /\ IoPart(o, ob, p)
  BY DEF ObjOK, UsePart
<1>a. Type[o] = "simple" /\ Own(o, ob) = 0 /\ Posts(o, c) = c.sub + c.join + c.rel
  BY <1>f, <1>g DEF SimplePart, Fields, Lively
<1>b. ob.refcount = ob.pending + w.run + (c.sub + c.join + c.rel) + c.keep + h
  BY <1>f, <1>a DEF Lively, Fields
<1>c. /\ c.sub \in Nat /\ c.join \in Nat /\ c.rel \in Nat /\ c.rel > 0 /\ ob.pending \in Nat
      /\ w.run \in Nat /\ c.keep \in Nat /\ h \in Nat /\ ob.refcount \in Nat /\ ob.refcount > 0
  BY <1>f DEF Fields, Lively
<1>1. CountPart(o, e, w, p)
  BY <1>c, <1>g DEF CountPart, GivenBack
<1>2. UsePart(o, e, w, d, p, s)
  <2>1. SimplePart(o, e, w, d, s)
    BY <1>f, <1>g, <1>a DEF SimplePart, GivenBack
  <2>2. UserPart(o, e, d, p, s)
    BY <1>g, <1>a DEF UserPart, GivenBack
  <2>3. GroupPart(o, e, d)
    BY <1>g, <1>a DEF GroupPart, GivenBack
  <2>4. IoPart(o, e, p)
    BY <1>g, <1>a DEF IoPart, GivenBack
  <2> QED
    BY <2>1, <2>2, <2>3, <2>4 DEF UsePart
<1>3. CASE ob.refcount = 1
  <2>1. ob.pending = 0 /\ w.run = 0 /\ c.sub = 0 /\ c.join = 0 /\ c.rel = 1 /\ c.keep = 0 /\ h = 0
    <3>1. Posts(o, c) > 0
      BY <1>a, <1>c
    <3>2. ob.pending = 0 /\ w.run = 0 /\ Posts(o, c) = 1 /\ c.keep = 0 /\ h = 0
      BY <1>f, <1>3, <3>1, TotalIs DEF Lively
    <3>3. c.sub = 0 /\ c.join = 0 /\ c.rel = 1
      BY ONLY <1>a, <1>c, <3>2
    <3> QED
      BY <3>2, <3>3
  <2>2. ob.shutdown = TRUE
    BY <1>0, <1>f, <1>g, <1>a, <2>1 DEF LivePart, Fields
  <2>3. d.ends = 1 /\ w.ends = 0 /\ p.ends = 0
    BY <1>3, <1>f DEF One, Lively
  <2>4. e.life = "dying" /\ e.refcount = 0
    BY <1>3 DEF GivenBack
  <2>5. Unused(e, w, d)
    <3>1. d.sub = 0 /\ d.join = 0 /\ d.rel = 0 /\ d.keep = 0
      BY <2>1
    <3>2. e.pending = 0
      BY <2>1 DEF GivenBack
    <3> QED
      BY <2>1, <2>4, <3>1, <3>2 DEF Unused
  <2>6. Enders(w, d, h, p) = 1
    BY <2>1, <2>3 DEF Enders
  <2>7. DeadPart(o, e, w, d, h, p) /\ LivePart(o, e, w, d, h, p)
    BY <2>2, <2>4, <2>5, <2>6 DEF DeadPart, LivePart, GivenBack
  <2> QED
    BY <1>1, <1>2, <2>7 DEF ObjOK
<1>4. CASE ob.refcount # 1
  <2>1. e.life = "live" /\ d.ends = 0
    BY <1>0, <1>f, <1>4 DEF GivenBack, One, Lively
  <2>2. DeadPart(o, e, w, d, h, p)
    BY <2>1 DEF DeadPart
  <2>3. Own(o, e) = 0 /\ Posts(o, d) = c.sub + c.join + (c.rel - 1)
    BY <1>a DEF Own, GivenBack, Posts
  <2>4. /\ e.refcount = ob.refcount - 1 /\ e.pending = ob.pending /\ d.keep = c.keep
    BY DEF GivenBack
  <2>5. e.refcount = Own(o, e) + e.pending + w.run + Posts(o, d) + d.keep + h /\ e.refcount > 0
    BY ONLY <1>b, <1>c, <1>4, <2>3, <2>4
  <2>6. LivePart(o, e, w, d, h, p)
    BY <1>0, <1>f, <1>g, <1>a, <2>1, <2>5 DEF LivePart, GivenBack, Lively
  <2> QED
    BY <1>1, <1>2, <2>2, <2>6 DEF ObjOK
<1> QED
  BY <1>3, <1>4


(* The callbacks of an object are cancelled. *)
ForgottenTo(ob, e) ==
    /\ e \in ObjRec /\ e.refcount = ob.refcount - ob.pending
    /\ ob.refcount = ob.pending => e.life = "dying"
    /\ ob.refcount # ob.pending => e.life = ob.life
    /\ e.owner = ob.owner /\ e.shutdown = ob.shutdown /\ e.grouped = ob.grouped
    /\ e.member = ob.member /\ e.pending = 0 /\ e.running = ob.running
    /\ e.associated = ob.associated /\ e.signaled = 0 /\ e.ops = 0
    /\ e.skipped = ob.skipped + ob.ops /\ e.completions = ob.completions /\ e.posts = ob.posts
SameButWait(c, d) ==
    /\ d \in CNum /\ d.sub = c.sub /\ d.join = c.join /\ d.rel = c.rel
    /\ d.ends = c.ends /\ d.keep = c.keep

(* Whoever cancels has a reference: that of the owner, or of the group.     *)
LEMMA CancelOK ==
  ASSUME NEW o \in Objects, NEW ob, NEW w, NEW c, NEW h, NEW p, NEW s, Typed(ob, w, c, h, p, s),
         ObjOK(o, ob, w, c, h, p, s), NEW e, ForgottenTo(ob, e),
         (ob.owner = "user" /\ ob.shutdown = FALSE) \/ c.keep > 0,
         NEW d, SameButWait(c, d), d.wait > 0 => ob.owner = "user" /\ ob.shutdown = FALSE
  PROVE  ObjOK(o, e, w, d, h, p, s)
<1>0. ob.life = "live"
  BY AliveIf
<1>f. Fields(ob, w, c, h, p, s) /\ Lively(o, ob, w, c, h, p) /\ CFields(d)
  BY <1>0, FieldsAre, NumFields DEF SameButWait
<1>g. /\ CountPart(o, ob, w, p) /\ LivePart(o, ob, w, c, h, p) /\ SimplePart(o, ob, w, c, s)
      /\ UserPart(o, ob, c, p, s) /\ GroupPart(o, ob, c) /\ IoPart(o, ob, p)
  BY DEF ObjOK, UsePart
<1>a. ob.owner = "user" /\ ob.shutdown = FALSE => Own(o, ob) = 1 /\ Type[o] # "simple"
  BY <1>f, <1>g DEF SimplePart, Lively
<1>b. ob.refcount > ob.pending
  BY <1>f, <1>a, TotalIs DEF Lively
<1>c. e.life = "live" /\ Own(o, e) = Own(o, ob) /\ Posts(o, d) = Posts(o, c)
  BY <1>0, <1>b, <1>f DEF ForgottenTo, Own, Posts, SameButWait, Lively
<1>1. CountPart(o, e, w, p)
  BY <1>b, <1>f, <1>g DEF CountPart, ForgottenTo, Fields
<1>2. DeadPart(o, e, w, d, h, p)
  BY <1>c DEF DeadPart
<1>3. LivePart(o, e, w, d, h, p)
  <2>1. e.refcount = ob.refcount - ob.pending /\ e.pending = 0 /\ d.keep = c.keep
    BY DEF ForgottenTo, SameButWait
  <2>2. /\ Own(o, ob) \in Nat /\ ob.pending \in Nat /\ w.run \in Nat /\ Posts(o, c) \in Nat
        /\ c.keep \in Nat /\ h \in Nat
        /\ ob.refcount = Own(o, ob) + ob.pending + w.run + Posts(o, c) + c.keep + h
    BY <1>f DEF Lively
  <2>3. /\ e.refcount = Own(o, e) + e.pending + w.run + Posts(o, d) + d.keep + h
        /\ e.refcount > 0
    BY ONLY <1>b, <1>c, <2>1, <2>2
  <2>4. w.ends = 0 /\ d.ends = 0 /\ p.ends = 0
    BY <1>f DEF Lively, SameButWait
  <2>5. e.shutdown = FALSE /\ Type[o] \notin {"simple", "io"} => e.owner # "none"
    BY <1>0, <1>g DEF LivePart, ForgottenTo
  <2>6. Type[o] = "simple" => d.keep > 0
    BY <1>a DEF SameButWait
  <2> QED
    BY <2>3, <2>4, <2>5, <2>6 DEF LivePart
<1>4. UsePart(o, e, w, d, p, s)
  <2>1. SimplePart(o, e, w, d, s)
    BY <1>f, <1>g, <1>a DEF SimplePart, ForgottenTo, SameButWait, CFields
  <2>2. UserPart(o, e, d, p, s)
    BY <1>g DEF UserPart, ForgottenTo, SameButWait
  <2>3. GroupPart(o, e, d)
    BY <1>g DEF GroupPart, ForgottenTo, SameButWait
  <2>4. IoPart(o, e, p)
    BY <1>0, <1>c, <1>g DEF IoPart, ForgottenTo
  <2> QED
    BY <2>1, <2>2, <2>3, <2>4 DEF UsePart
<1> QED
  BY <1>1, <1>2, <1>3, <1>4 DEF ObjOK

(* The program calls for an object it has: it waits, or submits a timer.    *)
LEMMA CallsOK ==
  ASSUME NEW o \in Objects, NEW ob, NEW w, NEW c, NEW h, NEW p, NEW s, Typed(ob, w, c, h, p, s),
         ObjOK(o, ob, w, c, h, p, s), Type[o] # "simple",
         NEW d \in CNum, d.join = c.join, d.rel = c.rel, d.ends = c.ends, d.keep = c.keep,
         d.wait > 0 => ob.owner = "user" /\ ob.shutdown = FALSE,
         d.sub > 0 => Type[o] = "timer" /\ ob.owner = "user" /\ ob.shutdown = FALSE
  PROVE  ObjOK(o, ob, w, d, h, p, s)
<1>f. Fields(ob, w, c, h, p, s) /\ CFields(d)
  BY FieldsAre, NumFields
<1>g. /\ CountPart(o, ob, w, p) /\ LivePart(o, ob, w, c, h, p) /\ SimplePart(o, ob, w, c, s)
      /\ UserPart(o, ob, c, p, s) /\ GroupPart(o, ob, c) /\ IoPart(o, ob, p)
      /\ DeadPart(o, ob, w, c, h, p)
  BY DEF ObjOK, UsePart
<1>a. Posts(o, c) = 0 /\ Posts(o, d) = 0
  BY DEF Posts
<1>b. ob.shutdown = TRUE \/ ob.owner = "none" => d.sub = 0
  BY <1>f DEF CFields
<1>1. DeadPart(o, ob, w, d, h, p)
  BY <1>b, <1>g DEF DeadPart, Unused, Enders
<1>2. LivePart(o, ob, w, d, h, p)
  BY <1>a, <1>g DEF LivePart
<1>3. UsePart(o, ob, w, d, p, s)
  BY <1>g DEF UsePart, SimplePart, UserPart, GroupPart
<1> QED
  BY <1>g, <1>1, <1>2, <1>3 DEF ObjOK

(* The owner releases the object. *)
LEMMA ReleaseOK ==
  ASSUME NEW o \in Objects, NEW ob, NEW w, NEW c, NEW h, NEW p, NEW s, Typed(ob, w, c, h, p, s),
         ObjOK(o, ob, w, c, h, p, s), NEW e, ReleasedIs(ob, e, 1, "none"), ob.owner = "user",
         ob.shutdown = FALSE, c.sub = 0, c.wait = 0,
         NEW d \in CNum, d.sub = c.sub, d.join = c.join, d.rel = c.rel, d.wait = c.wait,
         d.ends = c.ends + One(ob.refcount = 1), d.keep = c.keep,
         NEW q \in PNum, q.ends = p.ends, q.packets = p.packets, q.again = p.again,
         Type[o] = "io" => ob.ops = 0 /\ ob.skipped = 0 /\ p.again = FALSE
  PROVE  ObjOK(o, e, w, d, h, q, FALSE)
<1>0. ob.life = "live"
  BY AliveIf
<1>f. Fields(ob, w, c, h, p, s) /\ Lively(o, ob, w, c, h, p) /\ CFields(d) /\ PFields(q)
  BY <1>0, FieldsAre, NumFields
<1>g. /\ CountPart(o, ob, w, p) /\ LivePart(o, ob, w, c, h, p) /\ SimplePart(o, ob, w, c, s)
      /\ UserPart(o, ob, c, p, s) /\ GroupPart(o, ob, c) /\ IoPart(o, ob, p)
  BY DEF ObjOK, UsePart
<1>a. /\ Type[o] # "simple" /\ c.join = 0 /\ c.rel = 0 /\ Own(o, ob) = 1 /\ Posts(o, c) = 0
      /\ p.again = FALSE
  BY <1>f, <1>g DEF SimplePart, Lively, IoPart, Fields
<1>1. CountPart(o, e, w, q)
  BY <1>f, <1>g DEF CountPart, ReleasedIs, Lively, Fields
<1>2. UsePart(o, e, w, d, q, FALSE)
  <2>1. SimplePart(o, e, w, d, FALSE)
    BY <1>a DEF SimplePart
  <2>2. UserPart(o, e, d, q, FALSE)
    BY <1>g DEF UserPart, ReleasedIs
  <2>3. GroupPart(o, e, d)
    BY <1>g, <1>a DEF GroupPart, ReleasedIs
  <2>4. IoPart(o, e, q)
    BY <1>a, <1>g DEF IoPart, ReleasedIs
  <2> QED
    BY <2>1, <2>2, <2>3, <2>4 DEF UsePart
<1>3. CASE ob.refcount = 1
  <2>1. ob.pending = 0 /\ w.run = 0 /\ c.keep = 0 /\ h = 0
    BY <1>f, <1>a, <1>3, TotalIs DEF Lively
  <2>2. d.ends = 1 /\ w.ends = 0 /\ q.ends = 0
    BY <1>3, <1>f DEF One, Lively
  <2>3. e.life = "dying" /\ e.refcount = 0 /\ e.pending = 0
    BY <1>3, <2>1 DEF ReleasedIs
  <2>4. Unused(e, w, d)
    BY <1>a, <2>1, <2>3 DEF Unused
  <2>5. Enders(w, d, h, q) = 1
    BY <2>1, <2>2 DEF Enders
  <2>6. DeadPart(o, e, w, d, h, q) /\ LivePart(o, e, w, d, h, q)
    BY <2>3, <2>4, <2>5 DEF DeadPart, LivePart, ReleasedIs
  <2> QED
    BY <1>1, <1>2, <2>6 DEF ObjOK
<1>4. CASE ob.refcount # 1
  <2>1. e.life = "live" /\ d.ends = 0
    BY <1>0, <1>f, <1>4 DEF ReleasedIs, One, Lively
  <2>2. DeadPart(o, e, w, d, h, q)
    BY <2>1 DEF DeadPart
  <2>3. Own(o, e) = 0 /\ Posts(o, d) = 0
    BY <1>a DEF Own, ReleasedIs, Posts, One
  <2>4. /\ e.refcount = ob.refcount - 1 /\ e.pending = ob.pending /\ d.keep = c.keep
    BY DEF ReleasedIs
  <2>5. /\ ob.pending \in Nat /\ w.run \in Nat /\ c.keep \in Nat /\ h \in Nat
        /\ ob.refcount \in Nat /\ ob.refcount > 0
        /\ ob.refcount = Own(o, ob) + ob.pending + w.run + Posts(o, c) + c.keep + h
    BY <1>f DEF Lively
  <2>6. e.refcount = Own(o, e) + e.pending + w.run + Posts(o, d) + d.keep + h /\ e.refcount > 0
    BY ONLY <1>a, <1>4, <2>3, <2>4, <2>5
  <2>7. LivePart(o, e, w, d, h, q)
    BY <1>f, <2>1, <2>6 DEF LivePart, ReleasedIs, Lively
  <2> QED
    BY <1>1, <1>2, <2>2, <2>7 DEF ObjOK
<1> QED
  BY <1>3, <1>4

(* A callback releases its own object. *)
LEMMA CallbackReleaseOK ==
  ASSUME NEW o \in Objects, NEW ob, NEW w, NEW c, NEW h, NEW p, NEW s, Typed(ob, w, c, h, p, s),
         ObjOK(o, ob, w, c, h, p, s), w.run > 0, ob.owner # "none", Type[o] # "io",
         ob.shutdown = FALSE, c.sub = 0, c.wait = 0,
         NEW own \in {"none", "group"}, NEW e, ReleasedIs(ob, e, 1, own)
  PROVE  ObjOK(o, e, w, c, h, p, FALSE)
<1>0. ob.life = "live"
  BY AliveIf
<1>f. Fields(ob, w, c, h, p, s) /\ Lively(o, ob, w, c, h, p)
  BY <1>0, FieldsAre
<1>g. /\ CountPart(o, ob, w, p) /\ LivePart(o, ob, w, c, h, p) /\ SimplePart(o, ob, w, c, s)
      /\ UserPart(o, ob, c, p, s) /\ GroupPart(o, ob, c) /\ IoPart(o, ob, p)
  BY DEF ObjOK, UsePart
<1>a. /\ Type[o] # "simple" /\ c.join = 0 /\ c.rel = 0 /\ Own(o, ob) = 1 /\ Posts(o, c) = 0
      /\ p.again = FALSE /\ p.closes = FALSE
  BY <1>f, <1>g DEF SimplePart, Lively, IoPart, Fields, UserPart
<1>b. ob.refcount > 1
  BY <1>f, <1>a, TotalIs DEF Lively
<1>1. CountPart(o, e, w, p)
  BY <1>b, <1>f, <1>g DEF CountPart, ReleasedIs, Lively, Fields
<1>2. UsePart(o, e, w, c, p, FALSE)
  <2>1. SimplePart(o, e, w, c, FALSE)
    BY <1>a DEF SimplePart
  <2>2. UserPart(o, e, c, p, FALSE)
    BY <1>a DEF UserPart
  <2>3. GroupPart(o, e, c)
    BY <1>g, <1>a DEF GroupPart, ReleasedIs
  <2>4. IoPart(o, e, p)
    BY <1>a, <1>g DEF IoPart, ReleasedIs
  <2> QED
    BY <2>1, <2>2, <2>3, <2>4 DEF UsePart
<1>3. e.life = "live"
  BY <1>0, <1>b, <1>f DEF ReleasedIs, Lively
<1>4. DeadPart(o, e, w, c, h, p)
  BY <1>3 DEF DeadPart
<1>5. LivePart(o, e, w, c, h, p)
  <2>3. Own(o, e) = 0
    BY <1>a DEF Own, ReleasedIs, One
  <2>4. /\ e.refcount = ob.refcount - 1 /\ e.pending = ob.pending
    BY DEF ReleasedIs
  <2>5. /\ ob.pending \in Nat /\ w.run \in Nat /\ c.keep \in Nat /\ h \in Nat
        /\ ob.refcount \in Nat
        /\ ob.refcount = Own(o, ob) + ob.pending + w.run + Posts(o, c) + c.keep + h
    BY <1>f DEF Lively
  <2>6. e.refcount = Own(o, e) + e.pending + w.run + Posts(o, c) + c.keep + h /\ e.refcount > 0
    BY ONLY <1>a, <1>b, <2>3, <2>4, <2>5
  <2> QED
    BY <1>f, <2>6 DEF LivePart, ReleasedIs, Lively
<1> QED
  BY <1>1, <1>2, <1>4, <1>5 DEF ObjOK


(* The group takes a member. *)
LEMMA TakenOK ==
  ASSUME NEW o \in Objects, NEW ob, NEW w, NEW c, NEW h, NEW p, NEW s, Typed(ob, w, c, h, p, s),
         ObjOK(o, ob, w, c, h, p, s), NEW e, TakenIs(ob, e), ob.member = TRUE, ob.refcount # 0,
         c.sub = 0, c.wait = 0, NEW d \in CNum, d.sub = c.sub, d.join = c.join, d.rel = c.rel,
         d.wait = c.wait, d.ends = c.ends, d.keep = c.keep + 1
  PROVE  ObjOK(o, e, w, d, h, p, FALSE)
<1>0. ob.life = "live"
  BY AliveIf
<1>f. Fields(ob, w, c, h, p, s) /\ Lively(o, ob, w, c, h, p) /\ CFields(d)
  BY <1>0, FieldsAre, NumFields
<1>g. /\ CountPart(o, ob, w, p) /\ LivePart(o, ob, w, c, h, p) /\ SimplePart(o, ob, w, c, s)
      /\ UserPart(o, ob, c, p, s) /\ GroupPart(o, ob, c) /\ IoPart(o, ob, p)
  BY DEF ObjOK, UsePart
<1>a. ob.grouped = TRUE /\ Type[o] # "io" /\ c.join = 0 /\ c.keep = 0
  BY <1>f, <1>g DEF GroupPart, Fields
<1>b. /\ e.owner = "none" <=> ob.owner = "none"
      /\ e.owner # "user"
  BY DEF TakenIs
<1>1. CountPart(o, e, w, p)
  BY <1>f, <1>g DEF CountPart, TakenIs, Fields
<1>2. UsePart(o, e, w, d, p, FALSE)
  <2>1. SimplePart(o, e, w, d, FALSE)
    BY <1>b, <1>g DEF SimplePart
  <2>2. UserPart(o, e, d, p, FALSE)
    BY <1>b, <1>g DEF UserPart
  <2>3. GroupPart(o, e, d)
    BY <1>b, <1>a DEF GroupPart, TakenIs
  <2>4. IoPart(o, e, p)
    BY <1>g DEF IoPart, TakenIs
  <2> QED
    BY <2>1, <2>2, <2>3, <2>4 DEF UsePart
<1>3. DeadPart(o, e, w, d, h, p)
  BY <1>0 DEF DeadPart, TakenIs
<1>4. LivePart(o, e, w, d, h, p)
  <2>1. Own(o, e) = Own(o, ob) /\ Posts(o, d) = Posts(o, c)
    BY <1>b DEF Own, TakenIs, Posts
  <2>2. e.refcount = ob.refcount + 1 /\ e.pending = ob.pending /\ d.keep = c.keep + 1
    BY DEF TakenIs
  <2>3. /\ Own(o, ob) \in Nat /\ ob.pending \in Nat /\ w.run \in Nat /\ Posts(o, c) \in Nat
        /\ c.keep \in Nat /\ h \in Nat /\ ob.refcount \in Nat
        /\ ob.refcount = Own(o, ob) + ob.pending + w.run + Posts(o, c) + c.keep + h
    BY <1>f DEF Lively
  <2>4. /\ e.refcount = Own(o, e) + e.pending + w.run + Posts(o, d) + d.keep + h
        /\ e.refcount > 0 /\ d.keep > 0
    BY ONLY <2>1, <2>2, <2>3
  <2>5. w.ends = 0 /\ d.ends = 0 /\ p.ends = 0
    BY <1>f DEF Lively
  <2>6. e.shutdown = FALSE /\ Type[o] \notin {"simple", "io"} => e.owner # "none"
    BY <1>0, <1>b, <1>g DEF LivePart, TakenIs
  <2> QED
    BY <2>4, <2>5, <2>6 DEF LivePart
<1> QED
  BY <1>1, <1>2, <1>3, <1>4 DEF ObjOK

(* The group gives it back, and releases it if the program has not.         *)
LEMMA GroupDropOK ==
  ASSUME NEW o \in Objects, NEW ob, NEW w, NEW c, NEW h, NEW p, NEW s, Typed(ob, w, c, h, p, s),
         ObjOK(o, ob, w, c, h, p, s), c.keep > 0, NEW n \in {1, 2}, NEW e, ReleasedIs(ob, e, n, "none"),
         n = 2 <=> (ob.shutdown = FALSE /\ Type[o] # "simple"),
         NEW d \in CNum, d.sub = c.sub, d.join = c.join, d.rel = c.rel, d.wait = c.wait,
         d.ends = c.ends + One(ob.refcount = n), d.keep = c.keep - 1
  PROVE  ObjOK(o, e, w, d, h, p, s)
<1>0. ob.life = "live"
  BY AliveIf
<1>f. Fields(ob, w, c, h, p, s) /\ Lively(o, ob, w, c, h, p) /\ CFields(d)
  BY <1>0, FieldsAre, NumFields
<1>g. /\ CountPart(o, ob, w, p) /\ LivePart(o, ob, w, c, h, p) /\ SimplePart(o, ob, w, c, s)
      /\ UserPart(o, ob, c, p, s) /\ GroupPart(o, ob, c) /\ IoPart(o, ob, p)
  BY DEF ObjOK, UsePart
<1>a. /\ ob.grouped = TRUE /\ Type[o] # "io" /\ ob.owner # "user" /\ c.join = 0 /\ c.keep = 1
  BY <1>f, <1>g DEF GroupPart, Fields
<1>b. /\ c.sub = 0 /\ c.wait = 0 /\ s = FALSE /\ p.again = FALSE /\ ob.ops = 0 /\ ob.skipped = 0
  BY <1>f, <1>g, <1>a DEF SimplePart, UserPart, IoPart, Fields
<1>c. (n = 2 => Own(o, ob) = 1) /\ (n = 1 => Own(o, ob) = 0)
  BY <1>f, <1>g DEF Lively, SimplePart, Fields
<1>d. /\ Own(o, ob) \in Nat /\ ob.pending \in Nat /\ w.run \in Nat /\ Posts(o, c) \in Nat
      /\ c.keep \in Nat /\ c.keep > 0 /\ h \in Nat /\ ob.refcount \in Nat
      /\ ob.refcount = Own(o, ob) + ob.pending + w.run + Posts(o, c) + c.keep + h
  BY <1>f DEF Lively
<1>e. ob.refcount >= n
  BY ONLY <1>c, <1>d, n \in {1, 2}
<1>h. e.refcount = ob.refcount - n /\ e.pending = ob.pending /\ d.keep = c.keep - 1
  BY DEF ReleasedIs
<1>1. CountPart(o, e, w, p)
  <2>1. e.refcount >= 0
    BY ONLY <1>d, <1>e, <1>h, n \in {1, 2}
  <2> QED
    BY <2>1, <1>g DEF CountPart, ReleasedIs
<1>2. UsePart(o, e, w, d, p, s)
  <2>1. SimplePart(o, e, w, d, s)
    BY <1>b, <1>g DEF SimplePart, ReleasedIs
  <2>2. UserPart(o, e, d, p, s)
    BY <1>b DEF UserPart, ReleasedIs
  <2>3. GroupPart(o, e, d)
    BY <1>a DEF GroupPart, ReleasedIs
  <2>4. IoPart(o, e, p)
    BY <1>b DEF IoPart, ReleasedIs
  <2> QED
    BY <2>1, <2>2, <2>3, <2>4 DEF UsePart
<1>3. CASE ob.refcount = n
  <2>1. ob.pending = 0 /\ w.run = 0 /\ c.keep = 1 /\ h = 0 /\ Posts(o, c) = 0
    <3>1. CASE n = 1
      BY <1>f, <1>c, <1>3, <3>1, TotalIs DEF Lively
    <3>2. CASE n = 2
      BY <1>f, <1>c, <1>3, <3>2, TotalIs DEF Lively
    <3> QED
      BY <3>1, <3>2
  <2>2. d.ends = 1 /\ w.ends = 0 /\ p.ends = 0
    BY <1>3, <1>f DEF One, Lively
  <2>3. e.life = "dying" /\ e.refcount = 0 /\ e.pending = 0
    BY <1>3, <2>1 DEF ReleasedIs
  <2>4. c.rel = 0
    <3>1. Type[o] = "simple" => c.sub + c.join + c.rel = 0
      BY <2>1 DEF Posts
    <3> QED
      BY <1>a, <1>b, <1>f, <1>g, <3>1 DEF SimplePart, Fields
  <2>5. Unused(e, w, d)
    BY <1>a, <1>b, <1>h, <2>1, <2>3, <2>4 DEF Unused
  <2>6. Enders(w, d, h, p) = 1
    BY <2>1, <2>2 DEF Enders
  <2>7. DeadPart(o, e, w, d, h, p) /\ LivePart(o, e, w, d, h, p)
    BY <2>3, <2>5, <2>6 DEF DeadPart, LivePart, ReleasedIs
  <2> QED
    BY <1>1, <1>2, <2>7 DEF ObjOK
<1>4. CASE ob.refcount # n
  <2>1. e.life = "live" /\ d.ends = 0
    BY <1>0, <1>f, <1>4 DEF ReleasedIs, One, Lively
  <2>2. DeadPart(o, e, w, d, h, p)
    BY <2>1 DEF DeadPart
  <2>3. Own(o, e) = 0 /\ Posts(o, d) = Posts(o, c)
    BY DEF Own, ReleasedIs, Posts, One
  <2>6. e.refcount = Own(o, e) + e.pending + w.run + Posts(o, d) + d.keep + h /\ e.refcount > 0
    <3>1. CASE n = 1
      BY ONLY <1>c, <1>d, <1>e, <1>h, <1>4, <2>3, <3>1
    <3>2. CASE n = 2
      BY ONLY <1>c, <1>d, <1>e, <1>h, <1>4, <2>3, <3>2
    <3> QED
      BY <3>1, <3>2
  <2>7. LivePart(o, e, w, d, h, p)
    BY <1>f, <2>1, <2>6 DEF LivePart, ReleasedIs, Lively
  <2> QED
    BY <1>1, <1>2, <2>2, <2>7 DEF ObjOK
<1> QED
  BY <1>3, <1>4

(* A wait thread takes a reference. *)
HeldTo(ob, e) ==
    /\ e \in ObjRec /\ e.life = ob.life /\ e.refcount = ob.refcount + 1 /\ e.owner = ob.owner
    /\ e.shutdown = ob.shutdown /\ e.grouped = ob.grouped /\ e.member = ob.member
    /\ e.pending = ob.pending /\ e.running = ob.running /\ e.associated = ob.associated
    /\ e.signaled = ob.signaled /\ e.ops = ob.ops /\ e.skipped = ob.skipped
    /\ e.completions = ob.completions /\ e.posts = ob.posts

(* It does, to a live object. *)
LEMMA HoldOK ==
  ASSUME NEW o \in Objects, NEW ob, NEW w, NEW c, NEW h, NEW p, NEW s, Typed(ob, w, c, h, p, s),
         ObjOK(o, ob, w, c, h, p, s), ob.life = "live", NEW e, HeldTo(ob, e), NEW g, g = h + 1
  PROVE  ObjOK(o, e, w, c, g, p, s)
<1>f. Fields(ob, w, c, h, p, s) /\ Lively(o, ob, w, c, h, p)
  BY FieldsAre
<1>1. CountPart(o, e, w, p)
  BY <1>f DEF ObjOK, CountPart, HeldTo, Lively
<1>2. DeadPart(o, e, w, c, g, p)
  BY DEF DeadPart, HeldTo
<1>3. LivePart(o, e, w, c, g, p)
  <2>1. Own(o, e) = Own(o, ob) /\ e.refcount = ob.refcount + 1 /\ e.pending = ob.pending
    BY DEF Own, HeldTo
  <2>2. /\ Own(o, ob) \in Nat /\ ob.pending \in Nat /\ w.run \in Nat /\ Posts(o, c) \in Nat
        /\ c.keep \in Nat /\ h \in Nat /\ ob.refcount \in Nat /\ g = h + 1
        /\ ob.refcount = Own(o, ob) + ob.pending + w.run + Posts(o, c) + c.keep + h
    BY <1>f DEF Lively
  <2>3. e.refcount = Own(o, e) + e.pending + w.run + Posts(o, c) + c.keep + g /\ e.refcount > 0
    BY ONLY <2>1, <2>2
  <2> QED
    BY <2>3 DEF ObjOK, LivePart, HeldTo
<1>4. UsePart(o, e, w, c, p, s)
  BY DEF ObjOK, UsePart, SimplePart, UserPart, GroupPart, IoPart, HeldTo
<1> QED
  BY <1>1, <1>2, <1>3, <1>4 DEF ObjOK

(* A wait thread gives its reference back; with the last one it destroys    *)
(* the object in its next step.                                             *)
LEMMA DropHeldOK ==
  ASSUME NEW o \in Objects, NEW ob, NEW w, NEW c, NEW h, NEW p, NEW s, Typed(ob, w, c, h, p, s),
         ObjOK(o, ob, w, c, h, p, s), ob.life # "dying", Type[o] = "wait", h > 0, NEW e, GivenBack(ob, e, 1),
         NEW g, g = h - One(ob.refcount # 1)
  PROVE  ObjOK(o, e, w, c, g, p, s)
<1>0. ob.life = "live"
  BY AliveIf
<1>f. Fields(ob, w, c, h, p, s) /\ Lively(o, ob, w, c, h, p)
  BY <1>0, FieldsAre
<1>g. /\ CountPart(o, ob, w, p) /\ LivePart(o, ob, w, c, h, p) /\ SimplePart(o, ob, w, c, s)
      /\ UserPart(o, ob, c, p, s) /\ GroupPart(o, ob, c) /\ IoPart(o, ob, p)
  BY DEF ObjOK, UsePart
<1>a. c.join = 0 /\ c.rel = 0 /\ c.sub = 0 /\ p.again = FALSE
  BY <1>f, <1>g DEF SimplePart, UserPart, IoPart, Fields
<1>1. CountPart(o, e, w, p)
  BY <1>f, <1>g DEF CountPart, GivenBack, Lively
<1>2. UsePart(o, e, w, c, p, s)
  <2>1. SimplePart(o, e, w, c, s)
    BY <1>a DEF SimplePart
  <2>2. UserPart(o, e, c, p, s)
    BY <1>g DEF UserPart, GivenBack
  <2>3. GroupPart(o, e, c)
    BY <1>g DEF GroupPart, GivenBack
  <2>4. IoPart(o, e, p)
    BY <1>a, <1>g DEF IoPart, GivenBack
  <2> QED
    BY <2>1, <2>2, <2>3, <2>4 DEF UsePart
<1>3. CASE ob.refcount = 1
  <2>1. ob.pending = 0 /\ w.run = 0 /\ c.keep = 0 /\ h = 1 /\ Own(o, ob) = 0
    BY <1>f, <1>3, TotalIs DEF Lively
  <2>2. g = 1 /\ w.ends = 0 /\ c.ends = 0 /\ p.ends = 0 /\ ob.shutdown = TRUE
    BY <1>3, <1>f, <2>1 DEF One, Lively, Fields
  <2>3. e.life = "dying" /\ e.refcount = 0 /\ e.pending = 0 /\ e.shutdown = TRUE
    BY <1>3, <2>1, <2>2 DEF GivenBack
  <2>5. Unused(e, w, c)
    BY <1>a, <2>1, <2>3 DEF Unused
  <2>6. Enders(w, c, g, p) = 1
    BY <2>2 DEF Enders
  <2>7. DeadPart(o, e, w, c, g, p) /\ LivePart(o, e, w, c, g, p)
    BY <2>3, <2>5, <2>6 DEF DeadPart, LivePart
  <2> QED
    BY <1>1, <1>2, <2>7 DEF ObjOK
<1>4. CASE ob.refcount # 1
  <2>1. e.life = "live" /\ g = h - 1
    BY <1>0, <1>4 DEF GivenBack, One
  <2>2. DeadPart(o, e, w, c, g, p)
    BY <2>1 DEF DeadPart
  <2>3. Own(o, e) = Own(o, ob) /\ e.refcount = ob.refcount - 1 /\ e.pending = ob.pending
    BY DEF Own, GivenBack
  <2>4. /\ Own(o, ob) \in Nat /\ ob.pending \in Nat /\ w.run \in Nat /\ Posts(o, c) \in Nat
        /\ c.keep \in Nat /\ h \in Nat /\ ob.refcount \in Nat /\ ob.refcount > 0
        /\ ob.refcount = Own(o, ob) + ob.pending + w.run + Posts(o, c) + c.keep + h
    BY <1>f DEF Lively
  <2>6. e.refcount = Own(o, e) + e.pending + w.run + Posts(o, c) + c.keep + g /\ e.refcount > 0
    <3>1. e.refcount > 0
      BY ONLY <1>4, <2>3, <2>4
    <3>2. g = h - 1
      BY <2>1
    <3>3. e.refcount = Own(o, e) + e.pending + w.run + Posts(o, c) + c.keep + g
      BY ONLY <2>3, <2>4, <3>2
    <3> QED
      BY <3>1, <3>3
  <2>7. LivePart(o, e, w, c, g, p)
    BY <1>0, <1>g, <2>6 DEF LivePart, GivenBack
  <2> QED
    BY <1>1, <1>2, <2>2, <2>7 DEF ObjOK
<1> QED
  BY <1>3, <1>4


(* The operations of an I/O object change. *)
LEMMA OpsOK ==
  ASSUME NEW o \in Objects, NEW ob, NEW w, NEW c, NEW h, NEW p, NEW s, Typed(ob, w, c, h, p, s),
         ObjOK(o, ob, w, c, h, p, s), Type[o] = "io", ob.life = "live", ob.shutdown = FALSE,
         NEW e, Plain(ob, e), e.associated = ob.associated, e.ops >= 0, e.skipped >= 0,
         NEW q \in PNum, q.ends = p.ends, q.packets <= e.ops + e.skipped, q.closes = p.closes
  PROVE  ObjOK(o, e, w, c, h, q, s)
<1>1. CountPart(o, e, w, q)
  BY DEF ObjOK, CountPart, Plain
<1>2. DeadPart(o, e, w, c, h, q)
  BY DEF DeadPart, Plain
<1>3. LivePart(o, e, w, c, h, q)
  <2>1. Own(o, e) = Own(o, ob)
    BY DEF Own, Plain
  <2> QED
    BY <2>1 DEF ObjOK, LivePart, Plain
<1>4. UsePart(o, e, w, c, q, s)
  BY DEF ObjOK, UsePart, SimplePart, UserPart, GroupPart, IoPart, Plain
<1> QED
  BY <1>1, <1>2, <1>3, <1>4 DEF ObjOK

(* TpReleaseIoCompletion leaves the object to the I/O thread. *)
LeftTo(ob, e) ==
    /\ e \in ObjRec /\ e.life = ob.life /\ e.refcount = ob.refcount /\ e.owner = "none"
    /\ e.shutdown = ob.shutdown /\ e.grouped = ob.grouped /\ e.member = ob.member
    /\ e.pending = ob.pending /\ e.running = ob.running /\ e.associated = ob.associated
    /\ e.signaled = ob.signaled /\ e.ops = ob.ops /\ e.skipped = ob.skipped
    /\ e.completions = ob.completions /\ e.posts = ob.posts

(* It does. *)
LEMMA CloseLaterOK ==
  ASSUME NEW o \in Objects, NEW ob, NEW w, NEW c, NEW h, NEW p, NEW s, Typed(ob, w, c, h, p, s),
         ObjOK(o, ob, w, c, h, p, s), Type[o] = "io", ob.owner = "user", ob.shutdown = FALSE,
         c.wait = 0, c.sub = 0, s = FALSE, NEW e, LeftTo(ob, e),
         NEW q \in PNum, q.ends = p.ends, q.packets = p.packets, q.again = p.again
  PROVE  ObjOK(o, e, w, c, h, q, s)
<1>0. ob.life = "live"
  BY AliveIf
<1>1. CountPart(o, e, w, q)
  BY DEF ObjOK, CountPart, LeftTo
<1>2. DeadPart(o, e, w, c, h, q)
  BY <1>0 DEF DeadPart, LeftTo
<1>3. LivePart(o, e, w, c, h, q)
  <2>1. Own(o, e) = Own(o, ob)
    BY DEF Own, LeftTo
  <2> QED
    BY <2>1 DEF ObjOK, LivePart, LeftTo
<1>4. UsePart(o, e, w, c, q, s)
  BY DEF ObjOK, UsePart, SimplePart, UserPart, GroupPart, IoPart, LeftTo
<1> QED
  BY <1>1, <1>2, <1>3, <1>4 DEF ObjOK

(* The I/O thread releases an object with its last packet. *)
IoReleasedTo(ob, e) ==
    /\ e \in ObjRec /\ e.refcount = ob.refcount - 1 /\ e.shutdown = TRUE /\ e.owner = ob.owner
    /\ ob.refcount = 1 => e.life = "dying"
    /\ ob.refcount # 1 => e.life = ob.life
    /\ e.grouped = ob.grouped /\ e.member = ob.member /\ e.pending = ob.pending
    /\ e.running = ob.running /\ e.associated = ob.associated /\ e.signaled = ob.signaled
    /\ e.ops = ob.ops /\ e.skipped = 0 /\ e.completions = ob.completions
    /\ e.posts = ob.posts

(* It does. *)
LEMMA IoReleasesOK ==
  ASSUME NEW o \in Objects, NEW ob, NEW w, NEW c, NEW h, NEW p, NEW s, Typed(ob, w, c, h, p, s),
         ObjOK(o, ob, w, c, h, p, s), p.packets > 0, ob.shutdown = TRUE \/ p.closes = TRUE,
         ob.ops = 0, ob.skipped <= 1, NEW e, IoReleasedTo(ob, e),
         NEW q \in PNum, q.ends = p.ends + One(ob.refcount = 1), q.packets = p.packets - 1,
         q.again = FALSE, q.closes = p.closes
  PROVE  ObjOK(o, e, w, c, h, q, s)
<1>0. ob.life = "live" /\ ob.shutdown = FALSE /\ Type[o] = "io" /\ p.closes = TRUE
  BY AliveIf
<1>f. Fields(ob, w, c, h, p, s) /\ Lively(o, ob, w, c, h, p) /\ PFields(q)
  BY <1>0, FieldsAre, NumFields
<1>g. /\ CountPart(o, ob, w, p) /\ LivePart(o, ob, w, c, h, p) /\ SimplePart(o, ob, w, c, s)
      /\ UserPart(o, ob, c, p, s) /\ GroupPart(o, ob, c) /\ IoPart(o, ob, p)
  BY DEF ObjOK, UsePart
<1>a. /\ ob.owner = "none" /\ c.wait = 0 /\ c.sub = 0 /\ s = FALSE
  BY <1>0, <1>f, <1>g DEF UserPart, Fields
<1>b. c.join = 0 /\ c.rel = 0 /\ c.keep = 0 /\ ob.grouped = FALSE /\ Own(o, ob) = 1 /\ Posts(o, c) = 0
  BY <1>0, <1>f, <1>g DEF GroupPart, SimplePart, Fields, Lively
<1>c. q.packets = 0
  <2>1. /\ p.packets \in Nat /\ p.packets > 0 /\ p.packets <= ob.ops + ob.skipped /\ ob.ops = 0
        /\ ob.skipped \in Int /\ ob.skipped <= 1 /\ q.packets = p.packets - 1
    BY <1>f, <1>g DEF Fields, CountPart
  <2> QED
    BY ONLY <2>1
<1>1. CountPart(o, e, w, q)
  BY <1>c, <1>f, <1>g DEF CountPart, IoReleasedTo, Lively
<1>2. UsePart(o, e, w, c, q, s)
  <2>1. SimplePart(o, e, w, c, s)
    BY <1>0, <1>b DEF SimplePart
  <2>2. UserPart(o, e, c, q, s)
    BY <1>a DEF UserPart, IoReleasedTo
  <2>3. GroupPart(o, e, c)
    BY <1>b, <1>g DEF GroupPart, IoReleasedTo
  <2>4. IoPart(o, e, q)
    BY DEF IoPart, IoReleasedTo
  <2> QED
    BY <2>1, <2>2, <2>3, <2>4 DEF UsePart
<1>3. CASE ob.refcount = 1
  <2>1. ob.pending = 0 /\ w.run = 0 /\ h = 0
    BY <1>f, <1>b, <1>3, TotalIs DEF Lively
  <2>2. q.ends = 1 /\ w.ends = 0 /\ c.ends = 0
    BY <1>3, <1>f DEF One, Lively
  <2>3. e.life = "dying" /\ e.refcount = 0 /\ e.pending = 0 /\ e.shutdown = TRUE
    BY <1>3, <2>1 DEF IoReleasedTo
  <2>5. Unused(e, w, c)
    BY <1>a, <1>b, <2>1, <2>3 DEF Unused
  <2>6. Enders(w, c, h, q) = 1
    BY <2>1, <2>2 DEF Enders
  <2>7. DeadPart(o, e, w, c, h, q) /\ LivePart(o, e, w, c, h, q)
    BY <2>3, <2>5, <2>6 DEF DeadPart, LivePart
  <2> QED
    BY <1>1, <1>2, <2>7 DEF ObjOK
<1>4. CASE ob.refcount # 1
  <2>1. e.life = "live" /\ q.ends = 0
    BY <1>0, <1>f, <1>4 DEF IoReleasedTo, One, Lively
  <2>2. DeadPart(o, e, w, c, h, q)
    BY <2>1 DEF DeadPart
  <2>3. Own(o, e) = 0 /\ e.refcount = ob.refcount - 1 /\ e.pending = ob.pending
    BY DEF Own, IoReleasedTo, One
  <2>4. /\ ob.pending \in Nat /\ w.run \in Nat /\ Posts(o, c) = 0 /\ Own(o, ob) = 1
        /\ c.keep \in Nat /\ h \in Nat /\ ob.refcount \in Nat /\ ob.refcount > 0
        /\ ob.refcount = Own(o, ob) + ob.pending + w.run + Posts(o, c) + c.keep + h
    BY <1>b, <1>f DEF Lively
  <2>5. e.refcount > 0
    BY ONLY <1>4, <2>3, <2>4
  <2>6. e.refcount = Own(o, e) + e.pending + w.run + Posts(o, c) + c.keep + h
    BY ONLY <2>3, <2>4
  <2>7. LivePart(o, e, w, c, h, q)
    BY <1>f, <2>1, <2>5, <2>6 DEF LivePart, IoReleasedTo, Lively
  <2> QED
    BY <1>1, <1>2, <2>2, <2>7 DEF ObjOK
<1> QED
  BY <1>3, <1>4
=============================================================================
