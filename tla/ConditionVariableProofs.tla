---------------------- MODULE ConditionVariableProofs ----------------------
(***************************************************************************)
(* Theorems about ConditionVariable, for any finite set of threads and any *)
(* program.                                                                *)
(***************************************************************************)
EXTENDS ConditionVariable, FiniteSetTheorems, SequenceTheorems, TLAPS

Once(s) == \A i, j \in 1..Len(s) : s[i] = s[j] => i = j

(* The links f lead through s, from its first block to its last. *)
Along(f, s) == \A i \in 1..Len(s) : f[s[i]] = IF i = Len(s) THEN Nil ELSE s[i+1]

-----------------------------------------------------------------------------
(* Walks.  Induction over the natural numbers is used in the form that a    *)
(* set with 0 and all successors is Nat.                                    *)

Below == {r \in Nat \X Nat : r[1] < r[2]}

(* The order of the naturals is well founded. *)
LEMMA BelowWellFounded == IsWellFoundedOn(Below, Nat)
  BY NatLessThanWellFounded DEF OpToRel, Below

(* Induction over the naturals for a set: the least number outside T would  *)
(* be the successor of a member.                                            *)
LEMMA SetInduction ==
  ASSUME NEW T \in SUBSET Nat, 0 \in T, \A n \in T : n + 1 \in T
  PROVE  T = Nat
<1> SUFFICES ASSUME T # Nat PROVE FALSE
  OBVIOUS
<1>1. Nat \ T \subseteq Nat /\ Nat \ T # {}
  OBVIOUS
<1>2. PICK x \in Nat \ T : \A y \in Nat \ T : ~(<<y, x>> \in Below)
  BY <1>1, BelowWellFounded, WFMin
<1>3. x # 0 /\ x - 1 \in Nat /\ x - 1 < x
  OBVIOUS
<1>4. x - 1 \in T
  BY <1>2, <1>3 DEF Below
<1> QED
  BY <1>4

Steps == Cardinality(Threads)

(* A list has finitely many blocks. *)
LEMMA StepsNat == Steps \in Nat
  BY ThreadsAssumption, FS_CardinalityType DEF Steps

(* The recursive definition of Reached defines something. *)
LEMMA ReachedDef ==
  ASSUME NEW f, NEW p
  PROVE  /\ DOMAIN Reached(f, p) = 1..Steps
         /\ \A i \in 1..Steps :
              Reached(f, p)[i] = IF i = 1 THEN p
                                 ELSE IF Reached(f, p)[i-1] = Nil THEN Nil ELSE f[Reached(f, p)[i-1]]
<1> DEFINE Val(g, i) == IF i = 1 THEN p ELSE IF g[i-1] = Nil THEN Nil ELSE f[g[i-1]]
           Is(g, m) == g = [i \in 1..m |-> Val(g, i)]
           T == {m \in Nat : \E g : Is(g, m)}
<1>1. 0 \in T
  <2>1. Is([i \in 1..0 |-> p], 0)
    OBVIOUS
  <2> QED
    BY <2>1
<1>2. ASSUME NEW m \in T PROVE m + 1 \in T
  <2>1. PICK g : Is(g, m)
    BY <1>2
  <2>0. m \in Nat
    BY <1>2
  <2> DEFINE h == [i \in 1..(m+1) |-> IF i = m + 1 THEN Val(g, m+1) ELSE g[i]]
  <2>2. \A i \in 1..m : g[i] = Val(g, i)
    BY <2>1
  <2>3. \A i \in 1..m : h[i] = g[i]
    BY <2>0
  <2>4. \A i \in 1..(m+1) : i # 1 => i - 1 \in 1..m
    BY <2>0
  <2>5. \A i \in 1..(m+1) : Val(h, i) = Val(g, i)
    BY <2>3, <2>4
  <2>6. \A i \in 1..(m+1) : h[i] = Val(h, i)
    <3> SUFFICES ASSUME NEW i \in 1..(m+1) PROVE h[i] = Val(g, i)
      BY <2>5
    <3>1. CASE i = m + 1
      BY <3>1
    <3>2. CASE i # m + 1
      <4>1. i \in 1..m
        BY <2>0, <3>2
      <4> QED
        BY <2>2, <2>3, <4>1
    <3> QED
      BY <3>1, <3>2
  <2>7. Is(h, m + 1)
    <3> HIDE DEF Val
    <3>1. h = [i \in 1..(m+1) |-> h[i]]
      OBVIOUS
    <3> QED
      BY <2>6, <3>1
  <2>8. \E k : Is(k, m + 1)
    <3> HIDE DEF h, Is
    <3> QED
      BY <2>7
  <2> QED
    BY <2>0, <2>8
<1>3. T = Nat
  <2>1. T \in SUBSET Nat
    OBVIOUS
  <2> HIDE DEF T
  <2> QED
    BY <1>1, <1>2, <2>1, SetInduction
<1>4. \E g : Is(g, Steps)
  BY <1>3, StepsNat
<1>5. Reached(f, p) = CHOOSE g : Is(g, Steps)
  BY DEF Reached, Steps
<1>6. Is(Reached(f, p), Steps)
  BY <1>4, <1>5
<1> QED
  BY <1>6

(* A list without repetition fits into the bound of Reached. *)
LEMMA OnceIsShort ==
  ASSUME NEW s \in Seq(Threads), Once(s)
  PROVE  Len(s) \in Nat /\ Len(s) <= Steps
<1>1. Len(s) \in Nat /\ s \in [1..Len(s) -> Threads]
  BY LenProperties
<1>2. IsFiniteSet(1..Len(s)) /\ Cardinality(1..Len(s)) = Len(s)
  BY <1>1, FS_Interval
<1>3. ASSUME Steps < Len(s) PROVE FALSE
  <2>1. \E x, y \in 1..Len(s) : x # y /\ s[x] = s[y]
    BY <1>1, <1>2, <1>3, ThreadsAssumption, FS_PigeonHole DEF Steps
  <2> QED
    BY <2>1 DEF Once
<1> QED
  BY <1>1, <1>3, StepsNat

(* Follow finds the list the links lead through. *)
LEMMA FollowIs ==
  ASSUME NEW f, NEW s \in Seq(Threads), s # <<>>, Once(s), Along(f, s)
  PROVE  Follow(f, s[1]) = s
<1> DEFINE g == Reached(f, s[1])
           n == Len(s)
           T == {m \in Nat : m \in 1..n => g[m] = s[m]}
           U == {m \in Nat : m \in n+1..Steps => g[m] = Nil}
<1>0. n \in Nat \ {0} /\ n <= Steps /\ s \in [1..n -> Threads]
  BY OnceIsShort, LenProperties, EmptySeq
<1>1. /\ DOMAIN g = 1..Steps
      /\ \A i \in 1..Steps : g[i] = IF i = 1 THEN s[1] ELSE IF g[i-1] = Nil THEN Nil ELSE f[g[i-1]]
  BY ReachedDef
<1>2. 0 \in T
  OBVIOUS
<1>3. ASSUME NEW m \in T PROVE m + 1 \in T
  <2> SUFFICES ASSUME m + 1 \in 1..n PROVE g[m+1] = s[m+1]
    OBVIOUS
  <2>1. CASE m = 0
    BY <1>0, <1>1, <2>1, StepsNat
  <2>2. CASE m # 0
    <3>0. m \in Nat
      OBVIOUS
    <3> HIDE DEF T
    <3>1. m \in 1..n /\ m # n /\ m + 1 \in 1..Steps /\ m + 1 # 1 /\ (m + 1) - 1 = m
      <4> HIDE DEF n
      <4> QED
        BY <1>0, <2>2, <3>0, StepsNat
    <3> USE DEF T
    <3>2. g[m] = s[m] /\ s[m] # Nil /\ f[s[m]] = s[m+1]
      BY <1>0, <3>1, ThreadsAssumption DEF Along
    <3> QED
      BY <1>1, <3>1, <3>2
  <2> QED
    BY <2>1, <2>2
<1>4. T = Nat
  <2>1. T \in SUBSET Nat
    OBVIOUS
  <2> HIDE DEF T
  <2> QED
    BY <1>2, <1>3, <2>1, SetInduction
<1>5. \A i \in 1..n : g[i] = s[i]
  BY <1>0, <1>4
<1>6. 0 \in U
  BY <1>0
<1>7. ASSUME NEW m \in U PROVE m + 1 \in U
  <2> SUFFICES ASSUME m + 1 \in n+1..Steps PROVE g[m+1] = Nil
    OBVIOUS
  <2>n. m \in Nat
    OBVIOUS
  <2>0. m + 1 \in 1..Steps /\ m + 1 # 1 /\ (m + 1) - 1 = m /\ (m = n \/ m \in n+1..Steps)
    <3> HIDE DEF U, n
    <3> QED
      BY <1>0, <2>n, StepsNat
  <2>1. CASE m = n
    <3>1. g[m] = s[n] /\ s[n] # Nil /\ f[s[n]] = Nil
      <4>1. n \in 1..n /\ s[n] \in Threads
        BY <1>0
      <4> QED
        BY <1>5, <2>1, <4>1, ThreadsAssumption DEF Along
    <3> QED
      BY <1>1, <2>0, <3>1
  <2>2. CASE m \in n+1..Steps
    BY <1>1, <1>7, <2>n, <2>0, <2>2
  <2> QED
    BY <2>0, <2>1, <2>2
<1>8. U = Nat
  <2>1. U \in SUBSET Nat
    OBVIOUS
  <2> HIDE DEF U
  <2> QED
    BY <1>6, <1>7, <2>1, SetInduction
<1>9. {j \in DOMAIN g : g[j] # Nil} = 1..n
  <2>1. ASSUME NEW j \in 1..Steps PROVE g[j] # Nil <=> j \in 1..n
    <3>1. CASE j \in 1..n
      BY <1>0, <1>5, <3>1, ThreadsAssumption
    <3>2. CASE j \notin 1..n
      <4>1. j \in n+1..Steps /\ j \in Nat
        BY <1>0, <3>2, StepsNat
      <4> QED
        BY <1>8, <3>2, <4>1
    <3> QED
      BY <3>1, <3>2
  <2>2. 1..n \subseteq 1..Steps
    BY <1>0, StepsNat
  <2> QED
    BY <1>1, <2>1, <2>2
<1>10. Cardinality(1..n) = n
  BY <1>0, FS_Interval
<1>11. Follow(f, s[1]) = [i \in 1..n |-> g[i]]
  BY <1>9, <1>10 DEF Follow
<1> QED
  BY <1>0, <1>5, <1>11

(* No block is reached from the null pointer. *)
LEMMA FollowNil ==
  ASSUME NEW f
  PROVE  Follow(f, Nil) = <<>>
<1> DEFINE g == Reached(f, Nil)
           T == {m \in Nat : m \in 1..Steps => g[m] = Nil}
<1>1. /\ DOMAIN g = 1..Steps
      /\ \A i \in 1..Steps : g[i] = IF i = 1 THEN Nil ELSE IF g[i-1] = Nil THEN Nil ELSE f[g[i-1]]
  BY ReachedDef
<1>2. 0 \in T
  OBVIOUS
<1>3. ASSUME NEW m \in T PROVE m + 1 \in T
  <2>1. m \in Nat /\ (m + 1 \in 1..Steps => m = 0 \/ m \in 1..Steps)
    BY StepsNat
  <2> QED
    BY <1>1, <1>3, <2>1
<1>4. T = Nat
  <2>1. T \in SUBSET Nat
    OBVIOUS
  <2> HIDE DEF T
  <2> QED
    BY <1>2, <1>3, <2>1, SetInduction
<1>5. {j \in DOMAIN g : g[j] # Nil} = {}
  BY <1>1, <1>4, StepsNat
<1>6. Cardinality({}) = 0
  BY FS_EmptySet
<1>7. Follow(f, Nil) = [i \in 1..0 |-> g[i]]
  BY <1>5, <1>6 DEF Follow
<1> QED
  BY <1>7

Ptr == Threads \cup {Nil}

(* From block j on, s[k] is the first that knows the oldest block, and from *)
(* there on the links to newer blocks are set.                              *)
KnownFrom(s, j, k) ==
    /\ notify[s[k]] = s[Len(s)]
    /\ \A i \in j..k-1 : notify[s[i]] = Nil
    /\ \A i \in k..Len(s)-1 : next[s[i+1]] = s[i]

(* Following back from a block of the list reaches exactly the blocks       *)
(* behind it.                                                               *)
LEMMA Suffix ==
  ASSUME NEW s \in Seq(Threads), Once(s), Along(back, s), NEW j \in 1..Len(s)
  PROVE  /\ Follow(back, s[j]) = SubSeq(s, j, Len(s))
         /\ SubSeq(s, j, Len(s)) \in Seq(Threads)
         /\ Len(SubSeq(s, j, Len(s))) = Len(s) - j + 1
         /\ \A i \in 1..Len(s) - j + 1 : SubSeq(s, j, Len(s))[i] = s[j + i - 1]
<1> DEFINE r == SubSeq(s, j, Len(s))
           n == Len(s)
<1>0. n \in Nat /\ s \in [1..n -> Threads] /\ j \in Nat
  BY LenProperties
<1>1. /\ r \in Seq(Threads) /\ Len(r) = n - j + 1
      /\ \A i \in 1..n - j + 1 : r[i] = s[j + i - 1]
  <2>1. \A i \in j..n : s[i] \in Threads
    BY <1>0
  <2>2. j \in Int /\ n \in Int /\ j <= n
    BY <1>0
  <2> QED
    BY <2>1, <2>2, SubSeqProperties
<1> HIDE DEF r
<1>2. r # <<>> /\ r[1] = s[j]
  <2>1. Len(r) # 0 /\ 1 \in 1..n - j + 1 /\ j + 1 - 1 = j
    BY <1>0, <1>1
  <2> QED
    BY <1>1, <2>1, EmptySeq
<1>3. Once(r)
  <2> SUFFICES ASSUME NEW a \in 1..n-j+1, NEW b \in 1..n-j+1, r[a] = r[b] PROVE a = b
    BY <1>1 DEF Once
  <2>1. j + a - 1 \in 1..n /\ j + b - 1 \in 1..n /\ s[j + a - 1] = s[j + b - 1]
    BY <1>0, <1>1
  <2>2. j + a - 1 = j + b - 1
    BY <2>1 DEF Once
  <2> QED
    BY <1>0, <2>2
<1>4. Along(back, r)
  <2> SUFFICES ASSUME NEW a \in 1..n-j+1
               PROVE  back[r[a]] = IF a = n-j+1 THEN Nil ELSE r[a+1]
    BY <1>1 DEF Along
  <2>1. j + a - 1 \in 1..n /\ r[a] = s[j + a - 1] /\ (j + a - 1 = n <=> a = n-j+1)
    BY <1>0, <1>1
  <2>2. back[s[j + a - 1]] = IF j + a - 1 = n THEN Nil ELSE s[(j + a - 1) + 1]
    BY <2>1 DEF Along
  <2>3. a # n-j+1 => a + 1 \in 1..n-j+1 /\ (j + a - 1) + 1 = j + (a + 1) - 1
    BY <1>0
  <2>4. a # n-j+1 => r[a+1] = s[(j + a - 1) + 1]
    BY <1>1, <2>3
  <2> QED
    BY <2>1, <2>2, <2>4
<1>5. Follow(back, r[1]) = r
  BY <1>1, <1>2, <1>3, <1>4, FollowIs
<1> QED
  BY <1>1, <1>2, <1>5 DEF r

(* The first known pointer to the oldest block is found where it is kept,   *)
(* and it leads to the end of the list.                                     *)
LEMMA OldestIs ==
  ASSUME NEW s \in Seq(Threads), Once(s), Along(back, s), NEW j \in 1..Len(s),
         NEW k \in j..Len(s), KnownFrom(s, j, k)
  PROVE  KnowsOldest(s[j]) = k - j + 1 /\ Oldest(s[j]) = s[Len(s)]
<1> DEFINE r == Follow(back, s[j])
           n == Len(s)
           First(x) == notify[r[x]] # Nil /\ \A y \in 1..x-1 : notify[r[y]] = Nil
<1>0. n \in Nat /\ s \in [1..n -> Threads] /\ j \in Nat /\ k \in Nat /\ j <= k /\ k <= n
  BY LenProperties
<1>1. r \in Seq(Threads) /\ Len(r) = n - j + 1 /\ \A i \in 1..n - j + 1 : r[i] = s[j + i - 1]
  BY Suffix
<1>2. DOMAIN r = 1..n-j+1
  BY <1>1, LenProperties
<1> HIDE DEF r
<1>3. k - j + 1 \in 1..n-j+1 /\ r[k-j+1] = s[k]
  <2>1. k - j + 1 \in 1..n-j+1 /\ j + (k-j+1) - 1 = k
    BY <1>0
  <2> QED
    BY <1>1, <2>1
<1>4. First(k - j + 1)
  <2>1. notify[s[k]] # Nil
    BY <1>0, ThreadsAssumption DEF KnownFrom
  <2>2. ASSUME NEW y \in 1..(k-j+1)-1 PROVE notify[r[y]] = Nil
    <3>1. y \in 1..n-j+1 /\ j + y - 1 \in j..k-1
      BY <1>0
    <3> QED
      BY <1>1, <3>1 DEF KnownFrom
  <2> QED
    BY <1>3, <2>1, <2>2
<1>5. ASSUME NEW x \in 1..n-j+1, First(x) PROVE x = k - j + 1
  <2>1. ~(x < k - j + 1)
    <3>1. x < k-j+1 => x \in 1..(k-j+1)-1
      BY <1>0
    <3> QED
      BY <1>4, <1>5, <3>1
  <2>2. ~(k - j + 1 < x)
    <3>1. k-j+1 < x => k-j+1 \in 1..x-1
      BY <1>0
    <3> QED
      BY <1>4, <1>5, <3>1
  <2> QED
    BY <1>0, <2>1, <2>2
<1>6. KnowsOldest(s[j]) = CHOOSE x \in DOMAIN r : First(x)
  BY DEF KnowsOldest, r
<1> HIDE DEF First
<1>7. KnowsOldest(s[j]) = k - j + 1
  BY <1>2, <1>3, <1>4, <1>5, <1>6
<1>8. Oldest(s[j]) = notify[r[k - j + 1]]
  BY <1>7 DEF Oldest, r
<1> QED
  BY <1>3, <1>7, <1>8 DEF KnownFrom

(* The walk to the oldest block sets the forward link of every block it     *)
(* passes and of no other.                                                  *)
LEMMA RelinkedIs ==
  ASSUME NEW s \in Seq(Threads), Once(s), Along(back, s), NEW j \in 1..Len(s),
         NEW k \in j..Len(s), KnownFrom(s, j, k), next \in [Threads -> Ptr]
  PROVE  /\ Relinked(s[j]) \in [Threads -> Ptr]
         /\ \A i \in j..Len(s)-1 : Relinked(s[j])[s[i+1]] = s[i]
         /\ \A q \in Threads : (\A i \in j+1..Len(s) : q # s[i]) => Relinked(s[j])[q] = next[q]
<1> DEFINE r == Follow(back, s[j])
           n == Len(s)
           m == k - j + 1
           R == Relinked(s[j])
<1>0. n \in Nat /\ s \in [1..n -> Threads] /\ j \in Nat /\ k \in Nat /\ j <= k /\ k <= n
  BY LenProperties
<1>1. r \in Seq(Threads) /\ Len(r) = n - j + 1 /\ \A i \in 1..n - j + 1 : r[i] = s[j + i - 1]
  BY Suffix
<1>2. m \in 1..n-j+1
  BY <1>0
<1>3. KnowsOldest(s[j]) = m
  BY OldestIs
<1>4. R = [q \in Threads |-> IF \E x \in 1..m-1 : r[x+1] = q
                               THEN r[CHOOSE x \in 1..m-1 : r[x+1] = q] ELSE next[q]]
  BY <1>3 DEF Relinked
<1> HIDE DEF r, m, R
<1>5. \A x, y \in 1..n-j+1 : r[x] = r[y] => x = y
  <2> SUFFICES ASSUME NEW x \in 1..n-j+1, NEW y \in 1..n-j+1, r[x] = r[y] PROVE x = y
    OBVIOUS
  <2>1. j + x - 1 \in 1..n /\ j + y - 1 \in 1..n /\ s[j+x-1] = s[j+y-1]
    BY <1>0, <1>1
  <2>2. j + x - 1 = j + y - 1
    BY <2>1 DEF Once
  <2> QED
    BY <1>0, <2>2
<1>6. \A x \in 1..m-1 : x \in 1..n-j+1 /\ x + 1 \in 1..n-j+1 /\ r[x] \in Threads /\ r[x+1] \in Threads
  <2>1. \A x \in 1..m-1 : x \in 1..n-j+1 /\ x + 1 \in 1..n-j+1
    BY <1>0, <1>2
  <2> QED
    BY <1>1, <2>1, ElementOfSeq
<1>7. \A x \in 1..m-1 : R[r[x+1]] = r[x]
  <2> SUFFICES ASSUME NEW x \in 1..m-1 PROVE R[r[x+1]] = r[x]
    OBVIOUS
  <2>1. \A y \in 1..m-1 : r[y+1] = r[x+1] => y = x
    <3> SUFFICES ASSUME NEW y \in 1..m-1, r[y+1] = r[x+1] PROVE y = x
      OBVIOUS
    <3>1. y + 1 = x + 1
      BY <1>5, <1>6
    <3>2. x \in Int /\ y \in Int
      BY <1>0, <1>2
    <3> QED
      BY <3>1, <3>2
  <2>2. (CHOOSE y \in 1..m-1 : r[y+1] = r[x+1]) = x
    BY <2>1
  <2> QED
    BY <1>4, <1>6, <2>2
<1>8. ASSUME NEW q \in Threads, ~\E x \in 1..m-1 : r[x+1] = q PROVE R[q] = next[q]
  BY <1>4, <1>8
<1>9. R \in [Threads -> Ptr]
  <2> SUFFICES ASSUME NEW q \in Threads PROVE R[q] \in Ptr
    BY <1>4
  <2>1. CASE \E x \in 1..m-1 : r[x+1] = q
    BY <1>6, <1>7, <2>1 DEF Ptr
  <2>2. CASE ~\E x \in 1..m-1 : r[x+1] = q
    BY <1>8, <2>2
  <2> QED
    BY <2>1, <2>2
<1>10. ASSUME NEW i \in j..n-1 PROVE R[s[i+1]] = s[i]
  <2>0. i \in 1..n /\ i + 1 \in 1..n /\ i \in Nat
    BY <1>0
  <2>1. CASE i < k
    <3>1. /\ i - j + 1 \in 1..m-1 /\ i-j+1 \in 1..n-j+1 /\ (i-j+1) + 1 \in 1..n-j+1
          /\ j + (i-j+1) - 1 = i /\ j + ((i-j+1)+1) - 1 = i + 1
      BY <1>0, <2>0, <2>1 DEF m
    <3>2. r[i-j+1] = s[i] /\ r[(i-j+1)+1] = s[i+1]
      BY <1>1, <3>1
    <3> QED
      BY <1>7, <3>1, <3>2
  <2>2. CASE ~(i < k)
    <3>1. next[s[i+1]] = s[i]
      <4>1. i \in k..n-1
        BY <1>0, <2>0, <2>2
      <4> QED
        BY <4>1 DEF KnownFrom
    <3>2. ASSUME NEW x \in 1..m-1, r[x+1] = s[i+1] PROVE FALSE
      <4>1. x + 1 \in 1..n-j+1 /\ j + (x+1) - 1 \in 1..n /\ j + (x+1) - 1 <= k
        BY <1>0, <1>2 DEF m
      <4>2. s[j + (x+1) - 1] = s[i+1]
        BY <1>1, <3>2, <4>1
      <4>3. j + (x+1) - 1 = i + 1
        BY <2>0, <4>1, <4>2 DEF Once
      <4> QED
        BY <1>0, <2>0, <2>2, <4>1, <4>3
    <3> QED
      BY <1>0, <1>8, <2>0, <3>1, <3>2
  <2> QED
    BY <2>1, <2>2
<1>11. ASSUME NEW q \in Threads, \A i \in j+1..n : q # s[i] PROVE R[q] = next[q]
  <2>1. ASSUME NEW x \in 1..m-1, r[x+1] = q PROVE FALSE
    <3>1. x + 1 \in 1..n-j+1 /\ j + (x+1) - 1 \in j+1..n
      BY <1>0, <1>2 DEF m
    <3> QED
      BY <1>1, <1>11, <2>1, <3>1
  <2> QED
    BY <1>8, <2>1
<1> QED
  BY <1>9, <1>10, <1>11 DEF R

(* The blocks from the oldest to s[j]. *)
Line(s, j) == [i \in 1..Len(s)-j+1 |-> s[Len(s)+1-i]]

(* From the oldest block the forward links lead to s[j], once the walk has  *)
(* set them.                                                                *)
LEMMA LineIs ==
  ASSUME NEW s \in Seq(Threads), Once(s), Along(back, s), NEW j \in 1..Len(s),
         NEW k \in j..Len(s), KnownFrom(s, j, k), next \in [Threads -> Ptr], next[s[j]] = Nil
  PROVE  /\ Follow(Relinked(s[j]), Oldest(s[j])) = Line(s, j)
         /\ Line(s, j) \in Seq(Threads) /\ Len(Line(s, j)) = Len(s) - j + 1
         /\ \A i \in 1..Len(s)-j+1 : Line(s, j)[i] = s[Len(s)+1-i]
<1> DEFINE n == Len(s)
           v == Line(s, j)
           R == Relinked(s[j])
<1>0. n \in Nat /\ s \in [1..n -> Threads] /\ j \in Nat /\ k \in Nat /\ j <= k /\ k <= n
  BY LenProperties
<1>1. \A i \in 1..n-j+1 : v[i] = s[n+1-i] /\ n+1-i \in j..n
  BY <1>0 DEF Line
<1>2. v \in Seq(Threads) /\ Len(v) = n-j+1
  <2>1. v \in [1..n-j+1 -> Threads] /\ n-j+1 \in Nat
    BY <1>0 DEF Line
  <2> QED
    BY <2>1
<1> HIDE DEF v, R
<1>3. v # <<>> /\ v[1] = s[n] /\ Oldest(s[j]) = s[n]
  <2>1. 1 \in 1..n-j+1 /\ n+1-1 = n /\ Len(v) # 0
    BY <1>0, <1>2
  <2>2. Oldest(s[j]) = s[n]
    BY OldestIs
  <2> QED
    BY <1>1, <1>2, <2>1, <2>2, EmptySeq
<1>4. Once(v)
  <2> SUFFICES ASSUME NEW a \in 1..n-j+1, NEW b \in 1..n-j+1, v[a] = v[b] PROVE a = b
    BY <1>2 DEF Once
  <2>1. n+1-a \in 1..n /\ n+1-b \in 1..n /\ s[n+1-a] = s[n+1-b]
    BY <1>0, <1>1
  <2>2. n+1-a = n+1-b
    BY <2>1 DEF Once
  <2> QED
    BY <1>0, <2>2
<1>5. /\ \A i \in j..n-1 : R[s[i+1]] = s[i]
      /\ \A q \in Threads : (\A i \in j+1..n : q # s[i]) => R[q] = next[q]
  BY RelinkedIs DEF R
<1>6. R[s[j]] = Nil
  <2>1. \A i \in j+1..n : s[j] # s[i]
    <3>1. \A i \in j+1..n : i \in 1..n /\ i # j
      BY <1>0
    <3> QED
      BY <3>1 DEF Once
  <2> QED
    BY <1>0, <1>5, <2>1
<1>7. Along(R, v)
  <2> SUFFICES ASSUME NEW a \in 1..n-j+1 PROVE R[v[a]] = IF a = n-j+1 THEN Nil ELSE v[a+1]
    BY <1>2 DEF Along
  <2>1. CASE a = n-j+1
    <3>1. n+1-a = j
      BY <1>0, <2>1
    <3> QED
      BY <1>1, <1>6, <2>1, <3>1
  <2>2. CASE a # n-j+1
    <3>1. n-a \in j..n-1 /\ n+1-a = (n-a)+1 /\ a+1 \in 1..n-j+1 /\ n+1-(a+1) = n-a
      BY <1>0, <2>2
    <3>2. R[s[(n-a)+1]] = s[n-a]
      BY <1>5, <3>1
    <3>3. v[a] = s[(n-a)+1] /\ v[a+1] = s[n-a]
      BY <1>1, <3>1
    <3> QED
      BY <2>2, <3>2, <3>3
  <2> QED
    BY <2>1, <2>2
<1>8. Follow(R, v[1]) = v
  BY <1>2, <1>3, <1>4, <1>7, FollowIs
<1> QED
  BY <1>1, <1>2, <1>3, <1>8 DEF R, v

(* Without takes one block out. *)
LEMMA WithoutIs ==
  ASSUME NEW r \in Seq(Threads), Once(r), NEW t \in Threads
  PROVE  /\ (\A i \in 1..Len(r) : r[i] # t) => Without(r, t) = r /\ ~FoundOn(t, r)
         /\ \A m \in 1..Len(r) : r[m] = t =>
              /\ FoundOn(t, r)
              /\ Without(r, t) \in Seq(Threads) /\ Len(Without(r, t)) = Len(r) - 1
              /\ \A i \in 1..Len(r)-1 : Without(r, t)[i] = IF i < m THEN r[i] ELSE r[i+1]
<1>0. Len(r) \in Nat /\ r \in [1..Len(r) -> Threads] /\ DOMAIN r = 1..Len(r)
  BY LenProperties
<1>1. (\A i \in 1..Len(r) : r[i] # t) => Without(r, t) = r /\ ~FoundOn(t, r)
  BY <1>0 DEF Without, FoundOn
<1>2. ASSUME NEW m \in 1..Len(r), r[m] = t
      PROVE  /\ FoundOn(t, r)
             /\ Without(r, t) \in Seq(Threads) /\ Len(Without(r, t)) = Len(r) - 1
             /\ \A i \in 1..Len(r)-1 : Without(r, t)[i] = IF i < m THEN r[i] ELSE r[i+1]
  <2>1. {k \in DOMAIN r : r[k] = t} = {m}
    BY <1>0, <1>2 DEF Once
  <2>2. Without(r, t) = [i \in 1..Len(r)-1 |-> IF i < m THEN r[i] ELSE r[i+1]]
    BY <2>1 DEF Without
  <2>3. \A i \in 1..Len(r)-1 : i \in 1..Len(r) /\ i+1 \in 1..Len(r)
    BY <1>0
  <2>4. Without(r, t) \in [1..Len(r)-1 -> Threads] /\ Len(r)-1 \in Nat
    BY <1>0, <2>2, <2>3
  <2>5. Without(r, t) \in Seq(Threads) /\ Len(Without(r, t)) = Len(r) - 1
    BY <2>4
  <2> QED
    BY <1>0, <1>2, <2>2, <2>5 DEF FoundOn
<1> QED
  BY <1>1, <1>2

(* Leaving the thread at place m out of a list closes the gap and keeps the *)
(* order.                                                                   *)
LEMMA WithoutAt ==
  ASSUME NEW r \in Seq(Threads), Once(r), NEW t \in Threads, NEW m \in 1..Len(r), r[m] = t
  PROVE  /\ FoundOn(t, r)
         /\ Without(r, t) \in Seq(Threads) /\ Len(Without(r, t)) = Len(r) - 1
         /\ \A i \in 1..Len(r)-1 : Without(r, t)[i] = IF i < m THEN r[i] ELSE r[i+1]
  BY WithoutIs

-----------------------------------------------------------------------------
(* The inductive invariant.  The list is a ghost: some s without repetition *)
(* through which the links lead from the word, made of the sleepers.        *)

Chain(s) ==
    /\ Once(s)
    /\ s = <<>> => cv.tail = Nil
    /\ s # <<>> => cv.tail = s[1]
    /\ Along(back, s)
    /\ \A w \in Threads : FoundOn(w, s) <=> w \in Sleepers

(* The Link owner t walks from block j: the ones pushed since know nothing  *)
(* and t, if it is to unlink itself, is not among them.                     *)
FromTail(s, t, j) ==
    /\ s[j] = status[t].tail
    /\ \A i \in 1..j-1 : notify[s[i]] = Nil /\ next[s[i]] = Nil /\ (pc[t] = "unlink" => s[i] # t)
    /\ pc[t] # "unlink" => next[s[j]] = Nil
    /\ pc[t] = "wakeEmpty" => j = Len(s)

Snapshots(s) == \A t \in LinkOwners : \E j \in 1..Len(s) : FromTail(s, t, j)

Unlinking == \E t \in Threads : pc[t] = "unlink"

Known(s) == s # <<>> /\ ~Unlinking => \E k \in 1..Len(s) : KnownFrom(s, 1, k)

Newest(s) == s # <<>> /\ ~Unlinking => next[s[1]] = Nil

Shape(s) == Chain(s) /\ Snapshots(s) /\ Known(s) /\ Newest(s)

Waking == {"waking", "wakeStop", "wakeEmpty", "release", "releasing"}

(* What thread t's position says about the rest of its state. *)
FlowOf(t) ==
    /\ caller[t] # "none" <=> pc[t] \in Waking
    /\ pc[t] \notin Waking => wake[t] = <<>>
    /\ AfterPark(t) => ~spin[t]
    /\ removed[t] => pc[t] \in {"unlink", "relock"} \/ caller[t] = "single"
    /\ caller[t] = "single" => (removed[t] \/ t \in Taken) /\ ~FoundOn(t, wake[t])
    /\ t \in LinkOwners => status[t].link
    /\ t \in LinkOwners /\ caller[t] = "none" /\ pc[t] # "unlink" => status[t].count = 0
    /\ pc[t] \in {"wakeStop", "wakeEmpty"} => status[t].count # Full
    /\ pc[t] = "wakeStop" => Len(wake[t]) >= base[t] + status[t].count

Words == /\ cv.link => cv.tail # Nil
         /\ ~cv.link => cv.count = 0

(* No thread is taken twice. *)
Apart ==
    /\ \A t \in Threads : Once(wake[t])
    /\ \A t, u, w \in Threads : FoundOn(w, wake[t]) /\ FoundOn(w, wake[u]) => t = u

Releases == \A t \in Threads : pc[t] = "releasing" =>
                wake[t] # <<>> /\ AfterPark(Head(wake[t])) /\ Head(wake[t]) # t

Local == /\ TypeOK
         /\ LinkHasOneOwner
         /\ Words
         /\ \A t \in Threads : FlowOf(t)
         /\ Apart
         /\ \A w \in Taken : Pending(w)
         /\ Releases

IInv == Local /\ \E s \in Seq(Threads) : Shape(s)

-----------------------------------------------------------------------------
(* Membership in sequences.                                                 *)

LEMMA FoundIs ==
  ASSUME NEW s \in Seq(Threads), NEW w
  PROVE  FoundOn(w, s) <=> \E i \in 1..Len(s) : s[i] = w
  BY LenProperties DEF FoundOn

(* Nobody is on an empty list. *)
LEMMA NotOnEmpty == \A w : ~FoundOn(w, <<>>)
  BY DEF FoundOn

(* A thread is taken if it is on the wake list of some thread. *)
LEMMA TakenIs ==
  ASSUME NEW w \in Threads
  PROVE  w \in Taken <=> \E t \in Threads : FoundOn(w, wake[t])
  BY DEF Taken, FoundOn

(* Without its head, a wake list holds the others, each once. *)
LEMMA TailOnce ==
  ASSUME NEW r \in Seq(Threads), Once(r), r # <<>>
  PROVE  /\ Head(r) \in Threads /\ FoundOn(Head(r), r)
         /\ Tail(r) \in Seq(Threads) /\ Once(Tail(r))
         /\ \A w \in Threads : FoundOn(w, Tail(r)) <=> FoundOn(w, r) /\ w # Head(r)
<1> DEFINE n == Len(r)
           v == Tail(r)
<1>0. n \in Nat \ {0} /\ r \in [1..n -> Threads] /\ Head(r) = r[1]
  BY LenProperties, EmptySeq, HeadTailProperties
<1>1. v \in Seq(Threads) /\ Len(v) = n - 1 /\ \A i \in 1..n-1 : v[i] = r[i+1]
  BY HeadTailProperties
<1> HIDE DEF v
<1>2. Head(r) \in Threads /\ FoundOn(Head(r), r)
  BY <1>0, FoundIs
<1>3. Once(v)
  <2> SUFFICES ASSUME NEW a \in 1..n-1, NEW b \in 1..n-1, v[a] = v[b] PROVE a = b
    BY <1>1 DEF Once
  <2>1. a + 1 \in 1..n /\ b + 1 \in 1..n /\ r[a+1] = r[b+1]
    BY <1>0, <1>1
  <2>2. a + 1 = b + 1
    BY <2>1 DEF Once
  <2> QED
    BY <1>0, <2>2
<1>4. ASSUME NEW w \in Threads PROVE FoundOn(w, v) <=> FoundOn(w, r) /\ w # Head(r)
  <2>1. ASSUME FoundOn(w, v) PROVE FoundOn(w, r) /\ w # Head(r)
    <3>1. PICK i \in 1..n-1 : v[i] = w
      BY <1>1, <2>1, FoundIs
    <3>2. i + 1 \in 1..n /\ i + 1 # 1 /\ 1 \in 1..n /\ r[i+1] = w
      BY <1>0, <1>1, <3>1
    <3>3. r[i+1] # r[1]
      BY <3>2 DEF Once
    <3> QED
      BY <1>0, <3>2, <3>3, FoundIs
  <2>2. ASSUME FoundOn(w, r), w # Head(r) PROVE FoundOn(w, v)
    <3>1. PICK i \in 1..n : r[i] = w
      BY <2>2, FoundIs
    <3>2. i - 1 \in 1..n-1 /\ (i - 1) + 1 = i
      BY <1>0, <2>2, <3>1
    <3>3. v[i-1] = w
      BY <1>1, <3>1, <3>2
    <3> QED
      BY <1>1, <3>2, <3>3, FoundIs
  <2> QED
    BY <2>1, <2>2
<1> QED
  BY <1>1, <1>2, <1>3, <1>4 DEF v

(* Two lists without repetition and without a common thread, one behind the *)
(* other, hold the threads of both, each once.                              *)
LEMMA ConcatOnce ==
  ASSUME NEW a \in Seq(Threads), NEW b \in Seq(Threads), Once(a), Once(b),
         \A w \in Threads : ~(FoundOn(w, a) /\ FoundOn(w, b))
  PROVE  /\ a \o b \in Seq(Threads) /\ Len(a \o b) = Len(a) + Len(b) /\ Once(a \o b)
         /\ \A w \in Threads : FoundOn(w, a \o b) <=> FoundOn(w, a) \/ FoundOn(w, b)
<1> DEFINE m == Len(a)
           n == Len(b)
           c == a \o b
<1>0. m \in Nat /\ n \in Nat /\ a \in [1..m -> Threads] /\ b \in [1..n -> Threads]
  BY LenProperties
<1>1. c \in Seq(Threads) /\ Len(c) = m + n /\ \A i \in 1..m+n : c[i] = IF i <= m THEN a[i] ELSE b[i-m]
  BY ConcatProperties
<1> HIDE DEF c
<1>2. \A x \in 1..m, y \in 1..n : a[x] # b[y]
  BY <1>0, FoundIs
<1>3. Once(c)
  <2> SUFFICES ASSUME NEW i \in 1..m+n, NEW j \in 1..m+n, c[i] = c[j] PROVE i = j
    BY <1>1 DEF Once
  <2>0. \A x \in 1..m+n : (x <= m => x \in 1..m) /\ (~(x <= m) => x - m \in 1..n)
    BY <1>0
  <2>1. CASE i <= m /\ j <= m
    BY <1>1, <2>0, <2>1 DEF Once
  <2>2. CASE ~(i <= m) /\ ~(j <= m)
    <3>1. i - m = j - m
      BY <1>1, <2>0, <2>2 DEF Once
    <3> QED
      BY <1>0, <3>1
  <2>3. CASE i <= m /\ ~(j <= m)
    BY <1>1, <1>2, <2>0, <2>3
  <2>4. CASE ~(i <= m) /\ j <= m
    BY <1>1, <1>2, <2>0, <2>4
  <2> QED
    BY <2>1, <2>2, <2>3, <2>4
<1>4. ASSUME NEW w \in Threads PROVE FoundOn(w, c) <=> FoundOn(w, a) \/ FoundOn(w, b)
  <2>1. ASSUME FoundOn(w, c) PROVE FoundOn(w, a) \/ FoundOn(w, b)
    <3>1. PICK i \in 1..m+n : c[i] = w
      BY <1>1, <2>1, FoundIs
    <3>2. (i <= m => i \in 1..m) /\ (~(i <= m) => i - m \in 1..n)
      BY <1>0
    <3> QED
      BY <1>1, <3>1, <3>2, FoundIs
  <2>2. ASSUME FoundOn(w, a) PROVE FoundOn(w, c)
    <3>1. PICK i \in 1..m : a[i] = w
      BY <2>2, FoundIs
    <3>2. i \in 1..m+n /\ i <= m
      BY <1>0
    <3> QED
      BY <1>1, <3>1, <3>2, FoundIs
  <2>3. ASSUME FoundOn(w, b) PROVE FoundOn(w, c)
    <3>1. PICK i \in 1..n : b[i] = w
      BY <2>3, FoundIs
    <3>2. i + m \in 1..m+n /\ ~(i + m <= m) /\ (i + m) - m = i
      BY <1>0
    <3>3. c[i+m] = w
      BY <1>1, <3>1, <3>2
    <3> QED
      BY <1>1, <3>2, <3>3, FoundIs
  <2> QED
    BY <2>1, <2>2, <2>3
<1> QED
  BY <1>1, <1>3, <1>4 DEF c

-----------------------------------------------------------------------------
(* The invariant holds initially, and says what is to be shown.             *)

LEMMA EmptyShape ==
  ASSUME cv.tail = Nil, LinkOwners = {}, Sleepers = {}
  PROVE  <<>> \in Seq(Threads) /\ Shape(<<>>)
<1>1. <<>> \in Seq(Threads) /\ Len(<<>>) = 0
  BY EmptySeq
<1> QED
  BY <1>1, NotOnEmpty DEF Shape, Chain, Snapshots, Known, Newest, Once, Along

(* Nobody sleeps at the beginning. *)
LEMMA InitInvariant == Init => IInv
<1> SUFFICES ASSUME Init PROVE IInv
  OBVIOUS
<1>0. \A t \in Threads : /\ pc[t] = "idle" /\ wake[t] = <<>> /\ caller[t] = "none"
                         /\ removed[t] = FALSE /\ spin[t] = FALSE
  BY DEF Init
<1>1. TypeOK
  <2>1. Empty \in Word
    BY DEF Empty, Word, Full
  <2>2. <<>> \in Seq(Threads)
    BY EmptySeq
  <2> QED
    BY <2>1, <2>2 DEF Init, TypeOK, Labels
<1>2. LinkOwners = {} /\ cv = Empty
  BY <1>0 DEF LinkOwners, Init
<1>3. \A w, t \in Threads : ~FoundOn(w, wake[t])
  BY <1>0, NotOnEmpty
<1>4. Taken = {}
  <2>1. \A w \in Threads : w \notin Taken
    BY <1>3, TakenIs
  <2> QED
    BY <2>1 DEF Taken
<1>5. Sleepers = {}
  BY <1>0 DEF Sleepers, Pending, BeforePark, AfterPark
<1>6. LinkHasOneOwner /\ Words
  BY <1>2 DEF LinkHasOneOwner, Words, Empty
<1>7. \A t \in Threads : FlowOf(t)
  BY <1>0, <1>2 DEF FlowOf, Waking, AfterPark
<1>8. Apart
  <2>1. Once(<<>>)
    BY EmptySeq DEF Once
  <2> QED
    BY <1>0, <1>3, <2>1 DEF Apart
<1>9. Releases
  BY <1>0 DEF Releases
<1>10. \E s \in Seq(Threads) : Shape(s)
  BY <1>2, <1>5, EmptyShape DEF Empty
<1> QED
  BY <1>1, <1>4, <1>6, <1>7, <1>8, <1>9, <1>10 DEF IInv, Local

(* The ghost is what Follow finds. *)
LEMMA ChainIs ==
  ASSUME NEW s \in Seq(Threads), Chain(s)
  PROVE  Follow(back, cv.tail) = s
<1>1. CASE s = <<>>
  BY <1>1, FollowNil DEF Chain
<1>2. CASE s # <<>>
  <2>1. Once(s) /\ Along(back, s) /\ cv.tail = s[1]
    BY <1>2 DEF Chain
  <2> QED
    BY <1>2, <2>1, FollowIs
<1> QED
  BY <1>1, <1>2

(* The inductive invariant implies the properties the run checks. *)
LEMMA InvariantSuffices == IInv => LinkHasOneOwner /\ ListOfSleepers /\ ReleaseMeetsSleeper
<1> SUFFICES ASSUME IInv PROVE LinkHasOneOwner /\ ListOfSleepers /\ ReleaseMeetsSleeper
  OBVIOUS
<1>0. Local /\ TypeOK
  BY DEF IInv, Local
<1>1. PICK s \in Seq(Threads) : Shape(s)
  BY DEF IInv
<1>2. Follow(back, cv.tail) = s
  BY <1>1, ChainIs DEF Shape
<1>3. DOMAIN s = 1..Len(s) /\ Len(s) \in Nat /\ s \in [1..Len(s) -> Threads]
  BY LenProperties
<1>4. {s[i] : i \in DOMAIN s} = Sleepers
  <2>1. \A w \in Threads : FoundOn(w, s) <=> w \in Sleepers
    BY <1>1 DEF Shape, Chain
  <2>2. Sleepers \subseteq Threads
    BY DEF Sleepers
  <2> QED
    BY <1>3, <2>1, <2>2 DEF FoundOn
<1>5. \A i, j \in DOMAIN s : s[i] = s[j] => i = j
  BY <1>1, <1>3 DEF Shape, Chain, Once
<1>6. ASSUME s # <<>>
      PROVE  back[s[Len(s)]] = Nil /\ ((\A t \in Threads : pc[t] # "unlink") => Oldest(cv.tail) = s[Len(s)])
  <2>1. Len(s) \in 1..Len(s) /\ 1 \in 1..Len(s)
    BY <1>3, <1>6, EmptySeq
  <2>2. Once(s) /\ Along(back, s) /\ cv.tail = s[1]
    BY <1>1, <1>6 DEF Shape, Chain
  <2>3. back[s[Len(s)]] = Nil
    BY <2>1, <2>2 DEF Along
  <2>4. ASSUME \A t \in Threads : pc[t] # "unlink" PROVE Oldest(cv.tail) = s[Len(s)]
    <3>1. PICK k \in 1..Len(s) : KnownFrom(s, 1, k)
      BY <1>1, <1>6, <2>4 DEF Shape, Known, Unlinking
    <3> QED
      BY <2>1, <2>2, <3>1, OldestIs
  <2> QED
    BY <2>3, <2>4
<1>7. ListOfSleepers
  BY <1>0, <1>2, <1>4, <1>5, <1>6 DEF ListOfSleepers
<1>8. \A t, u \in Threads : t # u => \A i \in DOMAIN wake[t], j \in DOMAIN wake[u] : wake[t][i] # wake[u][j]
  <2> SUFFICES ASSUME NEW t \in Threads, NEW u \in Threads, t # u,
                      NEW i \in DOMAIN wake[t], NEW j \in DOMAIN wake[u]
               PROVE  wake[t][i] # wake[u][j]
    OBVIOUS
  <2>1. wake[t] \in Seq(Threads) /\ wake[t][i] \in Threads
    <3>1. wake[t] \in Seq(Threads)
      BY <1>0 DEF TypeOK
    <3> QED
      BY <3>1, LenProperties
  <2> QED
    BY <1>0, <2>1 DEF Local, Apart, FoundOn
<1>9. ReleaseMeetsSleeper
  BY <1>0, <1>8 DEF ReleaseMeetsSleeper, Local, Releases
<1> QED
  BY <1>0, <1>7, <1>9 DEF Local

-----------------------------------------------------------------------------
(* Steps that leave a thread, or the list, alone.                           *)

Same(u) == /\ pc'[u] = pc[u] /\ caller'[u] = caller[u] /\ spin'[u] = spin[u]
           /\ removed'[u] = removed[u] /\ status'[u] = status[u]
           /\ base'[u] = base[u] /\ wake'[u] = wake[u]

(* A thread whose own state stays keeps its part in the protocol. *)
LEMMA SameThread ==
  ASSUME NEW u \in Threads, Same(u)
  PROVE  /\ Pending(u)' <=> Pending(u)
         /\ AfterPark(u)' <=> AfterPark(u)
         /\ u \in LinkOwners' <=> u \in LinkOwners
         /\ FlowOf(u) /\ (u \in Taken => u \in Taken') => FlowOf(u)'
<1>1. /\ Pending(u)' <=> Pending(u)
      /\ AfterPark(u)' <=> AfterPark(u)
  BY DEF Same, Pending, BeforePark, AfterPark
<1>2. u \in LinkOwners' <=> u \in LinkOwners
  BY DEF Same, LinkOwners
<1>3. ASSUME FlowOf(u), u \in Taken => u \in Taken' PROVE FlowOf(u)'
  BY <1>1, <1>2, <1>3 DEF Same, FlowOf
<1> QED
  BY <1>1, <1>2, <1>3

(* How the Link changes hands. *)
LinkMoves(t) ==
    \/ (t \in LinkOwners' <=> t \in LinkOwners) /\ cv'.link = cv.link
    \/ ~cv.link /\ cv'.link /\ t \in LinkOwners'
    \/ t \in LinkOwners /\ t \notin LinkOwners' /\ ~cv'.link

(* If the Link bit and the ownership of t change together, the Link still   *)
(* has one owner.                                                           *)
LEMMA OwnerStep ==
  ASSUME NEW t \in Threads, LinkHasOneOwner, LinkMoves(t), \A u \in Threads \ {t} : Same(u)
  PROVE  LinkHasOneOwner'
<1>0. LinkOwners \subseteq Threads /\ LinkOwners' \subseteq Threads
  BY DEF LinkOwners
<1>1. \A u \in Threads \ {t} : u \in LinkOwners' <=> u \in LinkOwners
  BY SameThread
<1>2. CASE (t \in LinkOwners' <=> t \in LinkOwners) /\ cv'.link = cv.link
  <2>1. LinkOwners' = LinkOwners
    BY <1>0, <1>1, <1>2
  <2> QED
    BY <1>2, <2>1 DEF LinkHasOneOwner
<1>3. CASE ~cv.link /\ cv'.link /\ t \in LinkOwners'
  <2>1. LinkOwners' = {t}
    BY <1>0, <1>1, <1>3 DEF LinkHasOneOwner
  <2> QED
    BY <1>3, <2>1 DEF LinkHasOneOwner
<1>4. CASE t \in LinkOwners /\ t \notin LinkOwners' /\ ~cv'.link
  <2>1. LinkOwners' = {}
    BY <1>0, <1>1, <1>4 DEF LinkHasOneOwner
  <2> QED
    BY <1>4, <2>1 DEF LinkHasOneOwner
<1> QED
  BY <1>2, <1>3, <1>4 DEF LinkMoves

(* Nothing is taken: only t changes, and if t has been taken it stays where *)
(* its waker will find it.                                                  *)
Settled(t) ==
    /\ \A u \in Threads \ {t} : Same(u)
    /\ wake' = wake
    /\ t \in Taken => Pending(t)'
    /\ AfterPark(t) /\ t \in Taken => AfterPark(t)'
    /\ FlowOf(t)'
    /\ pc'[t] = "releasing" =>
         \/ pc[t] = "releasing"
         \/ wake[t] # <<>> /\ AfterPark(Head(wake[t])) /\ Head(wake[t]) # t

(* A step that takes and releases nobody keeps the local part of the        *)
(* invariant.                                                               *)
LEMMA SettledLocal ==
  ASSUME NEW t \in Threads, Local, Settled(t), TypeOK', Words', LinkMoves(t)
  PROVE  /\ Local' /\ Taken' = Taken
         /\ \A u \in Threads \ {t} : Pending(u)' <=> Pending(u)
<1>1. Taken' = Taken
  BY DEF Taken, Settled
<1>2. \A u \in Threads \ {t} : Pending(u)' <=> Pending(u)
  BY SameThread DEF Settled
<1>4. \A u \in Threads : FlowOf(u)'
  <2> SUFFICES ASSUME NEW u \in Threads, u # t PROVE FlowOf(u)'
    BY DEF Settled
  <2>1. Same(u) /\ FlowOf(u)
    BY DEF Settled, Local
  <2> QED
    BY <1>1, <2>1, SameThread
<1>5. Apart'
  BY DEF Settled, Local, Apart, Once, FoundOn
<1>6. \A w \in Taken' : Pending(w)'
  <2>1. Taken \subseteq Threads
    BY DEF Taken
  <2> QED
    BY <1>1, <1>2, <2>1 DEF Local, Settled
<1>7. Releases'
  <2> SUFFICES ASSUME NEW u \in Threads, pc'[u] = "releasing"
               PROVE  wake[u] # <<>> /\ AfterPark(Head(wake[u]))' /\ Head(wake[u]) # u
    BY DEF Settled, Releases
  <2>2. wake[u] # <<>> /\ AfterPark(Head(wake[u])) /\ Head(wake[u]) # u
    BY DEF Settled, Same, Local, Releases
  <2>3. PICK w \in Threads : w = Head(wake[u]) /\ w \in Taken
    <3>1. wake[u] \in Seq(Threads) /\ Once(wake[u])
      BY DEF Local, TypeOK, Apart
    <3>2. Head(wake[u]) \in Threads /\ FoundOn(Head(wake[u]), wake[u])
      BY <2>2, <3>1, TailOnce
    <3> QED
      BY <3>2, TakenIs
  <2>4. AfterPark(w)'
    BY <2>2, <2>3, SameThread DEF Settled
  <2> QED
    BY <2>2, <2>3, <2>4 DEF AfterPark, Settled
<1>8. LinkHasOneOwner'
  BY OwnerStep DEF Settled, Local
<1> QED
  BY <1>1, <1>2, <1>4, <1>5, <1>6, <1>7, <1>8 DEF Local

(* Nor does t start or stop being a sleeper. *)
Quiet(t) == Settled(t) /\ (Pending(t)' <=> Pending(t))

(* If it starts and ends no sleep either, the set of sleepers stays. *)
LEMMA QuietLocal ==
  ASSUME NEW t \in Threads, Local, Quiet(t), TypeOK', Words', LinkMoves(t)
  PROVE  Local' /\ Sleepers' = Sleepers
<1>1. /\ Local' /\ Taken' = Taken
      /\ \A u \in Threads \ {t} : Pending(u)' <=> Pending(u)
  BY SettledLocal DEF Quiet
<1> QED
  BY <1>1 DEF Sleepers, Quiet

(* The list stays, and its owner works on it from the same block on, or     *)
(* starts again from the word.                                              *)
ListStays(t) ==
    /\ cv'.tail = cv.tail
    /\ \A w \in Sleepers : back'[w] = back[w] /\ notify'[w] = notify[w] /\ next'[w] = next[w]
    /\ Unlinking => Unlinking'
    /\ \A u \in LinkOwners' :
         \/ /\ u \in LinkOwners /\ status'[u].tail = status[u].tail
            /\ pc'[u] = "unlink" <=> pc[u] = "unlink"
            /\ pc'[u] = "wakeEmpty" => pc[u] = "wakeEmpty"
         \/ /\ status'[u].tail = cv.tail /\ cv.tail # Nil /\ pc'[u] # "wakeEmpty"
            /\ pc'[u] # "unlink" => ~Unlinking

(* A list nobody relinks keeps its shape. *)
LEMMA KeepShape ==
  ASSUME NEW s \in Seq(Threads), Shape(s), NEW t, ListStays(t), Sleepers' = Sleepers
  PROVE  Shape(s)'
<1>0. Len(s) \in Nat /\ s \in [1..Len(s) -> Threads] /\ (s # <<>> => 1 \in 1..Len(s))
  BY LenProperties, EmptySeq
<1>1. \A i \in 1..Len(s) : /\ s[i] \in Threads /\ back'[s[i]] = back[s[i]]
                           /\ notify'[s[i]] = notify[s[i]] /\ next'[s[i]] = next[s[i]]
  <2>1. \A i \in 1..Len(s) : s[i] \in Threads /\ FoundOn(s[i], s)
    BY <1>0, FoundIs
  <2>2. \A i \in 1..Len(s) : s[i] \in Sleepers
    BY <2>1 DEF Shape, Chain
  <2> QED
    BY <2>1, <2>2 DEF ListStays
<1>2. Chain(s)'
  <2>1. Along(back', s)
    BY <1>1 DEF Shape, Chain, Along
  <2> QED
    BY <2>1 DEF Shape, Chain, Along, ListStays
<1>3. Newest(s)'
  BY <1>0, <1>1 DEF Shape, Newest, ListStays
<1>4. Known(s)'
  <2> SUFFICES ASSUME s # <<>>, ~Unlinking' PROVE \E k \in 1..Len(s) : KnownFrom(s, 1, k)'
    BY DEF Known
  <2>1. PICK k \in 1..Len(s) : KnownFrom(s, 1, k)
    BY DEF Shape, Known, ListStays
  <2>2. \A i \in 1..k-1 : i \in 1..Len(s)
    BY <1>0
  <2>3. \A i \in k..Len(s)-1 : i + 1 \in 1..Len(s)
    BY <1>0
  <2>4. KnownFrom(s, 1, k)'
    BY <1>1, <2>1, <2>2, <2>3 DEF KnownFrom
  <2> QED
    BY <2>4
<1>5. Snapshots(s)'
  <2> SUFFICES ASSUME NEW u \in LinkOwners' PROVE \E j \in 1..Len(s) : FromTail(s, u, j)'
    BY DEF Snapshots
  <2>1. CASE /\ u \in LinkOwners /\ status'[u].tail = status[u].tail
             /\ pc'[u] = "unlink" <=> pc[u] = "unlink"
             /\ pc'[u] = "wakeEmpty" => pc[u] = "wakeEmpty"
    <3>1. PICK j \in 1..Len(s) : FromTail(s, u, j)
      BY <2>1 DEF Shape, Snapshots
    <3>2. \A i \in 1..j-1 : i \in 1..Len(s)
      BY <1>0
    <3>3. FromTail(s, u, j)'
      BY <1>1, <2>1, <3>1, <3>2 DEF FromTail
    <3> QED
      BY <3>3
  <2>2. CASE /\ status'[u].tail = cv.tail /\ cv.tail # Nil /\ pc'[u] # "wakeEmpty"
             /\ pc'[u] # "unlink" => ~Unlinking
    <3>1. s # <<>> /\ cv.tail = s[1] /\ 1 \in 1..Len(s)
      BY <1>0, <2>2 DEF Shape, Chain
    <3>2. pc'[u] # "unlink" => next'[s[1]] = Nil
      BY <1>1, <2>2, <3>1 DEF Shape, Newest
    <3>3. FromTail(s, u, 1)'
      BY <2>2, <3>1, <3>2 DEF FromTail
    <3> QED
      BY <3>1, <3>3
  <2> QED
    BY <2>1, <2>2 DEF ListStays
<1> QED
  BY <1>2, <1>3, <1>4, <1>5 DEF Shape

(* The invariant survives every step that leaves the list and the sleepers  *)
(* alone.                                                                   *)
LEMMA QuietStep ==
  ASSUME NEW t \in Threads, IInv, Quiet(t), TypeOK', Words', LinkMoves(t), ListStays(t)
  PROVE  IInv'
<1>1. Local' /\ Sleepers' = Sleepers
  BY QuietLocal DEF IInv
<1>2. PICK s \in Seq(Threads) : Shape(s)
  BY DEF IInv
<1>3. Shape(s)'
  BY <1>1, <1>2, KeepShape
<1> QED
  BY <1>1, <1>3 DEF IInv

(* Every value the code stores in the word is a word. *)
LEMMA WordTypes ==
  ASSUME TypeOK
  PROVE  /\ Empty \in Word
         /\ cv \in Word /\ cv.tail \in Ptr /\ cv.link \in BOOLEAN
         /\ [cv EXCEPT !.link = TRUE] \in Word
         /\ RequestAll(cv) \in Word
         /\ Resting(cv.tail) \in Word
         /\ cv.count # Full => [cv EXCEPT !.count = @ + 1] \in Word
<1>1. /\ cv \in Word /\ cv.tail \in Ptr /\ cv.link \in BOOLEAN /\ cv.count \in 0..Full
      /\ cv = [tail |-> cv.tail, link |-> cv.link, count |-> cv.count]
  BY DEF TypeOK, Word, Ptr
<1>2. Empty \in Word /\ RequestAll(cv) \in Word /\ Resting(cv.tail) \in Word
  BY <1>1 DEF Word, Empty, Resting, RequestAll, Full, Ptr
<1>3. [cv EXCEPT !.link = TRUE] \in Word
  BY <1>1 DEF Word, Ptr
<1>4. ASSUME cv.count # Full PROVE [cv EXCEPT !.count = @ + 1] \in Word
  <2>1. cv.count + 1 \in 0..Full
    BY <1>1, <1>4 DEF Full
  <2> QED
    BY <1>1, <2>1 DEF Word, Ptr
<1> QED
  BY <1>1, <1>2, <1>3, <1>4

(* The Link owner is alone, and without the Link nobody unlinks itself. *)
LEMMA OwnerIs ==
  ASSUME TypeOK, LinkHasOneOwner
  PROVE  /\ ~cv.link => LinkOwners = {} /\ ~Unlinking
         /\ \A t \in LinkOwners : cv.link /\ cv.link = TRUE /\ LinkOwners = {t} /\ (Unlinking <=> pc[t] = "unlink")
<1>1. \A t \in Threads : pc[t] = "unlink" => t \in LinkOwners
  BY DEF LinkOwners
<1>2. cv.link \in BOOLEAN /\ LinkOwners \subseteq Threads
  BY DEF TypeOK, Word, LinkOwners
<1> QED
  BY <1>1, <1>2 DEF LinkHasOneOwner, Unlinking

(* A step that writes no link, and whose thread reads the list from where   *)
(* it was or from its newest block, leaves the list alone.                  *)
LEMMA StaysLocal ==
  ASSUME NEW t \in Threads, \A u \in Threads \ {t} : Same(u),
         cv'.tail = cv.tail, back' = back /\ notify' = notify /\ next' = next,
         pc[t] = "unlink" => pc'[t] = "unlink",
         t \in LinkOwners' =>
           \/ /\ t \in LinkOwners /\ status'[t].tail = status[t].tail
              /\ pc'[t] = "unlink" <=> pc[t] = "unlink"
              /\ pc'[t] = "wakeEmpty" => pc[t] = "wakeEmpty"
           \/ /\ status'[t].tail = cv.tail /\ cv.tail # Nil /\ pc'[t] # "wakeEmpty"
              /\ pc'[t] # "unlink" => ~Unlinking
  PROVE  ListStays(t)
<1>1. Unlinking => Unlinking'
  BY DEF Unlinking, Same
<1>2. \A u \in Threads \ {t} : u \in LinkOwners' =>
        /\ u \in LinkOwners /\ status'[u].tail = status[u].tail
        /\ pc'[u] = "unlink" <=> pc[u] = "unlink"
        /\ pc'[u] = "wakeEmpty" => pc[u] = "wakeEmpty"
  BY SameThread DEF Same
<1>3. LinkOwners' \subseteq Threads
  BY DEF LinkOwners
<1> QED
  BY <1>1, <1>2, <1>3 DEF ListStays

(* Giving the Link back after the requested wake-ups keeps the invariant. *)
LEMMA WakeStopKeeps ==
  ASSUME IInv, NEW t \in Threads, WakeStop(t)
  PROVE  IInv'
<1>0. Local /\ TypeOK /\ FlowOf(t) /\ LinkHasOneOwner /\ Words /\ (t \in Taken => Pending(t))
  BY DEF IInv, Local
<1>1. wake' = wake /\ \A u \in Threads \ {t} : Same(u)
  BY <1>0 DEF WakeStop, Goto, TypeOK, Same, work, FlowOf, Waking
<1>2. TypeOK'
  <2>1. cv' \in Word /\ Empty \in Word
    BY <1>0, WordTypes DEF WakeStop
  <2>2. pc' \in [Threads -> Labels]
    BY <1>0 DEF WakeStop, Goto, TypeOK, Labels
  <2>3. status' \in [Threads -> Word]
    BY <1>0, <2>1 DEF WakeStop, TypeOK, work
  <2>4. caller' \in [Threads -> {"none", "wake", "optimize", "single"}] /\ base' \in [Threads -> {0, 1}]
    BY <1>0 DEF WakeStop, TypeOK, work
  <2> QED
    BY <1>0, <1>1, <2>1, <2>2, <2>3, <2>4 DEF WakeStop, TypeOK, links
<1>3. Words'
  BY <1>0 DEF WakeStop, Words, Word, TypeOK, Empty, Resting
<1>4. LinkMoves(t)
  BY <1>0 DEF WakeStop, Goto, TypeOK, LinkMoves, LinkOwners, LinkHasOneOwner, Word, work, Empty, Resting
<1>5. FlowOf(t)'
  <2>1. Taken' = Taken
    BY <1>1 DEF Taken
  <2>2. t \in LinkOwners => cv.link = TRUE
    BY <1>0, OwnerIs
  <2> QED
    BY <1>0, <1>1, <2>1, <2>2 DEF WakeStop, Goto, TypeOK, FlowOf, Waking, AfterPark, LinkOwners, FoundOn, Full, Word, work, Empty
<1>6. Quiet(t)
  BY <1>0, <1>1, <1>5 DEF WakeStop, Goto, TypeOK, Quiet, Settled, Pending, BeforePark, AfterPark, FlowOf, Waking, work
<1>7. ListStays(t)
  <2>1. t \in LinkOwners => cv.tail # Nil /\ (Unlinking <=> pc[t] = "unlink")
    BY <1>0, OwnerIs DEF Words
  <2>2. ~cv.link => ~Unlinking
    BY <1>0, OwnerIs
  <2>3. cv'.tail = cv.tail /\ back' = back /\ notify' = notify /\ next' = next
    BY <1>0 DEF WakeStop, links, TypeOK, Word, Resting
  <2>4. pc[t] = "unlink" => pc'[t] = "unlink"
    BY <1>0 DEF WakeStop, Goto, TypeOK
  <2>5. t \in LinkOwners' =>
           \/ /\ t \in LinkOwners /\ status'[t].tail = status[t].tail
              /\ pc'[t] = "unlink" <=> pc[t] = "unlink"
              /\ pc'[t] = "wakeEmpty" => pc[t] = "wakeEmpty"
           \/ /\ status'[t].tail = cv.tail /\ cv.tail # Nil /\ pc'[t] # "wakeEmpty"
              /\ pc'[t] # "unlink" => ~Unlinking
    BY <1>0, <2>1, <2>2 DEF WakeStop, Goto, TypeOK, LinkOwners, Word, work
  <2> QED
    BY <1>1, <2>3, <2>4, <2>5, StaysLocal
<1> QED
  BY <1>2, <1>3, <1>4, <1>6, <1>7, QuietStep

(* Returning from the wake-up keeps the invariant. *)
LEMMA EndWakeKeeps ==
  ASSUME IInv, NEW t \in Threads, EndWake(t)
  PROVE  IInv'
<1>0. Local /\ TypeOK /\ FlowOf(t) /\ LinkHasOneOwner /\ Words /\ (t \in Taken => Pending(t))
  BY DEF IInv, Local
<1>a. /\ caller[t] \in {"wake", "optimize", "single"}
      /\ caller[t] = "wake" => AfterWake(t) = "idle"
      /\ caller[t] = "optimize" => AfterWake(t) = "spin"
      /\ caller[t] = "single" => AfterWake(t) = IF removed[t] THEN "relock" ELSE "blockedAgain"
  BY <1>0 DEF EndWake, AfterWake, TypeOK, FlowOf, Waking
<1>1. wake' = wake /\ \A u \in Threads \ {t} : Same(u)
  BY <1>0 DEF EndWake, Goto, TypeOK, Same, work, FlowOf, Waking
<1>2. TypeOK'
  <2>1. cv' \in Word /\ Empty \in Word
    BY <1>0, WordTypes DEF EndWake
  <2>2. pc' \in [Threads -> Labels]
    BY <1>0, <1>a DEF EndWake, Goto, TypeOK, Labels
  <2>3. status' \in [Threads -> Word]
    BY <1>0, <2>1 DEF EndWake, TypeOK, work
  <2>4. caller' \in [Threads -> {"none", "wake", "optimize", "single"}] /\ base' \in [Threads -> {0, 1}]
    BY <1>0 DEF EndWake, TypeOK, work
  <2> QED
    BY <1>0, <1>1, <2>1, <2>2, <2>3, <2>4 DEF EndWake, TypeOK, links
<1>3. Words'
  BY <1>0, <1>a DEF EndWake, Words, Word, TypeOK, Empty, Resting
<1>4. LinkMoves(t)
  BY <1>0, <1>a DEF EndWake, Goto, TypeOK, LinkMoves, LinkOwners, LinkHasOneOwner, Word, work, Empty, Resting
<1>5. FlowOf(t)'
  <2>1. Taken' = Taken
    BY <1>1 DEF Taken
  <2>2. t \in LinkOwners => cv.link = TRUE
    BY <1>0, OwnerIs
  <2> QED
    BY <1>0, <1>a, <1>1, <2>1, <2>2 DEF EndWake, Goto, TypeOK, FlowOf, Waking, AfterPark, LinkOwners, FoundOn, Full, Word, work, Empty
<1>6. Quiet(t)
  BY <1>0, <1>a, <1>1, <1>5 DEF EndWake, Goto, TypeOK, Quiet, Settled, Pending, BeforePark, AfterPark, FlowOf, Waking, work
<1>7. ListStays(t)
  <2>1. t \in LinkOwners => cv.tail # Nil /\ (Unlinking <=> pc[t] = "unlink")
    BY <1>0, OwnerIs DEF Words
  <2>2. ~cv.link => ~Unlinking
    BY <1>0, OwnerIs
  <2>3. cv'.tail = cv.tail /\ back' = back /\ notify' = notify /\ next' = next
    BY <1>0, <1>a DEF EndWake, links, TypeOK, Word, Resting
  <2>4. pc[t] = "unlink" => pc'[t] = "unlink"
    BY <1>0, <1>a DEF EndWake, Goto, TypeOK
  <2>5. t \in LinkOwners' =>
           \/ /\ t \in LinkOwners /\ status'[t].tail = status[t].tail
              /\ pc'[t] = "unlink" <=> pc[t] = "unlink"
              /\ pc'[t] = "wakeEmpty" => pc[t] = "wakeEmpty"
           \/ /\ status'[t].tail = cv.tail /\ cv.tail # Nil /\ pc'[t] # "wakeEmpty"
              /\ pc'[t] # "unlink" => ~Unlinking
    BY <1>0, <1>a, <2>1, <2>2 DEF EndWake, Goto, TypeOK, LinkOwners, Word, work
  <2> QED
    BY <1>1, <2>3, <2>4, <2>5, StaysLocal
<1> QED
  BY <1>2, <1>3, <1>4, <1>6, <1>7, QuietStep

(* A wake-one call, which takes the Link or leaves a request, keeps the     *)
(* invariant.                                                               *)
LEMMA RtlWakeKeeps ==
  ASSUME IInv, NEW t \in Threads, RtlWakeConditionVariable(t)
  PROVE  IInv'
<1>0. Local /\ TypeOK /\ FlowOf(t) /\ LinkHasOneOwner /\ Words /\ (t \in Taken => Pending(t))
  BY DEF IInv, Local
<1>1. wake' = wake /\ \A u \in Threads \ {t} : Same(u)
  BY <1>0 DEF RtlWakeConditionVariable, EnterWake, MayCount, Goto, TypeOK, Same, work, FlowOf, Waking
<1>2. TypeOK'
  <2>1. cv' \in Word /\ Empty \in Word
    BY <1>0, WordTypes DEF RtlWakeConditionVariable, MayCount
  <2>2. pc' \in [Threads -> Labels]
    <3>1. pc' = pc \/ \E l \in {"waking"} : pc' = [pc EXCEPT ![t] = l]
      BY DEF RtlWakeConditionVariable, EnterWake, Goto
    <3> QED
      BY <1>0, <3>1 DEF TypeOK, Labels
  <2>3. status' \in [Threads -> Word]
    BY <1>0, <2>1 DEF RtlWakeConditionVariable, EnterWake, MayCount, TypeOK, work
  <2>4. caller' \in [Threads -> {"none", "wake", "optimize", "single"}] /\ base' \in [Threads -> {0, 1}]
    BY <1>0 DEF RtlWakeConditionVariable, EnterWake, MayCount, TypeOK, work
  <2> QED
    BY <1>0, <1>1, <2>1, <2>2, <2>3, <2>4 DEF RtlWakeConditionVariable, EnterWake, MayCount, TypeOK, links
<1>3. Words'
  BY <1>0 DEF RtlWakeConditionVariable, EnterWake, MayCount, Words, Word, TypeOK, Empty, Resting
<1>4. LinkMoves(t)
  BY <1>0 DEF RtlWakeConditionVariable, EnterWake, MayCount, Goto, TypeOK, LinkMoves, LinkOwners, LinkHasOneOwner, Word, work, Empty, Resting
<1>5. FlowOf(t)'
  <2>1. Taken' = Taken
    BY <1>1 DEF Taken
  <2>2. t \in LinkOwners => cv.link = TRUE
    BY <1>0, OwnerIs
  <2> QED
    BY <1>0, <1>1, <2>1, <2>2 DEF RtlWakeConditionVariable, EnterWake, MayCount, Goto, TypeOK, FlowOf, Waking, AfterPark, LinkOwners, FoundOn, Full, Word, work, Empty
<1>6. Quiet(t)
  BY <1>0, <1>1, <1>5 DEF RtlWakeConditionVariable, EnterWake, MayCount, Goto, TypeOK, Quiet, Settled, Pending, BeforePark, AfterPark, FlowOf, Waking, work
<1>7. ListStays(t)
  <2>1. t \in LinkOwners => cv.tail # Nil /\ (Unlinking <=> pc[t] = "unlink")
    BY <1>0, OwnerIs DEF Words
  <2>2. ~cv.link => ~Unlinking
    BY <1>0, OwnerIs
  <2>3. cv'.tail = cv.tail /\ back' = back /\ notify' = notify /\ next' = next
    BY <1>0 DEF RtlWakeConditionVariable, EnterWake, MayCount, links, TypeOK, Word, Resting
  <2>4. pc[t] = "unlink" => pc'[t] = "unlink"
    BY <1>0 DEF RtlWakeConditionVariable, EnterWake, MayCount, Goto, TypeOK
  <2>5. t \in LinkOwners' =>
           \/ /\ t \in LinkOwners /\ status'[t].tail = status[t].tail
              /\ pc'[t] = "unlink" <=> pc[t] = "unlink"
              /\ pc'[t] = "wakeEmpty" => pc[t] = "wakeEmpty"
           \/ /\ status'[t].tail = cv.tail /\ cv.tail # Nil /\ pc'[t] # "wakeEmpty"
              /\ pc'[t] # "unlink" => ~Unlinking
    BY <1>0, <2>1, <2>2 DEF RtlWakeConditionVariable, EnterWake, MayCount, Goto, TypeOK, LinkOwners, Word, work
  <2> QED
    BY <1>1, <2>3, <2>4, <2>5, StaysLocal
<1> QED
  BY <1>2, <1>3, <1>4, <1>6, <1>7, QuietStep

(* The caller entering its lock keeps the invariant. *)
LEMMA AcquireLockKeeps ==
  ASSUME IInv, NEW t \in Threads, AcquireLock(t)
  PROVE  IInv'
<1>0. Local /\ TypeOK /\ FlowOf(t) /\ LinkHasOneOwner /\ Words /\ (t \in Taken => Pending(t))
  BY DEF IInv, Local
<1>1. wake' = wake /\ \A u \in Threads \ {t} : Same(u)
  BY <1>0 DEF AcquireLock, Goto, TypeOK, Same, work, FlowOf, Waking
<1>2. TypeOK'
  <2>1. cv' \in Word /\ Empty \in Word
    BY <1>0, WordTypes DEF AcquireLock
  <2>2. pc' \in [Threads -> Labels]
    BY <1>0 DEF AcquireLock, Goto, TypeOK, Labels
  <2>3. status' \in [Threads -> Word]
    BY <1>0, <2>1 DEF AcquireLock, TypeOK, work
  <2>4. caller' \in [Threads -> {"none", "wake", "optimize", "single"}] /\ base' \in [Threads -> {0, 1}]
    BY <1>0 DEF AcquireLock, TypeOK, work
  <2> QED
    BY <1>0, <1>1, <2>1, <2>2, <2>3, <2>4 DEF AcquireLock, TypeOK, links
<1>3. Words'
  BY <1>0 DEF AcquireLock, Words, Word, TypeOK, Empty, Resting
<1>4. LinkMoves(t)
  BY <1>0 DEF AcquireLock, Goto, TypeOK, LinkMoves, LinkOwners, LinkHasOneOwner, Word, work, Empty, Resting
<1>5. FlowOf(t)'
  <2>1. Taken' = Taken
    BY <1>1 DEF Taken
  <2>2. t \in LinkOwners => cv.link = TRUE
    BY <1>0, OwnerIs
  <2> QED
    BY <1>0, <1>1, <2>1, <2>2 DEF AcquireLock, Goto, TypeOK, FlowOf, Waking, AfterPark, LinkOwners, FoundOn, Full, Word, work, Empty
<1>6. Quiet(t)
  BY <1>0, <1>1, <1>5 DEF AcquireLock, Goto, TypeOK, Quiet, Settled, Pending, BeforePark, AfterPark, FlowOf, Waking, work
<1>7. ListStays(t)
  <2>1. t \in LinkOwners => cv.tail # Nil /\ (Unlinking <=> pc[t] = "unlink")
    BY <1>0, OwnerIs DEF Words
  <2>2. ~cv.link => ~Unlinking
    BY <1>0, OwnerIs
  <2>3. cv'.tail = cv.tail /\ back' = back /\ notify' = notify /\ next' = next
    BY <1>0 DEF AcquireLock, links, TypeOK, Word, Resting
  <2>4. pc[t] = "unlink" => pc'[t] = "unlink"
    BY <1>0 DEF AcquireLock, Goto, TypeOK
  <2>5. t \in LinkOwners' =>
           \/ /\ t \in LinkOwners /\ status'[t].tail = status[t].tail
              /\ pc'[t] = "unlink" <=> pc[t] = "unlink"
              /\ pc'[t] = "wakeEmpty" => pc[t] = "wakeEmpty"
           \/ /\ status'[t].tail = cv.tail /\ cv.tail # Nil /\ pc'[t] # "wakeEmpty"
              /\ pc'[t] # "unlink" => ~Unlinking
    BY <1>0, <2>1, <2>2 DEF AcquireLock, Goto, TypeOK, LinkOwners, Word, work
  <2> QED
    BY <1>1, <2>3, <2>4, <2>5, StaysLocal
<1> QED
  BY <1>2, <1>3, <1>4, <1>6, <1>7, QuietStep

(* Leaving the lock after enqueueing keeps the invariant. *)
LEMMA UnlockKeeps ==
  ASSUME IInv, NEW t \in Threads, Unlock(t)
  PROVE  IInv'
<1>0. Local /\ TypeOK /\ FlowOf(t) /\ LinkHasOneOwner /\ Words /\ (t \in Taken => Pending(t))
  BY DEF IInv, Local
<1>1. wake' = wake /\ \A u \in Threads \ {t} : Same(u)
  BY <1>0 DEF Unlock, Goto, TypeOK, Same, work, FlowOf, Waking
<1>2. TypeOK'
  <2>1. cv' \in Word /\ Empty \in Word
    BY <1>0, WordTypes DEF Unlock
  <2>2. pc' \in [Threads -> Labels]
    BY <1>0 DEF Unlock, Goto, TypeOK, Labels
  <2>3. status' \in [Threads -> Word]
    BY <1>0, <2>1 DEF Unlock, TypeOK, work
  <2>4. caller' \in [Threads -> {"none", "wake", "optimize", "single"}] /\ base' \in [Threads -> {0, 1}]
    BY <1>0 DEF Unlock, TypeOK, work
  <2> QED
    BY <1>0, <1>1, <2>1, <2>2, <2>3, <2>4 DEF Unlock, TypeOK, links
<1>3. Words'
  BY <1>0 DEF Unlock, Words, Word, TypeOK, Empty, Resting
<1>4. LinkMoves(t)
  BY <1>0 DEF Unlock, Goto, TypeOK, LinkMoves, LinkOwners, LinkHasOneOwner, Word, work, Empty, Resting
<1>5. FlowOf(t)'
  <2>1. Taken' = Taken
    BY <1>1 DEF Taken
  <2>2. t \in LinkOwners => cv.link = TRUE
    BY <1>0, OwnerIs
  <2> QED
    BY <1>0, <1>1, <2>1, <2>2 DEF Unlock, Goto, TypeOK, FlowOf, Waking, AfterPark, LinkOwners, FoundOn, Full, Word, work, Empty
<1>6. Quiet(t)
  BY <1>0, <1>1, <1>5 DEF Unlock, Goto, TypeOK, Quiet, Settled, Pending, BeforePark, AfterPark, FlowOf, Waking, work
<1>7. ListStays(t)
  <2>1. t \in LinkOwners => cv.tail # Nil /\ (Unlinking <=> pc[t] = "unlink")
    BY <1>0, OwnerIs DEF Words
  <2>2. ~cv.link => ~Unlinking
    BY <1>0, OwnerIs
  <2>3. cv'.tail = cv.tail /\ back' = back /\ notify' = notify /\ next' = next
    BY <1>0 DEF Unlock, links, TypeOK, Word, Resting
  <2>4. pc[t] = "unlink" => pc'[t] = "unlink"
    BY <1>0 DEF Unlock, Goto, TypeOK
  <2>5. t \in LinkOwners' =>
           \/ /\ t \in LinkOwners /\ status'[t].tail = status[t].tail
              /\ pc'[t] = "unlink" <=> pc[t] = "unlink"
              /\ pc'[t] = "wakeEmpty" => pc[t] = "wakeEmpty"
           \/ /\ status'[t].tail = cv.tail /\ cv.tail # Nil /\ pc'[t] # "wakeEmpty"
              /\ pc'[t] # "unlink" => ~Unlinking
    BY <1>0, <2>1, <2>2 DEF Unlock, Goto, TypeOK, LinkOwners, Word, work
  <2> QED
    BY <1>1, <2>3, <2>4, <2>5, StaysLocal
<1> QED
  BY <1>2, <1>3, <1>4, <1>6, <1>7, QuietStep

(* The end of the optimisation, with or without requests that came in       *)
(* meanwhile, keeps the invariant.                                          *)
LEMMA OptimizeDoneKeeps ==
  ASSUME IInv, NEW t \in Threads, OptimizeDone(t)
  PROVE  IInv'
<1>0. Local /\ TypeOK /\ FlowOf(t) /\ LinkHasOneOwner /\ Words /\ (t \in Taken => Pending(t))
  BY DEF IInv, Local
<1>1. wake' = wake /\ \A u \in Threads \ {t} : Same(u)
  BY <1>0 DEF OptimizeDone, EnterWake, MustServe, Goto, TypeOK, Same, work, FlowOf, Waking
<1>2. TypeOK'
  <2>1. cv' \in Word /\ Empty \in Word
    BY <1>0, WordTypes DEF OptimizeDone, MustServe
  <2>2. pc' \in [Threads -> Labels]
    <3>1. pc' = pc \/ \E l \in {"spin", "waking", "optimize"} : pc' = [pc EXCEPT ![t] = l]
      BY DEF OptimizeDone, EnterWake, Goto
    <3> QED
      BY <1>0, <3>1 DEF TypeOK, Labels
  <2>3. status' \in [Threads -> Word]
    BY <1>0, <2>1 DEF OptimizeDone, EnterWake, MustServe, TypeOK, work
  <2>4. caller' \in [Threads -> {"none", "wake", "optimize", "single"}] /\ base' \in [Threads -> {0, 1}]
    BY <1>0 DEF OptimizeDone, EnterWake, MustServe, TypeOK, work
  <2> QED
    BY <1>0, <1>1, <2>1, <2>2, <2>3, <2>4 DEF OptimizeDone, EnterWake, MustServe, TypeOK, links
<1>3. Words'
  BY <1>0 DEF OptimizeDone, EnterWake, MustServe, Words, Word, TypeOK, Empty, Resting
<1>4. LinkMoves(t)
  BY <1>0 DEF OptimizeDone, EnterWake, MustServe, Goto, TypeOK, LinkMoves, LinkOwners, LinkHasOneOwner, Word, work, Empty, Resting
<1>5. FlowOf(t)'
  <2>1. Taken' = Taken
    BY <1>1 DEF Taken
  <2>2. t \in LinkOwners => cv.link = TRUE
    BY <1>0, OwnerIs
  <2> QED
    BY <1>0, <1>1, <2>1, <2>2 DEF OptimizeDone, EnterWake, MustServe, Goto, TypeOK, FlowOf, Waking, AfterPark, LinkOwners, FoundOn, Full, Word, work, Empty
<1>6. Quiet(t)
  BY <1>0, <1>1, <1>5 DEF OptimizeDone, EnterWake, MustServe, Goto, TypeOK, Quiet, Settled, Pending, BeforePark, AfterPark, FlowOf, Waking, work
<1>7. ListStays(t)
  <2>1. t \in LinkOwners => cv.tail # Nil /\ (Unlinking <=> pc[t] = "unlink")
    BY <1>0, OwnerIs DEF Words
  <2>2. ~cv.link => ~Unlinking
    BY <1>0, OwnerIs
  <2>3. cv'.tail = cv.tail /\ back' = back /\ notify' = notify /\ next' = next
    BY <1>0 DEF OptimizeDone, EnterWake, MustServe, links, TypeOK, Word, Resting
  <2>4. pc[t] = "unlink" => pc'[t] = "unlink"
    BY <1>0 DEF OptimizeDone, EnterWake, MustServe, Goto, TypeOK
  <2>5. t \in LinkOwners' =>
           \/ /\ t \in LinkOwners /\ status'[t].tail = status[t].tail
              /\ pc'[t] = "unlink" <=> pc[t] = "unlink"
              /\ pc'[t] = "wakeEmpty" => pc[t] = "wakeEmpty"
           \/ /\ status'[t].tail = cv.tail /\ cv.tail # Nil /\ pc'[t] # "wakeEmpty"
              /\ pc'[t] # "unlink" => ~Unlinking
    BY <1>0, <2>1, <2>2 DEF OptimizeDone, EnterWake, MustServe, Goto, TypeOK, LinkOwners, Word, work
  <2> QED
    BY <1>1, <2>3, <2>4, <2>5, StaysLocal
<1> QED
  BY <1>2, <1>3, <1>4, <1>6, <1>7, QuietStep

(* The end of the spin keeps the invariant. *)
LEMMA ParkKeeps ==
  ASSUME IInv, NEW t \in Threads, Park(t)
  PROVE  IInv'
<1>0. Local /\ TypeOK /\ FlowOf(t) /\ LinkHasOneOwner /\ Words /\ (t \in Taken => Pending(t))
  BY DEF IInv, Local
<1>1. wake' = wake /\ \A u \in Threads \ {t} : Same(u)
  BY <1>0 DEF Park, Goto, TypeOK, Same, work, FlowOf, Waking
<1>2. TypeOK'
  <2>1. cv' \in Word /\ Empty \in Word
    BY <1>0, WordTypes DEF Park
  <2>2. pc' \in [Threads -> Labels]
    BY <1>0 DEF Park, Goto, TypeOK, Labels
  <2>3. status' \in [Threads -> Word]
    BY <1>0, <2>1 DEF Park, TypeOK, work
  <2>4. caller' \in [Threads -> {"none", "wake", "optimize", "single"}] /\ base' \in [Threads -> {0, 1}]
    BY <1>0 DEF Park, TypeOK, work
  <2> QED
    BY <1>0, <1>1, <2>1, <2>2, <2>3, <2>4 DEF Park, TypeOK, links
<1>3. Words'
  BY <1>0 DEF Park, Words, Word, TypeOK, Empty, Resting
<1>4. LinkMoves(t)
  BY <1>0 DEF Park, Goto, TypeOK, LinkMoves, LinkOwners, LinkHasOneOwner, Word, work, Empty, Resting
<1>5. FlowOf(t)'
  <2>1. Taken' = Taken
    BY <1>1 DEF Taken
  <2>2. t \in LinkOwners => cv.link = TRUE
    BY <1>0, OwnerIs
  <2> QED
    BY <1>0, <1>1, <2>1, <2>2 DEF Park, Goto, TypeOK, FlowOf, Waking, AfterPark, LinkOwners, FoundOn, Full, Word, work, Empty
<1>6. Quiet(t)
  BY <1>0, <1>1, <1>5 DEF Park, Goto, TypeOK, Quiet, Settled, Pending, BeforePark, AfterPark, FlowOf, Waking, work
<1>7. ListStays(t)
  <2>1. t \in LinkOwners => cv.tail # Nil /\ (Unlinking <=> pc[t] = "unlink")
    BY <1>0, OwnerIs DEF Words
  <2>2. ~cv.link => ~Unlinking
    BY <1>0, OwnerIs
  <2>3. cv'.tail = cv.tail /\ back' = back /\ notify' = notify /\ next' = next
    BY <1>0 DEF Park, links, TypeOK, Word, Resting
  <2>4. pc[t] = "unlink" => pc'[t] = "unlink"
    BY <1>0 DEF Park, Goto, TypeOK
  <2>5. t \in LinkOwners' =>
           \/ /\ t \in LinkOwners /\ status'[t].tail = status[t].tail
              /\ pc'[t] = "unlink" <=> pc[t] = "unlink"
              /\ pc'[t] = "wakeEmpty" => pc[t] = "wakeEmpty"
           \/ /\ status'[t].tail = cv.tail /\ cv.tail # Nil /\ pc'[t] # "wakeEmpty"
              /\ pc'[t] # "unlink" => ~Unlinking
    BY <1>0, <2>1, <2>2 DEF Park, Goto, TypeOK, LinkOwners, Word, work
  <2> QED
    BY <1>1, <2>3, <2>4, <2>5, StaysLocal
<1> QED
  BY <1>2, <1>3, <1>4, <1>6, <1>7, QuietStep

(* A time-out keeps the invariant. *)
LEMMA TimeOutKeeps ==
  ASSUME IInv, NEW t \in Threads, TimeOut(t)
  PROVE  IInv'
<1>0. Local /\ TypeOK /\ FlowOf(t) /\ LinkHasOneOwner /\ Words /\ (t \in Taken => Pending(t))
  BY DEF IInv, Local
<1>1. wake' = wake /\ \A u \in Threads \ {t} : Same(u)
  BY <1>0 DEF TimeOut, Goto, TypeOK, Same, work, FlowOf, Waking
<1>2. TypeOK'
  <2>1. cv' \in Word /\ Empty \in Word
    BY <1>0, WordTypes DEF TimeOut
  <2>2. pc' \in [Threads -> Labels]
    BY <1>0 DEF TimeOut, Goto, TypeOK, Labels
  <2>3. status' \in [Threads -> Word]
    BY <1>0, <2>1 DEF TimeOut, TypeOK, work
  <2>4. caller' \in [Threads -> {"none", "wake", "optimize", "single"}] /\ base' \in [Threads -> {0, 1}]
    BY <1>0 DEF TimeOut, TypeOK, work
  <2> QED
    BY <1>0, <1>1, <2>1, <2>2, <2>3, <2>4 DEF TimeOut, TypeOK, links
<1>3. Words'
  BY <1>0 DEF TimeOut, Words, Word, TypeOK, Empty, Resting
<1>4. LinkMoves(t)
  BY <1>0 DEF TimeOut, Goto, TypeOK, LinkMoves, LinkOwners, LinkHasOneOwner, Word, work, Empty, Resting
<1>5. FlowOf(t)'
  <2>1. Taken' = Taken
    BY <1>1 DEF Taken
  <2>2. t \in LinkOwners => cv.link = TRUE
    BY <1>0, OwnerIs
  <2> QED
    BY <1>0, <1>1, <2>1, <2>2 DEF TimeOut, Goto, TypeOK, FlowOf, Waking, AfterPark, LinkOwners, FoundOn, Full, Word, work, Empty
<1>6. Quiet(t)
  BY <1>0, <1>1, <1>5 DEF TimeOut, Goto, TypeOK, Quiet, Settled, Pending, BeforePark, AfterPark, FlowOf, Waking, work
<1>7. ListStays(t)
  <2>1. t \in LinkOwners => cv.tail # Nil /\ (Unlinking <=> pc[t] = "unlink")
    BY <1>0, OwnerIs DEF Words
  <2>2. ~cv.link => ~Unlinking
    BY <1>0, OwnerIs
  <2>3. cv'.tail = cv.tail /\ back' = back /\ notify' = notify /\ next' = next
    BY <1>0 DEF TimeOut, links, TypeOK, Word, Resting
  <2>4. pc[t] = "unlink" => pc'[t] = "unlink"
    BY <1>0 DEF TimeOut, Goto, TypeOK
  <2>5. t \in LinkOwners' =>
           \/ /\ t \in LinkOwners /\ status'[t].tail = status[t].tail
              /\ pc'[t] = "unlink" <=> pc[t] = "unlink"
              /\ pc'[t] = "wakeEmpty" => pc[t] = "wakeEmpty"
           \/ /\ status'[t].tail = cv.tail /\ cv.tail # Nil /\ pc'[t] # "wakeEmpty"
              /\ pc'[t] # "unlink" => ~Unlinking
    BY <1>0, <2>1, <2>2 DEF TimeOut, Goto, TypeOK, LinkOwners, Word, work
  <2> QED
    BY <1>1, <2>3, <2>4, <2>5, StaysLocal
<1> QED
  BY <1>2, <1>3, <1>4, <1>6, <1>7, QuietStep

(* A timed-out thread taking the Link, or asking its owner to wake          *)
(* everybody, keeps the invariant.                                          *)
LEMMA RtlpWakeSingleKeeps ==
  ASSUME IInv, NEW t \in Threads, RtlpWakeSingle(t)
  PROVE  IInv'
<1>0. Local /\ TypeOK /\ FlowOf(t) /\ LinkHasOneOwner /\ Words /\ (t \in Taken => Pending(t))
  BY DEF IInv, Local
<1>1. wake' = wake /\ \A u \in Threads \ {t} : Same(u)
  BY <1>0 DEF RtlpWakeSingle, RequestAll, Goto, TypeOK, Same, work, FlowOf, Waking
<1>2. TypeOK'
  <2>1. cv' \in Word /\ Empty \in Word
    BY <1>0, WordTypes DEF RtlpWakeSingle
  <2>2. pc' \in [Threads -> Labels]
    BY <1>0 DEF RtlpWakeSingle, RequestAll, Goto, TypeOK, Labels
  <2>3. status' \in [Threads -> Word]
    BY <1>0, <2>1 DEF RtlpWakeSingle, RequestAll, TypeOK, work
  <2>4. caller' \in [Threads -> {"none", "wake", "optimize", "single"}] /\ base' \in [Threads -> {0, 1}]
    BY <1>0 DEF RtlpWakeSingle, RequestAll, TypeOK, work
  <2> QED
    BY <1>0, <1>1, <2>1, <2>2, <2>3, <2>4 DEF RtlpWakeSingle, RequestAll, TypeOK, links
<1>3. Words'
  BY <1>0 DEF RtlpWakeSingle, RequestAll, Words, Word, TypeOK, Empty, Resting
<1>4. LinkMoves(t)
  BY <1>0 DEF RtlpWakeSingle, RequestAll, Goto, TypeOK, LinkMoves, LinkOwners, LinkHasOneOwner, Word, work, Empty, Resting
<1>5. FlowOf(t)'
  <2>1. Taken' = Taken
    BY <1>1 DEF Taken
  <2>2. t \in LinkOwners => cv.link = TRUE
    BY <1>0, OwnerIs
  <2> QED
    BY <1>0, <1>1, <2>1, <2>2 DEF RtlpWakeSingle, RequestAll, Goto, TypeOK, FlowOf, Waking, AfterPark, LinkOwners, FoundOn, Full, Word, work, Empty
<1>6. Quiet(t)
  BY <1>0, <1>1, <1>5 DEF RtlpWakeSingle, RequestAll, Goto, TypeOK, Quiet, Settled, Pending, BeforePark, AfterPark, FlowOf, Waking, work
<1>7. ListStays(t)
  <2>1. t \in LinkOwners => cv.tail # Nil /\ (Unlinking <=> pc[t] = "unlink")
    BY <1>0, OwnerIs DEF Words
  <2>2. ~cv.link => ~Unlinking
    BY <1>0, OwnerIs
  <2>3. cv'.tail = cv.tail /\ back' = back /\ notify' = notify /\ next' = next
    BY <1>0 DEF RtlpWakeSingle, RequestAll, links, TypeOK, Word, Resting
  <2>4. pc[t] = "unlink" => pc'[t] = "unlink"
    BY <1>0 DEF RtlpWakeSingle, RequestAll, Goto, TypeOK
  <2>5. t \in LinkOwners' =>
           \/ /\ t \in LinkOwners /\ status'[t].tail = status[t].tail
              /\ pc'[t] = "unlink" <=> pc[t] = "unlink"
              /\ pc'[t] = "wakeEmpty" => pc[t] = "wakeEmpty"
           \/ /\ status'[t].tail = cv.tail /\ cv.tail # Nil /\ pc'[t] # "wakeEmpty"
              /\ pc'[t] # "unlink" => ~Unlinking
    BY <1>0, <2>1, <2>2 DEF RtlpWakeSingle, RequestAll, Goto, TypeOK, LinkOwners, Word, work
  <2> QED
    BY <1>1, <2>3, <2>4, <2>5, StaysLocal
<1> QED
  BY <1>2, <1>3, <1>4, <1>6, <1>7, QuietStep

(* The caller leaving its lock keeps the invariant. *)
LEMMA ReleaseLockKeeps ==
  ASSUME IInv, NEW t \in Threads, ReleaseLock(t)
  PROVE  IInv'
<1>0. Local /\ TypeOK /\ FlowOf(t) /\ LinkHasOneOwner /\ Words /\ (t \in Taken => Pending(t))
  BY DEF IInv, Local
<1>1. wake' = wake /\ \A u \in Threads \ {t} : Same(u)
  BY <1>0 DEF ReleaseLock, Goto, TypeOK, Same, work, FlowOf, Waking
<1>2. TypeOK'
  <2>1. cv' \in Word /\ Empty \in Word
    BY <1>0, WordTypes DEF ReleaseLock
  <2>2. pc' \in [Threads -> Labels]
    BY <1>0 DEF ReleaseLock, Goto, TypeOK, Labels
  <2>3. status' \in [Threads -> Word]
    BY <1>0, <2>1 DEF ReleaseLock, TypeOK, work
  <2>4. caller' \in [Threads -> {"none", "wake", "optimize", "single"}] /\ base' \in [Threads -> {0, 1}]
    BY <1>0 DEF ReleaseLock, TypeOK, work
  <2> QED
    BY <1>0, <1>1, <2>1, <2>2, <2>3, <2>4 DEF ReleaseLock, TypeOK, links
<1>3. Words'
  BY <1>0 DEF ReleaseLock, Words, Word, TypeOK, Empty, Resting
<1>4. LinkMoves(t)
  BY <1>0 DEF ReleaseLock, Goto, TypeOK, LinkMoves, LinkOwners, LinkHasOneOwner, Word, work, Empty, Resting
<1>5. FlowOf(t)'
  <2>1. Taken' = Taken
    BY <1>1 DEF Taken
  <2>2. t \in LinkOwners => cv.link = TRUE
    BY <1>0, OwnerIs
  <2> QED
    BY <1>0, <1>1, <2>1, <2>2 DEF ReleaseLock, Goto, TypeOK, FlowOf, Waking, AfterPark, LinkOwners, FoundOn, Full, Word, work, Empty
<1>6. Quiet(t)
  BY <1>0, <1>1, <1>5 DEF ReleaseLock, Goto, TypeOK, Quiet, Settled, Pending, BeforePark, AfterPark, FlowOf, Waking, work
<1>7. ListStays(t)
  <2>1. t \in LinkOwners => cv.tail # Nil /\ (Unlinking <=> pc[t] = "unlink")
    BY <1>0, OwnerIs DEF Words
  <2>2. ~cv.link => ~Unlinking
    BY <1>0, OwnerIs
  <2>3. cv'.tail = cv.tail /\ back' = back /\ notify' = notify /\ next' = next
    BY <1>0 DEF ReleaseLock, links, TypeOK, Word, Resting
  <2>4. pc[t] = "unlink" => pc'[t] = "unlink"
    BY <1>0 DEF ReleaseLock, Goto, TypeOK
  <2>5. t \in LinkOwners' =>
           \/ /\ t \in LinkOwners /\ status'[t].tail = status[t].tail
              /\ pc'[t] = "unlink" <=> pc[t] = "unlink"
              /\ pc'[t] = "wakeEmpty" => pc[t] = "wakeEmpty"
           \/ /\ status'[t].tail = cv.tail /\ cv.tail # Nil /\ pc'[t] # "wakeEmpty"
              /\ pc'[t] # "unlink" => ~Unlinking
    BY <1>0, <2>1, <2>2 DEF ReleaseLock, Goto, TypeOK, LinkOwners, Word, work
  <2> QED
    BY <1>1, <2>3, <2>4, <2>5, StaysLocal
<1> QED
  BY <1>2, <1>3, <1>4, <1>6, <1>7, QuietStep

(* A wake-all call that finds the Link taken and leaves its request keeps   *)
(* the invariant.                                                           *)
LEMMA WakeAllRequestKeeps ==
  ASSUME IInv, NEW t \in Threads, RtlWakeAllConditionVariable(t), cv.link
  PROVE  IInv'
<1>0. Local /\ TypeOK /\ FlowOf(t) /\ LinkHasOneOwner /\ Words /\ (t \in Taken => Pending(t))
  BY DEF IInv, Local
<1>1. wake' = wake /\ \A u \in Threads \ {t} : Same(u)
  BY <1>0 DEF RtlWakeAllConditionVariable, RequestAll, Goto, TypeOK, Same, work, FlowOf, Waking
<1>2. TypeOK'
  <2>1. cv' \in Word /\ Empty \in Word
    BY <1>0, WordTypes DEF RtlWakeAllConditionVariable
  <2>2. pc' \in [Threads -> Labels]
    BY <1>0 DEF RtlWakeAllConditionVariable, RequestAll, Goto, TypeOK, Labels
  <2>3. status' \in [Threads -> Word]
    BY <1>0, <2>1 DEF RtlWakeAllConditionVariable, RequestAll, TypeOK, work
  <2>4. caller' \in [Threads -> {"none", "wake", "optimize", "single"}] /\ base' \in [Threads -> {0, 1}]
    BY <1>0 DEF RtlWakeAllConditionVariable, RequestAll, TypeOK, work
  <2> QED
    BY <1>0, <1>1, <2>1, <2>2, <2>3, <2>4 DEF RtlWakeAllConditionVariable, RequestAll, TypeOK, links
<1>3. Words'
  BY <1>0 DEF RtlWakeAllConditionVariable, RequestAll, Words, Word, TypeOK, Empty, Resting
<1>4. LinkMoves(t)
  BY <1>0 DEF RtlWakeAllConditionVariable, RequestAll, Goto, TypeOK, LinkMoves, LinkOwners, LinkHasOneOwner, Word, work, Empty, Resting
<1>5. FlowOf(t)'
  <2>1. Taken' = Taken
    BY <1>1 DEF Taken
  <2>2. t \in LinkOwners => cv.link = TRUE
    BY <1>0, OwnerIs
  <2> QED
    BY <1>0, <1>1, <2>1, <2>2 DEF RtlWakeAllConditionVariable, RequestAll, Goto, TypeOK, FlowOf, Waking, AfterPark, LinkOwners, FoundOn, Full, Word, work, Empty
<1>6. Quiet(t)
  BY <1>0, <1>1, <1>5 DEF RtlWakeAllConditionVariable, RequestAll, Goto, TypeOK, Quiet, Settled, Pending, BeforePark, AfterPark, FlowOf, Waking, work
<1>7. ListStays(t)
  <2>1. t \in LinkOwners => cv.tail # Nil /\ (Unlinking <=> pc[t] = "unlink")
    BY <1>0, OwnerIs DEF Words
  <2>2. ~cv.link => ~Unlinking
    BY <1>0, OwnerIs
  <2>3. cv'.tail = cv.tail /\ back' = back /\ notify' = notify /\ next' = next
    BY <1>0 DEF RtlWakeAllConditionVariable, RequestAll, links, TypeOK, Word, Resting
  <2>4. pc[t] = "unlink" => pc'[t] = "unlink"
    BY <1>0 DEF RtlWakeAllConditionVariable, RequestAll, Goto, TypeOK
  <2>5. t \in LinkOwners' =>
           \/ /\ t \in LinkOwners /\ status'[t].tail = status[t].tail
              /\ pc'[t] = "unlink" <=> pc[t] = "unlink"
              /\ pc'[t] = "wakeEmpty" => pc[t] = "wakeEmpty"
           \/ /\ status'[t].tail = cv.tail /\ cv.tail # Nil /\ pc'[t] # "wakeEmpty"
              /\ pc'[t] # "unlink" => ~Unlinking
    BY <1>0, <2>1, <2>2 DEF RtlWakeAllConditionVariable, RequestAll, Goto, TypeOK, LinkOwners, Word, work
  <2> QED
    BY <1>1, <2>3, <2>4, <2>5, StaysLocal
<1> QED
  BY <1>2, <1>3, <1>4, <1>6, <1>7, QuietStep

(* Emptying the list after somebody changed the word, which starts over,    *)
(* keeps the invariant.                                                     *)
LEMMA WakeEmptyAgain ==
  ASSUME IInv, NEW t \in Threads, WakeEmpty(t), cv # status[t]
  PROVE  IInv'
<1>0. Local /\ TypeOK /\ FlowOf(t) /\ LinkHasOneOwner /\ Words /\ (t \in Taken => Pending(t))
  BY DEF IInv, Local
<1>1. wake' = wake /\ \A u \in Threads \ {t} : Same(u)
  BY <1>0 DEF WakeEmpty, Goto, TypeOK, Same, work, FlowOf, Waking
<1>2. TypeOK'
  <2>1. cv' \in Word /\ Empty \in Word
    BY <1>0, WordTypes DEF WakeEmpty
  <2>2. pc' \in [Threads -> Labels]
    BY <1>0 DEF WakeEmpty, Goto, TypeOK, Labels
  <2>3. status' \in [Threads -> Word]
    BY <1>0, <2>1 DEF WakeEmpty, TypeOK, work
  <2>4. caller' \in [Threads -> {"none", "wake", "optimize", "single"}] /\ base' \in [Threads -> {0, 1}]
    BY <1>0 DEF WakeEmpty, TypeOK, work
  <2> QED
    BY <1>0, <1>1, <2>1, <2>2, <2>3, <2>4 DEF WakeEmpty, TypeOK, links
<1>3. Words'
  BY <1>0 DEF WakeEmpty, Words, Word, TypeOK, Empty, Resting
<1>4. LinkMoves(t)
  BY <1>0 DEF WakeEmpty, Goto, TypeOK, LinkMoves, LinkOwners, LinkHasOneOwner, Word, work, Empty, Resting
<1>5. FlowOf(t)'
  <2>1. Taken' = Taken
    BY <1>1 DEF Taken
  <2>2. t \in LinkOwners => cv.link = TRUE
    BY <1>0, OwnerIs
  <2> QED
    BY <1>0, <1>1, <2>1, <2>2 DEF WakeEmpty, Goto, TypeOK, FlowOf, Waking, AfterPark, LinkOwners, FoundOn, Full, Word, work, Empty
<1>6. Quiet(t)
  BY <1>0, <1>1, <1>5 DEF WakeEmpty, Goto, TypeOK, Quiet, Settled, Pending, BeforePark, AfterPark, FlowOf, Waking, work
<1>7. ListStays(t)
  <2>1. t \in LinkOwners => cv.tail # Nil /\ (Unlinking <=> pc[t] = "unlink")
    BY <1>0, OwnerIs DEF Words
  <2>2. ~cv.link => ~Unlinking
    BY <1>0, OwnerIs
  <2>3. cv'.tail = cv.tail /\ back' = back /\ notify' = notify /\ next' = next
    BY <1>0 DEF WakeEmpty, links, TypeOK, Word, Resting
  <2>4. pc[t] = "unlink" => pc'[t] = "unlink"
    BY <1>0 DEF WakeEmpty, Goto, TypeOK
  <2>5. t \in LinkOwners' =>
           \/ /\ t \in LinkOwners /\ status'[t].tail = status[t].tail
              /\ pc'[t] = "unlink" <=> pc[t] = "unlink"
              /\ pc'[t] = "wakeEmpty" => pc[t] = "wakeEmpty"
           \/ /\ status'[t].tail = cv.tail /\ cv.tail # Nil /\ pc'[t] # "wakeEmpty"
              /\ pc'[t] # "unlink" => ~Unlinking
    BY <1>0, <2>1, <2>2 DEF WakeEmpty, Goto, TypeOK, LinkOwners, Word, work
  <2> QED
    BY <1>1, <2>3, <2>4, <2>5, StaysLocal
<1> QED
  BY <1>2, <1>3, <1>4, <1>6, <1>7, QuietStep

(* Unlinking the newest block after somebody changed the word, which starts *)
(* over, keeps the invariant.                                               *)
LEMMA UnlinkNewestAgain ==
  ASSUME IInv, NEW t \in Threads, UnlinkNewest(t), cv # status[t]
  PROVE  IInv'
<1>0. Local /\ TypeOK /\ FlowOf(t) /\ LinkHasOneOwner /\ Words /\ (t \in Taken => Pending(t))
  BY DEF IInv, Local
<1>1. wake' = wake /\ \A u \in Threads \ {t} : Same(u)
  BY <1>0 DEF UnlinkNewest, Goto, TypeOK, Same, work, FlowOf, Waking
<1>2. TypeOK'
  <2>1. cv' \in Word /\ Empty \in Word
    BY <1>0, WordTypes DEF UnlinkNewest
  <2>2. pc' \in [Threads -> Labels]
    BY <1>0 DEF UnlinkNewest, Goto, TypeOK, Labels
  <2>3. status' \in [Threads -> Word]
    BY <1>0, <2>1 DEF UnlinkNewest, TypeOK, work
  <2>4. caller' \in [Threads -> {"none", "wake", "optimize", "single"}] /\ base' \in [Threads -> {0, 1}]
    BY <1>0 DEF UnlinkNewest, TypeOK, work
  <2> QED
    BY <1>0, <1>1, <2>1, <2>2, <2>3, <2>4 DEF UnlinkNewest, TypeOK, links
<1>3. Words'
  BY <1>0 DEF UnlinkNewest, Words, Word, TypeOK, Empty, Resting
<1>4. LinkMoves(t)
  BY <1>0 DEF UnlinkNewest, Goto, TypeOK, LinkMoves, LinkOwners, LinkHasOneOwner, Word, work, Empty, Resting
<1>5. FlowOf(t)'
  <2>1. Taken' = Taken
    BY <1>1 DEF Taken
  <2>2. t \in LinkOwners => cv.link = TRUE
    BY <1>0, OwnerIs
  <2> QED
    BY <1>0, <1>1, <2>1, <2>2 DEF UnlinkNewest, Goto, TypeOK, FlowOf, Waking, AfterPark, LinkOwners, FoundOn, Full, Word, work, Empty
<1>6. Quiet(t)
  BY <1>0, <1>1, <1>5 DEF UnlinkNewest, Goto, TypeOK, Quiet, Settled, Pending, BeforePark, AfterPark, FlowOf, Waking, work
<1>7. ListStays(t)
  <2>1. t \in LinkOwners => cv.tail # Nil /\ (Unlinking <=> pc[t] = "unlink")
    BY <1>0, OwnerIs DEF Words
  <2>2. ~cv.link => ~Unlinking
    BY <1>0, OwnerIs
  <2>3. cv'.tail = cv.tail /\ back' = back /\ notify' = notify /\ next' = next
    BY <1>0 DEF UnlinkNewest, links, TypeOK, Word, Resting
  <2>4. pc[t] = "unlink" => pc'[t] = "unlink"
    BY <1>0 DEF UnlinkNewest, Goto, TypeOK
  <2>5. t \in LinkOwners' =>
           \/ /\ t \in LinkOwners /\ status'[t].tail = status[t].tail
              /\ pc'[t] = "unlink" <=> pc[t] = "unlink"
              /\ pc'[t] = "wakeEmpty" => pc[t] = "wakeEmpty"
           \/ /\ status'[t].tail = cv.tail /\ cv.tail # Nil /\ pc'[t] # "wakeEmpty"
              /\ pc'[t] # "unlink" => ~Unlinking
    BY <1>0, <2>1, <2>2 DEF UnlinkNewest, Goto, TypeOK, LinkOwners, Word, work
  <2> QED
    BY <1>1, <2>3, <2>4, <2>5, StaysLocal
<1> QED
  BY <1>2, <1>3, <1>4, <1>6, <1>7, QuietStep

(* The block of t that has returned is on no list. *)
LEMMA RelockKeeps ==
  ASSUME IInv, NEW t \in Threads, Relock(t)
  PROVE  IInv'
<1>0. Local /\ TypeOK /\ FlowOf(t) /\ Words /\ (t \in Taken => Pending(t))
  BY DEF IInv, Local
<1>1. wake' = wake /\ \A u \in Threads \ {t} : Same(u)
  BY <1>0 DEF Relock, Goto, TypeOK, Same, work
<1>2. TypeOK'
  <2>1. pc' \in [Threads -> Labels]
    BY <1>0 DEF Relock, Goto, TypeOK, Labels
  <2> QED
    BY <1>0, <2>1 DEF Relock, TypeOK, work
<1>3. Words' /\ LinkMoves(t)
  BY <1>0 DEF Relock, Goto, TypeOK, Words, LinkMoves, LinkOwners
<1>5. FlowOf(t)'
  BY <1>0, <1>1 DEF Relock, Goto, TypeOK, FlowOf, Waking, AfterPark, LinkOwners, work
<1>6. Quiet(t) /\ ~Pending(t)
  BY <1>0, <1>1, <1>5 DEF Relock, Goto, TypeOK, Quiet, Settled, Pending, BeforePark, AfterPark, FlowOf, Waking
<1>7. ListStays(t)
  <2>1. \A w \in Sleepers : w \in Threads /\ w # t
    BY <1>6 DEF Sleepers
  <2>2. Unlinking => Unlinking'
    BY <1>0, <1>1 DEF Unlinking, Same, Relock
  <2>3. \A u \in LinkOwners' : u \in Threads /\ u # t
    BY <1>0 DEF LinkOwners, Relock, Goto, TypeOK
  <2> QED
    BY <1>0, <1>1, <2>1, <2>2, <2>3, SameThread DEF ListStays, Relock, TypeOK, Same
<1> QED
  BY <1>2, <1>3, <1>6, <1>7, QuietStep

(* Taking the first block off wake[t]. *)
LEMMA Untaken ==
  ASSUME TypeOK, Apart, NEW t \in Threads, wake[t] # <<>>, NEW w \in Threads, w = Head(wake[t]),
         wake' = [wake EXCEPT ![t] = Tail(@)]
  PROVE  /\ w \in Taken /\ Taken' = Taken \ {w} /\ Apart'
         /\ wake' \in [Threads -> Seq(Threads)]
         /\ \A u, v \in Threads : FoundOn(v, wake'[u]) => FoundOn(v, wake[u])
         /\ \A u \in Threads \ {t} : wake'[u] = wake[u] /\ (wake[u] # <<>> => Head(wake[u]) # w)
<1>0. wake \in [Threads -> Seq(Threads)] /\ \A u \in Threads : wake[u] \in Seq(Threads) /\ Once(wake[u])
  BY DEF TypeOK, Apart
<1>1. /\ FoundOn(w, wake[t]) /\ Tail(wake[t]) \in Seq(Threads) /\ Once(Tail(wake[t]))
      /\ \A v \in Threads : FoundOn(v, Tail(wake[t])) <=> FoundOn(v, wake[t]) /\ v # w
  BY <1>0, TailOnce
<1>2. wake'[t] = Tail(wake[t]) /\ \A u \in Threads \ {t} : wake'[u] = wake[u]
  BY <1>0
<1>3. \A u, v \in Threads : FoundOn(v, wake'[u]) <=> FoundOn(v, wake[u]) /\ (u = t => v # w)
  BY <1>1, <1>2
<1>4. wake' \in [Threads -> Seq(Threads)] /\ \A u \in Threads : Once(wake'[u])
  BY <1>0, <1>1, <1>2
<1>5. Apart'
  BY <1>3, <1>4 DEF Apart
<1>6. \A v \in Threads : v \in Taken' <=> \E u \in Threads : FoundOn(v, wake'[u])
  BY DEF Taken, FoundOn
<1>7. w \in Taken /\ Taken' = Taken \ {w}
  <2>1. w \in Taken
    BY <1>1, TakenIs
  <2>2. \A v \in Threads : v \in Taken' <=> v \in Taken /\ v # w
    BY <1>1, <1>3, <1>6, TakenIs DEF Apart
  <2> QED
    BY <2>1, <2>2 DEF Taken
<1>8. \A u \in Threads \ {t} : wake[u] # <<>> => Head(wake[u]) # w
  <2> SUFFICES ASSUME NEW u \in Threads \ {t}, wake[u] # <<>>, Head(wake[u]) = w PROVE FALSE
    OBVIOUS
  <2>1. FoundOn(w, wake[u])
    BY <1>0, TailOnce
  <2> QED
    BY <1>1, <2>1 DEF Apart
<1> QED
  BY <1>2, <1>3, <1>4, <1>5, <1>7, <1>8

(* Waking a thread that still spins, or finding that it has parked, keeps   *)
(* the invariant.                                                           *)
LEMMA ReleaseKeeps ==
  ASSUME IInv, NEW t \in Threads, Release(t)
  PROVE  IInv'
<1>0. /\ Local /\ TypeOK /\ FlowOf(t) /\ Words /\ Apart /\ LinkHasOneOwner
      /\ \A u \in Threads : FlowOf(u) /\ (u \in Taken => Pending(u))
  BY DEF IInv, Local
<1>1. /\ pc[t] = "release" /\ wake[t] # <<>> /\ wake[t] \in Seq(Threads) /\ Once(wake[t])
      /\ UNCHANGED <<cv, links, lock, timed, caller, status, base, removed>>
  BY <1>0 DEF Release, TypeOK, Apart
<1>2. PICK w \in Threads : w = Head(wake[t]) /\ w \in Taken /\ FoundOn(w, wake[t])
  <2>1. Head(wake[t]) \in Threads /\ FoundOn(Head(wake[t]), wake[t])
    BY <1>1, TailOnce
  <2> QED
    BY <2>1, TakenIs
<1>3. Pending(w) /\ spin[w] \in BOOLEAN
  BY <1>0, <1>2 DEF TypeOK
<1>4. CASE spin[w]
  <2>1. wake' = [wake EXCEPT ![t] = Tail(@)] /\ pc' = pc /\ spin' = [spin EXCEPT ![w] = FALSE]
    BY <1>2, <1>4 DEF Release
  <2>2. /\ Taken' = Taken \ {w} /\ Apart' /\ wake' \in [Threads -> Seq(Threads)]
        /\ \A u, v \in Threads : FoundOn(v, wake'[u]) => FoundOn(v, wake[u])
        /\ \A u \in Threads \ {t} : wake'[u] = wake[u]
    BY <1>0, <1>1, <1>2, <2>1, Untaken
  <2>3. ~AfterPark(w) /\ caller[w] # "single"
    BY <1>0, <1>4 DEF FlowOf, AfterPark
  <2>4. \A u \in Threads : /\ AfterPark(u)' <=> AfterPark(u)
                           /\ Pending(u)' <=> Pending(u) /\ u # w
                           /\ u \in LinkOwners' <=> u \in LinkOwners
    BY <1>0, <1>1, <2>1, <2>3 DEF AfterPark, BeforePark, Pending, LinkOwners, TypeOK
  <2>5. Sleepers' = Sleepers
    BY <1>2, <2>2, <2>4 DEF Sleepers
  <2>6. TypeOK'
    BY <1>0, <1>1, <2>1, <2>2 DEF TypeOK, links
  <2>7. LinkHasOneOwner' /\ Words'
    <3>1. LinkOwners' = LinkOwners
      BY <2>4 DEF LinkOwners
    <3> QED
      BY <1>0, <1>1, <3>1 DEF LinkHasOneOwner, Words
  <2>8. ASSUME NEW u \in Threads PROVE FlowOf(u)'
    <3>1. FlowOf(u)
      BY <1>0
    <3>2. pc'[u] = "wakeStop" => u # t
      BY <1>1, <2>1
    <3>3. pc'[u] \notin Waking => u # t
      BY <1>1, <2>1 DEF Waking
    <3>4. AfterPark(u)' => ~spin'[u]
      BY <1>0, <2>1, <2>4, <3>1 DEF FlowOf, TypeOK
    <3> QED
      BY <1>1, <2>1, <2>2, <2>3, <2>4, <3>1, <3>2, <3>3, <3>4 DEF FlowOf
  <2>9. \A u \in Taken' : Pending(u)'
    BY <1>0, <2>2, <2>4 DEF Taken
  <2>10. Releases'
    <3> SUFFICES ASSUME NEW u \in Threads, pc'[u] = "releasing"
                 PROVE  wake'[u] # <<>> /\ AfterPark(Head(wake[u]))' /\ Head(wake'[u]) # u
      BY DEF Releases
    <3>1. u # t /\ wake'[u] = wake[u] /\ wake[u] # <<>> /\ AfterPark(Head(wake[u])) /\ Head(wake[u]) # u
      BY <1>0, <1>1, <2>1, <2>2 DEF Local, Releases
    <3> QED
      BY <1>1, <2>1, <3>1 DEF AfterPark
  <2>11. ListStays(t)
    <3>1. Unlinking => Unlinking'
      BY <2>1 DEF Unlinking
    <3>2. LinkOwners' = LinkOwners
      BY <2>4 DEF LinkOwners
    <3> QED
      BY <1>1, <2>1, <3>1, <3>2 DEF ListStays, links
  <2>12. PICK s \in Seq(Threads) : Shape(s)
    BY DEF IInv
  <2>13. Shape(s)'
    BY <2>5, <2>11, <2>12, KeepShape
  <2> QED
    BY <2>2, <2>6, <2>7, <2>8, <2>9, <2>10, <2>13 DEF IInv, Local
<1>5. CASE ~spin[w]
  <2>1. wake' = wake /\ pc' = [pc EXCEPT ![t] = "releasing"] /\ spin' = spin
    BY <1>0, <1>2, <1>3, <1>5 DEF Release, Goto, TypeOK
  <2>2. AfterPark(w) /\ w # t
    <3>1. AfterPark(w)
      BY <1>3, <1>5 DEF Pending
    <3>2. w = t => caller[t] = "single"
      BY <1>1, <3>1 DEF AfterPark
    <3> QED
      BY <1>0, <1>2, <3>1, <3>2 DEF FlowOf
  <2>3. \A u \in Threads \ {t} : Same(u)
    BY <1>0, <1>1, <2>1 DEF Same, TypeOK
  <2>4. TypeOK'
    <3>1. pc' \in [Threads -> Labels]
      BY <1>0, <2>1 DEF TypeOK, Labels
    <3> QED
      BY <1>0, <1>1, <2>1, <3>1 DEF TypeOK, links
  <2>5. Words' /\ LinkMoves(t)
    BY <1>0, <1>1, <2>1 DEF Words, LinkMoves, LinkOwners, TypeOK
  <2>6. FlowOf(t)'
    <3>1. Taken' = Taken
      BY <2>1 DEF Taken
    <3> QED
      BY <1>0, <1>1, <2>1, <3>1 DEF FlowOf, Waking, AfterPark, LinkOwners, FoundOn, TypeOK
  <2>7. Quiet(t)
    BY <1>0, <1>1, <1>2, <2>1, <2>2, <2>3, <2>6 DEF Quiet, Settled, Pending, BeforePark, AfterPark, TypeOK
  <2>8. ListStays(t)
    BY <1>0, <1>1, <2>1, <2>3, StaysLocal DEF TypeOK, LinkOwners, links
  <2> QED
    BY <2>4, <2>5, <2>7, <2>8, QuietStep
<1> QED
  BY <1>4, <1>5

(* The keyed event meeting its sleeper keeps the invariant. *)
LEMMA ReleaseKeyedEventKeeps ==
  ASSUME IInv, NEW t \in Threads, ReleaseKeyedEvent(t)
  PROVE  IInv'
<1>0. /\ Local /\ TypeOK /\ FlowOf(t) /\ Words /\ Apart /\ LinkHasOneOwner
      /\ \A u \in Threads : FlowOf(u) /\ (u \in Taken => Pending(u))
  BY DEF IInv, Local
<1>1. /\ pc[t] = "releasing" /\ wake[t] \in Seq(Threads) /\ Once(wake[t]) /\ wake[t] # <<>>
      /\ UNCHANGED <<cv, links, spin, lock, timed, caller, status, base, removed>>
  BY <1>0 DEF ReleaseKeyedEvent, TypeOK, Apart, Local, Releases
<1>2. PICK w \in Threads : w = Head(wake[t])
  BY <1>1, TailOnce
<1>3. /\ pc[w] \in {"blocked", "blockedAgain"} /\ w # t
      /\ pc' = [pc EXCEPT ![t] = "release", ![w] = "relock"]
      /\ wake' = [wake EXCEPT ![t] = Tail(@)]
  BY <1>1, <1>2 DEF ReleaseKeyedEvent
<1>4. /\ pc'[t] = "release" /\ pc'[w] = "relock" /\ caller[w] = "none" /\ wake[w] = <<>>
      /\ \A u \in Threads \ {t, w} : pc'[u] = pc[u]
  BY <1>0, <1>3 DEF TypeOK, FlowOf, Waking
<1>5. /\ w \in Taken /\ Taken' = Taken \ {w} /\ Apart' /\ wake' \in [Threads -> Seq(Threads)]
      /\ \A u, v \in Threads : FoundOn(v, wake'[u]) => FoundOn(v, wake[u])
      /\ \A u \in Threads \ {t} : wake'[u] = wake[u] /\ (wake[u] # <<>> => Head(wake[u]) # w)
  BY <1>0, <1>1, <1>2, <1>3, Untaken
<1>6. \A u \in Threads : /\ AfterPark(u)' <=> AfterPark(u) /\ u # w
                         /\ Pending(u)' <=> Pending(u) /\ u # w
                         /\ u \in LinkOwners' <=> u \in LinkOwners
  BY <1>1, <1>3, <1>4 DEF AfterPark, BeforePark, Pending, LinkOwners
<1>7. Sleepers' = Sleepers
  BY <1>5, <1>6 DEF Sleepers
<1>8. TypeOK'
  <2>1. pc' \in [Threads -> Labels]
    BY <1>0, <1>3 DEF TypeOK, Labels
  <2> QED
    BY <1>0, <1>1, <1>5, <2>1 DEF TypeOK, links
<1>9. LinkOwners' = LinkOwners
  BY <1>6 DEF LinkOwners
<1>10. LinkHasOneOwner' /\ Words'
  BY <1>0, <1>1, <1>9 DEF LinkHasOneOwner, Words
<1>11. ASSUME NEW u \in Threads PROVE FlowOf(u)'
  <2>1. FlowOf(u)
    BY <1>0
  <2>2. CASE u = w
    BY <1>1, <1>3, <1>4, <1>5, <1>6, <2>1, <2>2 DEF FlowOf, Waking, LinkOwners
  <2>3. CASE u = t
    BY <1>1, <1>3, <1>4, <1>5, <1>6, <2>1, <2>3 DEF FlowOf, Waking, LinkOwners
  <2>4. CASE u # w /\ u # t
    BY <1>1, <1>4, <1>5, <1>6, <2>1, <2>4 DEF FlowOf
  <2> QED
    BY <2>2, <2>3, <2>4
<1>12. \A u \in Taken' : Pending(u)'
  BY <1>0, <1>5, <1>6 DEF Taken
<1>13. Releases'
  <2> SUFFICES ASSUME NEW u \in Threads, pc'[u] = "releasing"
               PROVE  wake'[u] # <<>> /\ AfterPark(Head(wake[u]))' /\ Head(wake'[u]) # u
    BY DEF Releases
  <2>1. u # t /\ u # w /\ pc[u] = "releasing"
    BY <1>3, <1>4
  <2>2. /\ wake'[u] = wake[u] /\ wake[u] # <<>> /\ AfterPark(Head(wake[u]))
        /\ Head(wake[u]) # u /\ Head(wake[u]) # w
    BY <1>0, <1>5, <2>1 DEF Local, Releases
  <2>3. PICK v \in Threads : v = Head(wake[u])
    <3>1. wake[u] \in Seq(Threads) /\ Once(wake[u])
      BY <1>0 DEF TypeOK, Apart
    <3> QED
      BY <2>2, <3>1, TailOnce
  <2>4. AfterPark(v)'
    BY <1>6, <2>2, <2>3
  <2> QED
    BY <2>2, <2>3, <2>4 DEF AfterPark
<1>14. ListStays(t)
  <2>1. Unlinking => Unlinking'
    BY <1>1, <1>3, <1>4 DEF Unlinking
  <2>2. \A u \in LinkOwners' : u \in LinkOwners /\ pc'[u] = pc[u]
    BY <1>1, <1>3, <1>4, <1>9 DEF LinkOwners
  <2> QED
    BY <1>1, <2>1, <2>2 DEF ListStays, links
<1>15. PICK s \in Seq(Threads) : Shape(s)
  BY DEF IInv
<1>16. Shape(s)'
  BY <1>7, <1>14, <1>15, KeepShape
<1> QED
  BY <1>5, <1>8, <1>10, <1>11, <1>12, <1>13, <1>16 DEF IInv, Local

-----------------------------------------------------------------------------
(* Steps that take sleepers off the list.                                   *)

LEMMA EmptiedShape ==
  ASSUME cv'.tail = Nil, LinkOwners' = {}, Sleepers' = {}
  PROVE  \E s \in Seq(Threads) : Shape(s)'
<1>1. <<>> \in Seq(Threads) /\ Len(<<>>) = 0
  BY EmptySeq
<1>2. Shape(<<>>)'
  BY <1>1, NotOnEmpty DEF Shape, Chain, Snapshots, Known, Newest, Once, Along
<1> QED
  BY <1>1, <1>2

(* What t has taken when it appends r to wake[t]. *)
LEMMA TakeWake ==
  ASSUME TypeOK, Apart, NEW t \in Threads, NEW r \in Seq(Threads), Once(r),
         \A w \in Threads : FoundOn(w, r) => w \in Sleepers,
         wake' = [wake EXCEPT ![t] = @ \o r]
  PROVE  /\ wake' \in [Threads -> Seq(Threads)]
         /\ \A u \in Threads \ {t} : wake'[u] = wake[u]
         /\ wake'[t] = wake[t] \o r /\ Len(wake'[t]) = Len(wake[t]) + Len(r)
         /\ \A w \in Threads : FoundOn(w, wake'[t]) <=> FoundOn(w, wake[t]) \/ FoundOn(w, r)
         /\ \A w \in Threads : w \in Taken' <=> w \in Taken \/ FoundOn(w, r)
         /\ Apart'
<1>0. wake \in [Threads -> Seq(Threads)] /\ \A u \in Threads : wake[u] \in Seq(Threads) /\ Once(wake[u])
  BY DEF TypeOK, Apart
<1>1. \A u, w \in Threads : ~(FoundOn(w, wake[u]) /\ FoundOn(w, r))
  BY TakenIs DEF Sleepers
<1>2. /\ wake[t] \o r \in Seq(Threads) /\ Len(wake[t] \o r) = Len(wake[t]) + Len(r) /\ Once(wake[t] \o r)
      /\ \A w \in Threads : FoundOn(w, wake[t] \o r) <=> FoundOn(w, wake[t]) \/ FoundOn(w, r)
  BY <1>0, <1>1, ConcatOnce
<1>3. wake'[t] = wake[t] \o r /\ \A u \in Threads \ {t} : wake'[u] = wake[u]
  BY <1>0
<1>4. wake' \in [Threads -> Seq(Threads)] /\ \A u \in Threads : Once(wake'[u])
  BY <1>0, <1>2, <1>3
<1>5. \A w \in Threads : FoundOn(w, wake'[t]) <=> FoundOn(w, wake[t]) \/ FoundOn(w, r)
  BY <1>2, <1>3
<1>6. Apart'
  <2> SUFFICES ASSUME NEW u \in Threads, NEW v \in Threads, NEW w \in Threads,
                      FoundOn(w, wake'[u]), FoundOn(w, wake'[v])
               PROVE  u = v
    BY <1>4 DEF Apart
  <2> QED
    BY <1>1, <1>3, <1>5 DEF Apart
<1>7. \A w \in Threads : w \in Taken' <=> \E u \in Threads : FoundOn(w, wake'[u])
  BY DEF Taken, FoundOn
<1>8. \A w \in Threads : w \in Taken' <=> w \in Taken \/ FoundOn(w, r)
  BY <1>3, <1>5, <1>7, TakenIs
<1> QED
  BY <1>2, <1>3, <1>4, <1>5, <1>6, <1>8

Others(t) == \A u \in Threads \ {t} :
    /\ pc'[u] = pc[u] /\ caller'[u] = caller[u] /\ spin'[u] = spin[u]
    /\ removed'[u] = removed[u] /\ status'[u] = status[u] /\ base'[u] = base[u]

(* Moving the sleepers of r from the list to a wake list keeps the local    *)
(* part of the invariant; they are sleepers no more.                        *)
LEMMA TakeLocal ==
  ASSUME NEW t \in Threads, Local, NEW r \in Seq(Threads), Once(r),
         \A w \in Threads : FoundOn(w, r) => w \in Sleepers,
         wake' = [wake EXCEPT ![t] = @ \o r], Others(t),
         Pending(t)' <=> Pending(t), AfterPark(t)' <=> AfterPark(t), pc'[t] # "releasing",
         FlowOf(t)', TypeOK', Words', LinkMoves(t)
  PROVE  Local' /\ \A w \in Threads : w \in Sleepers' <=> w \in Sleepers /\ ~FoundOn(w, r)
<1>0. TypeOK /\ Apart /\ LinkHasOneOwner
  BY DEF Local
<1>1. /\ \A u \in Threads \ {t} : wake'[u] = wake[u]
      /\ \A w \in Threads : w \in Taken' <=> w \in Taken \/ FoundOn(w, r)
      /\ Apart'
  BY <1>0, TakeWake
<1>2. \A u \in Threads \ {t} : Same(u)
  BY <1>1 DEF Others, Same
<1>3. \A u \in Threads : (Pending(u)' <=> Pending(u)) /\ (AfterPark(u)' <=> AfterPark(u))
  BY <1>2, SameThread
<1>4. \A w \in Threads : w \in Sleepers' <=> w \in Sleepers /\ ~FoundOn(w, r)
  BY <1>1, <1>3 DEF Sleepers
<1>5. \A u \in Threads : FlowOf(u)'
  <2> SUFFICES ASSUME NEW u \in Threads, u # t PROVE FlowOf(u)'
    OBVIOUS
  <2>1. Same(u) /\ FlowOf(u) /\ (u \in Taken => u \in Taken')
    BY <1>1, <1>2 DEF Local
  <2> QED
    BY <2>1, SameThread
<1>6. \A w \in Taken' : Pending(w)'
  <2>1. \A w \in Threads : w \in Taken' => Pending(w)
    BY <1>1 DEF Local, Sleepers
  <2> QED
    BY <1>3, <2>1 DEF Taken
<1>7. Releases'
  <2> SUFFICES ASSUME NEW u \in Threads, pc'[u] = "releasing"
               PROVE  wake'[u] # <<>> /\ AfterPark(Head(wake[u]))' /\ Head(wake'[u]) # u
    BY DEF Releases
  <2>1. u # t /\ pc[u] = "releasing" /\ wake'[u] = wake[u]
    BY <1>2 DEF Same
  <2>2. wake[u] # <<>> /\ AfterPark(Head(wake[u])) /\ Head(wake[u]) # u
    BY <2>1 DEF Local, Releases
  <2>3. PICK v \in Threads : v = Head(wake[u])
    <3>1. wake[u] \in Seq(Threads) /\ Once(wake[u])
      BY <1>0 DEF TypeOK, Apart
    <3> QED
      BY <2>2, <3>1, TailOnce
  <2>4. AfterPark(v)'
    BY <1>3, <2>2, <2>3
  <2> QED
    BY <2>1, <2>2, <2>3, <2>4 DEF AfterPark
<1>8. LinkHasOneOwner'
  BY <1>0, <1>2, OwnerStep
<1> QED
  BY <1>1, <1>4, <1>5, <1>6, <1>7, <1>8 DEF Local

(* The word is emptied and the whole list taken. *)
LEMMA TakeEverything ==
  ASSUME NEW t \in Threads, IInv, NEW s \in Seq(Threads), Shape(s),
         wake' = [wake EXCEPT ![t] = @ \o s], Others(t), cv' = Empty,
         UNCHANGED <<links, spin, lock, timed, removed>>, pc' = [pc EXCEPT ![t] = "release"],
         pc[t] \in Waking \/ pc[t] = "idle",
         t \in LinkOwners \/ ~cv.link,
         caller' \in [Threads -> {"none", "wake", "optimize", "single"}],
         caller'[t] # "none", caller'[t] = caller[t] \/ (caller[t] = "none" /\ caller'[t] = "wake"),
         status' \in [Threads -> Word], base' \in [Threads -> {0, 1}]
  PROVE  IInv'
<1>0. Local /\ TypeOK /\ FlowOf(t) /\ LinkHasOneOwner /\ Apart
  BY DEF IInv, Local
<1>1. Once(s) /\ \A w \in Threads : FoundOn(w, s) <=> w \in Sleepers
  BY DEF Shape, Chain
<1>2. pc'[t] = "release" /\ pc' \in [Threads -> Labels]
  BY <1>0 DEF TypeOK, Labels
<1>3. /\ wake' \in [Threads -> Seq(Threads)]
      /\ \A w \in Threads : FoundOn(w, wake'[t]) <=> FoundOn(w, wake[t]) \/ FoundOn(w, s)
      /\ \A w \in Threads : w \in Taken' <=> w \in Taken \/ FoundOn(w, s)
  BY <1>0, <1>1, TakeWake
<1>4. TypeOK'
  <2>1. Empty \in Word
    BY <1>0, WordTypes
  <2> QED
    BY <1>0, <1>2, <1>3, <2>1 DEF TypeOK, links
<1>5. Words' /\ LinkMoves(t) /\ LinkOwners' = {}
  <2>1. t \notin LinkOwners' /\ cv'.link = FALSE /\ cv'.count = 0
    BY <1>2 DEF LinkOwners, Empty
  <2>2. \A u \in Threads \ {t} : u \in LinkOwners' <=> u \in LinkOwners
    BY DEF LinkOwners, Others
  <2>3. \A u \in Threads \ {t} : u \notin LinkOwners
    BY <1>0, OwnerIs
  <2>4. LinkOwners' = {}
    BY <2>1, <2>2, <2>3 DEF LinkOwners
  <2>5. LinkMoves(t)
    <3>1. CASE t \in LinkOwners
      BY <2>1, <3>1 DEF LinkMoves
    <3>2. CASE t \notin LinkOwners
      <4>1. cv.link = FALSE
        BY <1>0, <3>2, WordTypes
      <4> QED
        BY <2>1, <3>2, <4>1 DEF LinkMoves
    <3> QED
      BY <3>1, <3>2
  <2> QED
    BY <2>1, <2>4, <2>5 DEF Words
<1>6. (Pending(t)' <=> Pending(t)) /\ (AfterPark(t)' <=> AfterPark(t))
  BY <1>0, <1>2 DEF Pending, BeforePark, AfterPark, FlowOf, Waking
<1>7. FlowOf(t)'
  <2>1. caller'[t] = "single" => (removed'[t] \/ t \in Taken') /\ ~FoundOn(t, wake'[t])
    <3> SUFFICES ASSUME caller'[t] = "single" PROVE (removed[t] \/ t \in Taken') /\ ~FoundOn(t, wake'[t])
      OBVIOUS
    <3>1. caller[t] = "single"
      OBVIOUS
    <3>2. (removed[t] \/ t \in Taken) /\ ~FoundOn(t, wake[t])
      BY <1>0, <3>1 DEF FlowOf
    <3>3. t \notin Sleepers
      BY <1>0, <3>1, <3>2 DEF Sleepers, Pending, BeforePark, FlowOf, Waking
    <3> QED
      BY <1>1, <1>3, <3>2, <3>3
  <2>2. AfterPark(t)' => ~spin'[t]
    BY <1>0, <1>6 DEF FlowOf
  <2>3. removed'[t] => caller'[t] = "single"
    BY <1>0, <1>2 DEF FlowOf, Waking
  <2> QED
    BY <1>2, <1>5, <2>1, <2>2, <2>3 DEF FlowOf, Waking
<1>8. /\ Local'
      /\ \A w \in Threads : w \in Sleepers' <=> w \in Sleepers /\ ~FoundOn(w, s)
  <2>1. \A w \in Threads : FoundOn(w, s) => w \in Sleepers
    BY <1>1
  <2>2. pc'[t] # "releasing"
    BY <1>2
  <2> QED
    BY <1>0, <1>1, <1>4, <1>5, <1>6, <1>7, <2>1, <2>2, TakeLocal
<1>9. Sleepers' = {}
  BY <1>1, <1>8 DEF Sleepers
<1>10. \E v \in Seq(Threads) : Shape(v)'
  BY <1>5, <1>9, EmptiedShape DEF Empty
<1> QED
  BY <1>8, <1>10 DEF IInv

(* Taking the whole list because wake-all was requested keeps the           *)
(* invariant.                                                               *)
LEMMA TakeAllKeeps ==
  ASSUME IInv, NEW t \in Threads, TakeAll(t)
  PROVE  IInv'
<1>0. Local /\ TypeOK /\ FlowOf(t)
  BY DEF IInv, Local
<1>1. PICK s \in Seq(Threads) : Shape(s)
  BY DEF IInv
<1>2. Follow(back, cv.tail) = s
  BY <1>1, ChainIs DEF Shape
<1>3. wake' = [wake EXCEPT ![t] = @ \o s] /\ cv' = Empty /\ pc' = [pc EXCEPT ![t] = "release"]
  BY <1>2 DEF TakeAll, Goto
<1>4. UNCHANGED <<links, spin, lock, timed, removed>> /\ UNCHANGED <<caller, status, base>>
  BY DEF TakeAll
<1>5. Others(t) /\ pc[t] \in Waking /\ t \in LinkOwners
  BY <1>0, <1>3, <1>4 DEF Others, TakeAll, Waking, LinkOwners, TypeOK
<1>6. /\ caller' \in [Threads -> {"none", "wake", "optimize", "single"}] /\ caller'[t] # "none" /\ caller'[t] = caller[t]
      /\ status' \in [Threads -> Word] /\ base' \in [Threads -> {0, 1}]
  BY <1>0, <1>4, <1>5 DEF TypeOK, FlowOf
<1> QED
  BY <1>1, <1>3, <1>4, <1>5, <1>6, TakeEverything

(* A wake-all call that finds the Link free and takes the whole list keeps  *)
(* the invariant.                                                           *)
LEMMA WakeAllTakes ==
  ASSUME IInv, NEW t \in Threads, RtlWakeAllConditionVariable(t), ~cv.link
  PROVE  IInv'
<1>0. Local /\ TypeOK /\ FlowOf(t)
  BY DEF IInv, Local
<1>1. PICK s \in Seq(Threads) : Shape(s)
  BY DEF IInv
<1>2. Follow(back, cv.tail) = s
  BY <1>1, ChainIs DEF Shape
<1>3. pc[t] = "idle" /\ wake[t] = <<>> /\ <<>> \o s = s
  <2>1. pc[t] = "idle" /\ wake[t] = <<>>
    BY <1>0 DEF FlowOf, Waking, RtlWakeAllConditionVariable
  <2> QED
    BY <2>1, ConcatEmptySeq
<1>4. wake' = [wake EXCEPT ![t] = @ \o s]
  BY <1>2, <1>3 DEF RtlWakeAllConditionVariable
<1>5. /\ cv' = Empty /\ pc' = [pc EXCEPT ![t] = "release"] /\ caller' = [caller EXCEPT ![t] = "wake"]
      /\ UNCHANGED <<links, spin, lock, timed, removed>> /\ UNCHANGED <<status, base>>
  BY DEF RtlWakeAllConditionVariable, Goto
<1>6. Others(t)
  BY <1>0, <1>5 DEF Others, TypeOK
<1>7. /\ caller' \in [Threads -> {"none", "wake", "optimize", "single"}]
      /\ caller[t] = "none" /\ caller'[t] = "wake"
      /\ status' \in [Threads -> Word] /\ base' \in [Threads -> {0, 1}]
  BY <1>0, <1>3, <1>5 DEF TypeOK, FlowOf, Waking
<1> QED
  BY <1>1, <1>3, <1>4, <1>5, <1>6, <1>7, TakeEverything

(* Emptying the list by taking its last block keeps the invariant. *)
LEMMA WakeEmptyTakes ==
  ASSUME IInv, NEW t \in Threads, WakeEmpty(t), cv = status[t]
  PROVE  IInv'
<1>0. Local /\ TypeOK /\ FlowOf(t)
  BY DEF IInv, Local
<1>1. PICK s \in Seq(Threads) : Shape(s)
  BY DEF IInv
<1>2. pc[t] = "wakeEmpty" /\ t \in LinkOwners
  BY DEF WakeEmpty, LinkOwners
<1>3. PICK j \in 1..Len(s) : s[j] = cv.tail /\ j = Len(s)
  BY <1>1, <1>2 DEF Shape, Snapshots, FromTail
<1>4. Len(s) = 1 /\ s[1] = cv.tail
  <2>1. Len(s) \in Nat /\ s # <<>> /\ 1 \in 1..Len(s)
    BY <1>3, EmptySeq, LenProperties
  <2> QED
    BY <1>1, <1>3, <2>1 DEF Shape, Chain, Once
<1>5. s = <<cv.tail>>
  BY <1>4, LenProperties
<1>6. Append(wake[t], cv.tail) = wake[t] \o s
  <2>1. wake[t] \in Seq(Threads) /\ cv.tail \in Threads
    BY <1>0, <1>3, ElementOfSeq DEF TypeOK
  <2> QED
    BY <1>5, <2>1
<1>7. wake' = [wake EXCEPT ![t] = @ \o s]
  BY <1>6 DEF WakeEmpty
<1>8. /\ cv' = Empty /\ pc' = [pc EXCEPT ![t] = "release"]
      /\ UNCHANGED <<links, spin, lock, timed, removed>> /\ UNCHANGED <<caller, status, base>>
  BY DEF WakeEmpty, Goto
<1>9. Others(t) /\ pc[t] \in Waking
  BY <1>0, <1>2, <1>8 DEF Others, TypeOK, Waking
<1>10. /\ caller' \in [Threads -> {"none", "wake", "optimize", "single"}] /\ caller'[t] # "none" /\ caller'[t] = caller[t]
       /\ status' \in [Threads -> Word] /\ base' \in [Threads -> {0, 1}]
  BY <1>0, <1>8, <1>9 DEF TypeOK, FlowOf
<1> QED
  BY <1>1, <1>2, <1>7, <1>8, <1>9, <1>10, TakeEverything

-----------------------------------------------------------------------------
(* Steps that rearrange the list.                                           *)

LEMMA Pushed ==
  ASSUME NEW s \in Seq(Threads), Once(s), NEW t \in Threads, ~FoundOn(t, s)
  PROVE  /\ <<t>> \o s \in Seq(Threads) /\ Len(<<t>> \o s) = Len(s) + 1 /\ Once(<<t>> \o s)
         /\ (<<t>> \o s)[1] = t /\ \A i \in 1..Len(s) : (<<t>> \o s)[i+1] = s[i]
         /\ \A w \in Threads : FoundOn(w, <<t>> \o s) <=> w = t \/ FoundOn(w, s)
<1>1. <<t>> \in Seq(Threads) /\ Len(<<t>>) = 1 /\ <<t>>[1] = t /\ Len(s) \in Nat
  BY LenProperties
<1>2. \A w \in Threads : FoundOn(w, <<t>>) <=> w = t
  <2>1. \A i \in 1..1 : i = 1
    OBVIOUS
  <2> QED
    BY <1>1, <2>1, FoundIs
<1>3. Once(<<t>>)
  BY <1>1 DEF Once
<1>4. /\ <<t>> \o s \in Seq(Threads) /\ Len(<<t>> \o s) = Len(<<t>>) + Len(s) /\ Once(<<t>> \o s)
      /\ \A w \in Threads : FoundOn(w, <<t>> \o s) <=> FoundOn(w, <<t>>) \/ FoundOn(w, s)
  BY <1>1, <1>2, <1>3, ConcatOnce
<1>5. \A i \in 1..Len(<<t>>)+Len(s) : (<<t>> \o s)[i] = IF i <= Len(<<t>>) THEN <<t>>[i] ELSE s[i - Len(<<t>>)]
  BY <1>1, ConcatProperties
<1>6. (<<t>> \o s)[1] = t
  BY <1>1, <1>5
<1>7. ASSUME NEW i \in 1..Len(s) PROVE (<<t>> \o s)[i+1] = s[i]
  <2>1. i + 1 \in 1..1+Len(s) /\ ~(i + 1 <= 1) /\ (i + 1) - 1 = i
    BY <1>1
  <2> QED
    BY <1>1, <1>5, <2>1
<1> QED
  BY <1>1, <1>2, <1>4, <1>6, <1>7

(* Enqueueing a block in front of the newest one keeps the invariant: the   *)
(* ghost list grows at its head.                                            *)
LEMMA SleepKeeps ==
  ASSUME IInv, NEW t \in Threads, Sleep(t)
  PROVE  IInv'
<1>0. Local /\ TypeOK /\ FlowOf(t) /\ Words /\ LinkHasOneOwner /\ (t \in Taken => Pending(t))
  BY DEF IInv, Local
<1>1. PICK s \in Seq(Threads) : Shape(s)
  BY DEF IInv
<1>2. /\ pc[t] = "locked" /\ pc' = [pc EXCEPT ![t] = "unlock"] /\ spin' = [spin EXCEPT ![t] = TRUE]
      /\ cv' = [cv EXCEPT !.tail = t, !.link = @ \/ cv.tail # Nil]
      /\ back' = [back EXCEPT ![t] = cv.tail]
      /\ notify' = [notify EXCEPT ![t] = IF cv.tail = Nil THEN t ELSE Nil]
      /\ next' = [next EXCEPT ![t] = Nil]
      /\ status' = [status EXCEPT ![t] = IF TakesLink(cv) THEN cv' ELSE Empty]
      /\ UNCHANGED <<lock, caller, base, wake, removed>>
  BY DEF Sleep, Goto
<1>3. /\ caller[t] = "none" /\ wake[t] = <<>> /\ removed[t] = FALSE /\ ~Pending(t) /\ t \notin Taken
      /\ t \notin Sleepers /\ t \notin LinkOwners
  BY <1>0, <1>2 DEF FlowOf, Waking, TypeOK, Pending, BeforePark, AfterPark, Sleepers, LinkOwners
<1>4. /\ cv'.tail = t /\ cv'.count = cv.count /\ (cv'.link <=> cv.link \/ cv.tail # Nil)
      /\ cv' \in Word /\ cv' # Empty
  BY <1>0, <1>2, ThreadsAssumption DEF TypeOK, Word, Empty
<1>5. /\ pc'[t] = "unlock" /\ spin'[t] = TRUE /\ back'[t] = cv.tail /\ next'[t] = Nil
      /\ notify'[t] = IF cv.tail = Nil THEN t ELSE Nil
      /\ status'[t] = IF TakesLink(cv) THEN cv' ELSE Empty
      /\ \A u \in Threads \ {t} : back'[u] = back[u] /\ next'[u] = next[u] /\ notify'[u] = notify[u]
  BY <1>0, <1>2 DEF TypeOK
<1>6. \A u \in Threads \ {t} : Same(u)
  BY <1>0, <1>2 DEF TypeOK, Same
<1>7. TypeOK'
  <2>1. Empty \in Word /\ cv.tail \in Ptr
    BY <1>0, WordTypes
  <2>2. status' \in [Threads -> Word]
    BY <1>0, <1>2, <1>4, <2>1 DEF TypeOK
  <2>3. pc' \in [Threads -> Labels]
    BY <1>0, <1>2 DEF TypeOK, Labels
  <2>4. timed' \in [Threads -> BOOLEAN]
    BY <1>0 DEF Sleep, TypeOK
  <2> QED
    BY <1>0, <1>2, <1>4, <2>1, <2>2, <2>3, <2>4 DEF TypeOK, Ptr
<1>8. cv.link \in BOOLEAN /\ cv'.link \in BOOLEAN /\ (t \in LinkOwners' <=> TakesLink(cv))
  BY <1>0, <1>4, <1>5, <1>7 DEF LinkOwners, TypeOK, Word
<1>9. Words'
  <2>1. ~cv'.link => ~cv.link
    BY <1>4
  <2> QED
    BY <1>0, <1>4, <2>1, ThreadsAssumption DEF Words
<1>10. LinkMoves(t)
  <2>1. CASE TakesLink(cv)
    BY <1>4, <1>8, <2>1 DEF LinkMoves, TakesLink
  <2>2. CASE ~TakesLink(cv)
    <3>1. cv'.link = cv.link
      BY <1>0, <1>4, <1>8, <2>2 DEF TakesLink, Words
    <3> QED
      BY <1>3, <1>8, <2>2, <3>1 DEF LinkMoves
  <2> QED
    BY <2>1, <2>2
<1>11. FlowOf(t)'
  <2>1. t \in LinkOwners' => status'[t].link /\ status'[t].count = 0
    BY <1>0, <1>4, <1>5, <1>8 DEF TakesLink, Words
  <2> QED
    BY <1>2, <1>3, <1>5, <2>1 DEF FlowOf, Waking, AfterPark
<1>12. Settled(t) /\ Pending(t)'
  BY <1>2, <1>3, <1>5, <1>6, <1>11 DEF Settled, Pending, BeforePark
<1>13. /\ Local' /\ Taken' = Taken
       /\ \A u \in Threads \ {t} : Pending(u)' <=> Pending(u)
  BY <1>0, <1>7, <1>9, <1>10, <1>12, SettledLocal
<1>14. \A w \in Threads : w \in Sleepers' <=> w = t \/ w \in Sleepers
  BY <1>3, <1>12, <1>13 DEF Sleepers
<1>15. Once(s) /\ Along(back, s) /\ (s = <<>> => cv.tail = Nil) /\ (s # <<>> => cv.tail = s[1])
  BY <1>1 DEF Shape, Chain
<1>16. ~FoundOn(t, s)
  BY <1>1, <1>3 DEF Shape, Chain
<1>17. PICK v \in Seq(Threads) :
         /\ Len(v) = Len(s) + 1 /\ Once(v) /\ v[1] = t /\ \A i \in 1..Len(s) : v[i+1] = s[i]
         /\ \A w \in Threads : FoundOn(w, v) <=> w = t \/ FoundOn(w, s)
  BY <1>15, <1>16, Pushed
<1>18. /\ Len(s) \in Nat /\ (s = <<>> <=> Len(s) = 0) /\ v # <<>>
       /\ \A i \in 1..Len(s) : s[i] \in Threads \ {t}
  <2>1. Len(s) \in Nat /\ (s = <<>> <=> Len(s) = 0) /\ s \in [1..Len(s) -> Threads]
    BY EmptySeq, LenProperties
  <2>2. Len(v) # 0
    BY <1>17, <2>1
  <2> QED
    BY <1>16, <1>17, <2>1, <2>2, EmptySeq, FoundIs
<1>19. \A i \in 1..Len(v) : i = 1 \/ (i - 1 \in 1..Len(s) /\ (i - 1) + 1 = i /\ v[i] = s[i-1] /\ v[i] \in Threads \ {t})
  <2>1. \A i \in 1..Len(v) : i = 1 \/ (i - 1 \in 1..Len(s) /\ (i - 1) + 1 = i)
    BY <1>17, <1>18
  <2> QED
    BY <1>17, <1>18, <2>1
<1>20. Chain(v)'
  <2>1. ASSUME NEW i \in 1..Len(v) PROVE back'[v[i]] = IF i = Len(v) THEN Nil ELSE v[i+1]
    <3>1. CASE i = 1
      <4>1. CASE s = <<>>
        BY <1>5, <1>15, <1>17, <1>18, <3>1, <4>1
      <4>2. CASE s # <<>>
        <5>1. 1 \in 1..Len(s) /\ 1 # Len(v)
          BY <1>17, <1>18, <4>2
        <5> QED
          BY <1>5, <1>15, <1>17, <3>1, <4>2, <5>1
      <4> QED
        BY <4>1, <4>2
    <3>2. CASE i # 1
      <4>1. /\ i - 1 \in 1..Len(s) /\ v[i] = s[i-1] /\ back'[v[i]] = back[s[i-1]]
            /\ (i = Len(v) <=> i - 1 = Len(s)) /\ (i # Len(v) => i \in 1..Len(s) /\ (i - 1) + 1 = i)
        BY <1>5, <1>17, <1>18, <1>19, <3>2
      <4>2. back[s[i-1]] = IF i - 1 = Len(s) THEN Nil ELSE s[(i-1)+1]
        BY <1>15, <4>1 DEF Along
      <4> QED
        BY <1>17, <4>1, <4>2
    <3> QED
      BY <3>1, <3>2
  <2>2. Along(back', v)
    BY <2>1 DEF Along
  <2>3. \A w \in Threads : FoundOn(w, v) <=> w \in Sleepers'
    BY <1>1, <1>14, <1>17 DEF Shape, Chain
  <2> QED
    BY <1>4, <1>17, <1>18, <2>2, <2>3 DEF Chain, Along
<1>21. Newest(v)'
  BY <1>5, <1>17 DEF Newest
<1>22. Known(v)'
  <2> SUFFICES ASSUME ~Unlinking' PROVE \E k \in 1..Len(v) : KnownFrom(v, 1, k)'
    BY DEF Known
  <2>1. ~Unlinking
    BY <1>2, <1>6 DEF Unlinking, Same
  <2>2. CASE s = <<>>
    <3>1. Len(v) = 1 /\ 1 \in 1..Len(v) /\ notify'[t] = t
      BY <1>5, <1>15, <1>17, <1>18, <2>2
    <3>2. KnownFrom(v, 1, 1)'
      BY <1>17, <3>1 DEF KnownFrom
    <3> QED
      BY <3>1, <3>2
  <2>3. CASE s # <<>>
    <3>1. PICK k \in 1..Len(s) : KnownFrom(s, 1, k)
      BY <1>1, <2>1, <2>3 DEF Shape, Known
    <3>2. cv.tail # Nil
      BY <1>15, <1>18, <2>3, ThreadsAssumption
    <3>3. k + 1 \in 1..Len(v) /\ Len(s) \in 1..Len(s) /\ v[k+1] = s[k] /\ v[Len(v)] = s[Len(s)]
      BY <1>17, <1>18, <2>3
    <3>4. notify'[v[k+1]] = v[Len(v)]
      BY <1>5, <1>18, <3>1, <3>3 DEF KnownFrom
    <3>5. ASSUME NEW i \in 1..(k+1)-1 PROVE notify'[v[i]] = Nil
      <4>1. CASE i = 1
        BY <1>5, <1>17, <3>2, <4>1
      <4>2. CASE i # 1
        <5>1. i \in 1..Len(v) /\ i - 1 \in 1..k-1 /\ i - 1 \in 1..Len(s)
          BY <1>17, <1>18, <4>2
        <5>2. v[i] = s[i-1] /\ v[i] \in Threads \ {t}
          BY <1>19, <4>2, <5>1
        <5> QED
          BY <1>5, <3>1, <5>1, <5>2 DEF KnownFrom
      <4> QED
        BY <4>1, <4>2
    <3>6. ASSUME NEW i \in k+1..Len(v)-1 PROVE next'[v[i+1]] = v[i]
      <4>1. i - 1 \in k..Len(s)-1 /\ i - 1 \in 1..Len(s) /\ i \in 1..Len(s) /\ (i-1)+1 = i
        BY <1>17, <1>18
      <4>2. v[i+1] = s[i] /\ v[i] = s[i-1] /\ s[i] \in Threads \ {t}
        BY <1>17, <1>18, <4>1
      <4>3. next[s[(i-1)+1]] = s[i-1]
        BY <3>1, <4>1 DEF KnownFrom
      <4> QED
        BY <1>5, <4>1, <4>2, <4>3
    <3>7. KnownFrom(v, 1, k+1)'
      BY <3>4, <3>5, <3>6 DEF KnownFrom
    <3> QED
      BY <3>3, <3>7
  <2> QED
    BY <2>2, <2>3
<1>23. Snapshots(v)'
  <2> SUFFICES ASSUME NEW u \in LinkOwners' PROVE \E j \in 1..Len(v) : FromTail(v, u, j)'
    BY DEF Snapshots
  <2>0. u \in Threads
    BY DEF LinkOwners
  <2>1. CASE u = t
    <3>1. 1 \in 1..Len(v) /\ status'[t].tail = t
      BY <1>4, <1>5, <1>8, <1>17, <1>18, <2>1
    <3>2. FromTail(v, t, 1)'
      BY <1>5, <1>17, <3>1 DEF FromTail
    <3> QED
      BY <2>1, <3>1, <3>2
  <2>2. CASE u # t
    <3>1. u \in LinkOwners /\ Same(u)
      BY <1>6, <2>0, <2>2, SameThread
    <3>2. PICK j \in 1..Len(s) : FromTail(s, u, j)
      BY <1>1, <3>1 DEF Shape, Snapshots
    <3>3. j + 1 \in 1..Len(v) /\ v[j+1] = s[j] /\ s[j] \in Threads \ {t} /\ (j = Len(s) => j + 1 = Len(v))
      BY <1>17, <1>18
    <3>4. cv.tail # Nil
      BY <1>0, <3>1, OwnerIs DEF Words
    <3>5. ASSUME NEW i \in 1..(j+1)-1
          PROVE  notify'[v[i]] = Nil /\ next'[v[i]] = Nil /\ (pc'[u] = "unlink" => v[i] # u)
      <4>1. CASE i = 1
        BY <1>5, <1>17, <2>2, <3>4, <4>1
      <4>2. CASE i # 1
        <5>1. i \in 1..Len(v) /\ i - 1 \in 1..j-1 /\ i - 1 \in 1..Len(s)
          BY <1>17, <1>18, <4>2
        <5>2. v[i] = s[i-1] /\ v[i] \in Threads \ {t}
          BY <1>19, <4>2, <5>1
        <5> QED
          BY <1>5, <3>1, <3>2, <5>1, <5>2 DEF FromTail, Same
      <4> QED
        BY <4>1, <4>2
    <3>6. FromTail(v, u, j+1)'
      BY <1>5, <3>1, <3>2, <3>3, <3>5 DEF FromTail, Same
    <3> QED
      BY <3>3, <3>6
  <2> QED
    BY <2>1, <2>2
<1> QED
  BY <1>13, <1>20, <1>21, <1>22, <1>23 DEF IInv, Shape

(* Where the Link owner t starts its walk, and where the walk ends. *)
LEMMA WalkOf ==
  ASSUME IInv, NEW s \in Seq(Threads), Shape(s), NEW t \in LinkOwners, pc[t] # "unlink"
  PROVE  \E j \in 1..Len(s) : \E k \in j..Len(s) :
           FromTail(s, t, j) /\ KnownFrom(s, 1, k) /\ KnownFrom(s, j, k)
<1>1. PICK j \in 1..Len(s) : FromTail(s, t, j)
  BY DEF Shape, Snapshots
<1>2. ~Unlinking /\ s # <<>>
  <2>1. TypeOK /\ LinkHasOneOwner
    BY DEF IInv, Local
  <2>2. Len(s) \in Nat /\ Len(s) # 0
    BY LenProperties
  <2> QED
    BY <2>1, <2>2, OwnerIs, EmptySeq
<1>3. PICK k \in 1..Len(s) : KnownFrom(s, 1, k)
  BY <1>2 DEF Shape, Known
<1>4. Len(s) \in Nat /\ s[Len(s)] # Nil
  BY <1>1, LenProperties, ElementOfSeq, ThreadsAssumption
<1>5. k \in j..Len(s)
  <2>1. ~(k < j)
    <3>1. k < j => k \in 1..j-1
      BY <1>4
    <3> QED
      BY <1>1, <1>3, <1>4, <3>1 DEF FromTail, KnownFrom
  <2> QED
    BY <1>4, <2>1
<1>6. KnownFrom(s, j, k)
  <2>1. \A i \in j..k-1 : i \in 1..k-1
    BY <1>4
  <2> QED
    BY <1>3, <2>1 DEF KnownFrom
<1> QED
  BY <1>1, <1>3, <1>5, <1>6

(* After the walk, all links to newer blocks are right. *)
LEMMA WalkLinks ==
  ASSUME NEW s \in Seq(Threads), Once(s), Along(back, s), NEW j \in 1..Len(s),
         NEW k \in j..Len(s), KnownFrom(s, j, k), next \in [Threads -> Ptr],
         NEW t \in Threads, FromTail(s, t, j), pc[t] # "unlink", next' = Relinked(s[j])
  PROVE  /\ next' \in [Threads -> Ptr]
         /\ \A i \in 1..j : next'[s[i]] = Nil
         /\ \A i \in j..Len(s)-1 : next'[s[i+1]] = s[i]
<1>0. Len(s) \in Nat /\ s \in [1..Len(s) -> Threads]
  BY LenProperties
<1>1. /\ Relinked(s[j]) \in [Threads -> Ptr]
      /\ \A i \in j..Len(s)-1 : Relinked(s[j])[s[i+1]] = s[i]
      /\ \A q \in Threads : (\A i \in j+1..Len(s) : q # s[i]) => Relinked(s[j])[q] = next[q]
  BY RelinkedIs
<1>2. ASSUME NEW i \in 1..j PROVE next'[s[i]] = Nil
  <2>1. i \in 1..Len(s) /\ s[i] \in Threads /\ (i = j \/ i \in 1..j-1)
    BY <1>0
  <2>2. \A x \in j+1..Len(s) : x \in 1..Len(s) /\ x # i
    BY <1>0
  <2>3. \A x \in j+1..Len(s) : s[i] # s[x]
    BY <2>1, <2>2 DEF Once
  <2>4. next'[s[i]] = next[s[i]]
    BY <1>1, <2>1, <2>3
  <2> QED
    BY <2>1, <2>4 DEF FromTail
<1> QED
  BY <1>1, <1>2

(* Setting the forward links from the newest block to the oldest keeps the  *)
(* invariant.                                                               *)
LEMMA OptimizeKeeps ==
  ASSUME IInv, NEW t \in Threads, Optimize(t)
  PROVE  IInv'
<1>0. Local /\ TypeOK /\ FlowOf(t) /\ Words /\ LinkHasOneOwner /\ (t \in Taken => Pending(t))
  BY DEF IInv, Local
<1>1. PICK s \in Seq(Threads) : Shape(s)
  BY DEF IInv
<1>2. pc[t] = "optimize" /\ t \in LinkOwners
  BY DEF Optimize, LinkOwners
<1>3. PICK j \in 1..Len(s) : \E k \in j..Len(s) :
           FromTail(s, t, j) /\ KnownFrom(s, 1, k) /\ KnownFrom(s, j, k)
  BY <1>1, <1>2, WalkOf
<1>4. PICK k \in j..Len(s) : KnownFrom(s, j, k)
  BY <1>3
<1>5. /\ Once(s) /\ Along(back, s) /\ FromTail(s, t, j) /\ s[j] = status[t].tail
      /\ next \in [Threads -> Ptr]
  BY <1>0, <1>1, <1>3 DEF Shape, Chain, FromTail, TypeOK, Ptr
<1>6. /\ Len(s) \in Nat /\ s # <<>> /\ Len(s) \in 1..Len(s)
      /\ s \in [1..Len(s) -> Threads] /\ s[j] \in Threads /\ s[Len(s)] \in Threads
  BY LenProperties, EmptySeq
<1>7. Oldest(s[j]) = s[Len(s)]
  BY <1>4, <1>5, OldestIs
<1>8. /\ next' = Relinked(s[j]) /\ notify' = [notify EXCEPT ![s[j]] = s[Len(s)]]
      /\ pc' = [pc EXCEPT ![t] = "optimizeCas"]
      /\ UNCHANGED <<cv, back, spin, lock, timed, caller, work, removed>>
  BY <1>5, <1>7 DEF Optimize, Goto
<1>9. /\ next' \in [Threads -> Ptr]
      /\ \A i \in 1..j : next'[s[i]] = Nil
      /\ \A i \in j..Len(s)-1 : next'[s[i+1]] = s[i]
  BY <1>2, <1>4, <1>5, <1>8, WalkLinks
<1>10. notify'[s[j]] = s[Len(s)] /\ \A i \in 1..j-1 : notify'[s[i]] = Nil
  <2>1. \A i \in 1..j-1 : i \in 1..Len(s) /\ i # j
    BY <1>6
  <2>2. \A i \in 1..j-1 : s[i] \in Threads /\ s[i] # s[j] /\ notify[s[i]] = Nil
    BY <1>5, <1>6, <2>1 DEF Once, FromTail
  <2> QED
    BY <1>0, <1>6, <1>8, <2>2 DEF TypeOK
<1>11. wake' = wake /\ \A u \in Threads \ {t} : Same(u)
  BY <1>0, <1>8 DEF Same, TypeOK, work
<1>12. TypeOK'
  <2>1. pc' \in [Threads -> Labels]
    BY <1>0, <1>8 DEF TypeOK, Labels
  <2> QED
    BY <1>0, <1>6, <1>8, <1>9, <2>1 DEF TypeOK, work, Ptr
<1>13. Words' /\ LinkMoves(t)
  BY <1>0, <1>2, <1>8 DEF Words, LinkMoves, LinkOwners, TypeOK
<1>14. FlowOf(t)'
  <2>1. Taken' = Taken
    BY <1>11 DEF Taken
  <2> QED
    BY <1>0, <1>2, <1>8, <1>11, <2>1 DEF FlowOf, Waking, AfterPark, LinkOwners, FoundOn, TypeOK, work
<1>15. Quiet(t)
  BY <1>0, <1>2, <1>8, <1>11, <1>14 DEF Quiet, Settled, Pending, BeforePark, AfterPark, TypeOK
<1>16. Local' /\ Sleepers' = Sleepers
  BY <1>0, <1>12, <1>13, <1>15, QuietLocal
<1>17. Chain(s)'
  BY <1>1, <1>8, <1>16 DEF Shape, Chain, Along
<1>18. Newest(s)'
  <2>1. 1 \in 1..j
    BY <1>6
  <2> QED
    BY <1>9, <2>1 DEF Newest
<1>19. Known(s)'
  <2>1. KnownFrom(s, 1, j)'
    BY <1>9, <1>10 DEF KnownFrom
  <2> QED
    BY <2>1 DEF Known
<1>20. Snapshots(s)'
  <2>1. LinkOwners' \subseteq {t}
    <3>1. \A u \in Threads \ {t} : u \notin LinkOwners'
      BY <1>0, <1>2, <1>11, OwnerIs, SameThread
    <3> QED
      BY <3>1 DEF LinkOwners
  <2>2. \A i \in 1..j-1 : i \in 1..j
    BY <1>6
  <2>3. j \in 1..j /\ pc'[t] = "optimizeCas" /\ status' = status
    BY <1>0, <1>6, <1>8 DEF TypeOK, work
  <2>4. FromTail(s, t, j)'
    BY <1>5, <1>9, <1>10, <2>2, <2>3 DEF FromTail
  <2> QED
    BY <2>1, <2>4 DEF Snapshots
<1> QED
  BY <1>16, <1>17, <1>18, <1>19, <1>20 DEF IInv, Shape

(* Unlinking the newest block by a change of the word keeps the invariant:  *)
(* the ghost list loses its head.                                           *)
LEMMA UnlinkNewestKeeps ==
  ASSUME IInv, NEW t \in Threads, UnlinkNewest(t), cv = status[t]
  PROVE  IInv'
<1>0. Local /\ TypeOK /\ FlowOf(t) /\ Words /\ LinkHasOneOwner
  BY DEF IInv, Local
<1>1. PICK s \in Seq(Threads) : Shape(s)
  BY DEF IInv
<1>2. /\ pc[t] = "unlink" /\ t \in LinkOwners /\ cv.tail = t
      /\ cv' = WithoutNewest(cv) /\ removed' = [removed EXCEPT ![t] = TRUE]
      /\ UNCHANGED <<links, spin, lock, timed, caller, base, wake>>
  BY DEF UnlinkNewest, LinkOwners
<1>3. /\ Once(s) /\ Along(back, s) /\ s # <<>> /\ s[1] = t
      /\ \A w \in Threads : FoundOn(w, s) <=> w \in Sleepers
  BY <1>1, <1>2, ThreadsAssumption DEF Shape, Chain
<1>4. Len(s) \in Nat \ {0} /\ s \in [1..Len(s) -> Threads] /\ Head(s) = t
  BY <1>3, LenProperties, EmptySeq, HeadTailProperties
<1>5. PICK v \in Seq(Threads) : /\ v = Tail(s) /\ Once(v) /\ FoundOn(t, s)
                                /\ \A w \in Threads : FoundOn(w, v) <=> FoundOn(w, s) /\ w # t
  <2>1. /\ FoundOn(Head(s), s) /\ Tail(s) \in Seq(Threads) /\ Once(Tail(s))
        /\ \A w \in Threads : FoundOn(w, Tail(s)) <=> FoundOn(w, s) /\ w # Head(s)
    BY <1>3, TailOnce
  <2> QED
    BY <1>4, <2>1
<1>6. Len(v) = Len(s) - 1 /\ \A i \in 1..Len(s)-1 : v[i] = s[i+1]
  BY <1>3, <1>5, HeadTailProperties
<1>7. t \in Sleepers /\ t \notin Taken /\ caller[t] = "none" /\ wake[t] = <<>> /\ spin[t] = FALSE
  BY <1>0, <1>2, <1>3, <1>5 DEF Sleepers, FlowOf, Waking, AfterPark, TypeOK
<1>8. back[t] = IF v = <<>> THEN Nil ELSE v[1]
  <2>1. 1 \in 1..Len(s) /\ (v = <<>> <=> 1 = Len(s)) /\ (1 # Len(s) => 1 \in 1..Len(s)-1)
    BY <1>4, <1>6, EmptySeq
  <2> QED
    BY <1>3, <1>6, <2>1 DEF Along
<1>9. ASSUME v # <<>> PROVE v[1] \in Threads /\ v[1] # Nil /\ 1 \in 1..Len(v)
  BY <1>9, LenProperties, EmptySeq, ThreadsAssumption
<1>10. /\ v = <<>> => cv' = Empty /\ pc' = [pc EXCEPT ![t] = "relock"] /\ status' = [status EXCEPT ![t] = Empty]
       /\ v # <<>> => /\ cv' = [tail |-> v[1], link |-> TRUE, count |-> 0] /\ pc' = pc
                      /\ status' = [status EXCEPT ![t] = cv']
  BY <1>2, <1>8, <1>9 DEF UnlinkNewest, WithoutNewest, Goto, Empty
<1>11. \A u \in Threads \ {t} : Same(u)
  <2>1. \A u \in Threads \ {t} : pc'[u] = pc[u] /\ status'[u] = status[u]
    BY <1>0, <1>10 DEF TypeOK
  <2> QED
    BY <1>0, <1>2, <2>1 DEF Same, TypeOK
<1>12. /\ v = <<>> => pc'[t] = "relock" /\ cv'.link = FALSE /\ cv'.tail = Nil /\ cv'.count = 0
       /\ v # <<>> => /\ pc'[t] = "unlink" /\ cv'.link = TRUE /\ cv'.tail = v[1]
                      /\ status'[t].tail = v[1] /\ status'[t].link = TRUE
       /\ removed'[t] = TRUE
  BY <1>0, <1>2, <1>10 DEF TypeOK, Empty
<1>13. TypeOK'
  <2>0. Empty \in Word
    BY <1>0, WordTypes
  <2>1. cv' \in Word
    <3>1. CASE v = <<>>
      BY <1>10, <2>0, <3>1
    <3>2. CASE v # <<>>
      <4>1. v[1] \in Threads /\ cv' = [tail |-> v[1], link |-> TRUE, count |-> 0] /\ 0 \in 0..Full
        BY <1>9, <1>10, <3>2 DEF Full
      <4> QED
        BY <4>1 DEF Word
    <3> QED
      BY <3>1, <3>2
  <2>2. pc' \in [Threads -> Labels]
    BY <1>0, <1>10 DEF TypeOK, Labels
  <2>3. status' \in [Threads -> Word]
    BY <1>0, <1>10, <2>0, <2>1 DEF TypeOK
  <2> QED
    BY <1>0, <1>2, <2>1, <2>2, <2>3 DEF TypeOK, links
<1>14. Words' /\ LinkMoves(t)
  <2>1. cv.link = TRUE
    BY <1>0, <1>2, OwnerIs
  <2> QED
    BY <1>2, <1>9, <1>12, <2>1 DEF Words, LinkMoves, LinkOwners
<1>15. FlowOf(t)'
  BY <1>2, <1>7, <1>12 DEF FlowOf, Waking, AfterPark, LinkOwners
<1>16. Settled(t) /\ ~Pending(t)'
  BY <1>2, <1>7, <1>11, <1>12, <1>15 DEF Settled, Pending, BeforePark
<1>17. /\ Local' /\ Taken' = Taken
       /\ \A u \in Threads \ {t} : Pending(u)' <=> Pending(u)
  BY <1>0, <1>13, <1>14, <1>16, SettledLocal
<1>18. \A w \in Threads : w \in Sleepers' <=> w \in Sleepers /\ w # t
  BY <1>16, <1>17 DEF Sleepers
<1>19. \A u \in LinkOwners' : u = t /\ v # <<>>
  <2>1. \A u \in Threads \ {t} : u \notin LinkOwners'
    BY <1>0, <1>2, <1>11, OwnerIs, SameThread
  <2>2. t \in LinkOwners' => v # <<>>
    BY <1>12 DEF LinkOwners
  <2> QED
    BY <2>1, <2>2 DEF LinkOwners
<1>20. Along(back', v)
  <2> SUFFICES ASSUME NEW i \in 1..Len(v) PROVE back[v[i]] = IF i = Len(v) THEN Nil ELSE v[i+1]
    BY <1>2 DEF Along, links
  <2>0. Len(v) = Len(s) - 1 /\ Len(s) \in Nat \ {0}
    BY <1>4, <1>6
  <2>1. i \in 1..Len(s)-1 /\ i + 1 \in 1..Len(s) /\ (i = Len(v) <=> i + 1 = Len(s)) /\ (i # Len(v) => i + 1 \in 1..Len(s)-1)
    BY <2>0
  <2> QED
    BY <1>3, <1>6, <2>1 DEF Along
<1>21. Chain(v)'
  BY <1>3, <1>5, <1>12, <1>18, <1>20 DEF Chain, Along
<1>22. Known(v)' /\ Newest(v)'
  <2>1. v # <<>> => Unlinking'
    BY <1>12 DEF Unlinking
  <2> QED
    BY <2>1 DEF Known, Newest
<1>23. Snapshots(v)'
  <2>1. v # <<>> => FromTail(v, t, 1)'
    BY <1>12 DEF FromTail
  <2> QED
    BY <1>9, <1>19, <2>1 DEF Snapshots
<1> QED
  BY <1>17, <1>21, <1>22, <1>23 DEF IInv, Shape

(* A prefix of a list without repetition has none. *)
LEMMA Prefix ==
  ASSUME NEW s \in Seq(Threads), Once(s), NEW m \in 0..Len(s)
  PROVE  /\ SubSeq(s, 1, m) \in Seq(Threads) /\ Len(SubSeq(s, 1, m)) = m
         /\ \A i \in 1..m : SubSeq(s, 1, m)[i] = s[i]
         /\ Once(SubSeq(s, 1, m))
         /\ \A w \in Threads : FoundOn(w, SubSeq(s, 1, m)) <=> \E i \in 1..m : s[i] = w
<1> DEFINE p == SubSeq(s, 1, m)
<1>0. Len(s) \in Nat /\ s \in [1..Len(s) -> Threads] /\ m \in Nat /\ \A i \in 1..m : i \in 1..Len(s)
  BY LenProperties
<1>1. p = [i \in 1..m |-> s[i]]
  BY <1>0
<1>2. p \in [1..m -> Threads]
  BY <1>0, <1>1
<1>3. p \in Seq(Threads) /\ Len(p) = m /\ \A i \in 1..m : p[i] = s[i]
  BY <1>0, <1>1, <1>2
<1> HIDE DEF p
<1>4. Once(p)
  BY <1>0, <1>3 DEF Once
<1>5. \A w \in Threads : FoundOn(w, p) <=> \E i \in 1..m : s[i] = w
  BY <1>3, FoundIs
<1> QED
  BY <1>3, <1>4, <1>5 DEF p

(* Taking the oldest blocks keeps the invariant: the ghost list loses its   *)
(* end, which the block in front of it now closes.                          *)
LEMMA TakeOldestKeeps ==
  ASSUME IInv, NEW t \in Threads, TakeOldest(t)
  PROVE  IInv' /\ \A w \in Threads : w \in Taken => w \in Taken'
<1>0. Local /\ TypeOK /\ FlowOf(t) /\ Words /\ LinkHasOneOwner /\ Apart
  BY DEF IInv, Local
<1>1. PICK s \in Seq(Threads) : Shape(s)
  BY DEF IInv
<1>2. pc[t] = "waking" /\ t \in LinkOwners /\ status[t].count # Full
  BY DEF TakeOldest, LinkOwners
<1>3. PICK j \in 1..Len(s) : \E k \in j..Len(s) :
           FromTail(s, t, j) /\ KnownFrom(s, 1, k) /\ KnownFrom(s, j, k)
  BY <1>1, <1>2, WalkOf
<1>4. PICK h \in j..Len(s) : KnownFrom(s, j, h) /\ KnownFrom(s, 1, h)
  BY <1>3
<1>5. /\ Once(s) /\ Along(back, s) /\ FromTail(s, t, j) /\ s[j] = status[t].tail
      /\ next \in [Threads -> Ptr] /\ cv.tail = s[1] /\ s # <<>>
      /\ \A w \in Threads : FoundOn(w, s) <=> w \in Sleepers
  <2>1. s # <<>>
    BY EmptySeq, LenProperties
  <2> QED
    BY <1>0, <1>1, <1>3, <2>1 DEF Shape, Chain, FromTail, TypeOK, Ptr
<1>6. PICK n \in Nat : n = Len(s)
  BY LenProperties
<1>61. s \in [1..n -> Threads] /\ j \in Nat /\ j \in 1..n /\ s[j] \in Threads /\ h \in j..n /\ h \in Nat
  BY <1>6, LenProperties
<1>7. PICK line \in Seq(Threads) :
         /\ Follow(Relinked(s[j]), Oldest(s[j])) = line
         /\ Len(line) = n - j + 1
         /\ \A i \in 1..n-j+1 : line[i] = s[n+1-i]
  <2>1. next[s[j]] = Nil
    BY <1>2, <1>5 DEF FromTail
  <2> QED
    BY <1>4, <1>5, <1>6, <2>1, LineIs
<1>8. PICK m \in Nat : m = MaxWakeCount(t) /\ m = base[t] + status[t].count
  <2>1. base[t] \in {0, 1} /\ status[t].count \in 0..7
    BY <1>0 DEF TypeOK, Word, Full
  <2> QED
    BY <2>1 DEF MaxWakeCount
<1>81. PICK b \in Nat : b = Len(wake[t])
  <2>1. wake[t] \in Seq(Threads)
    BY <1>0 DEF TypeOK
  <2> QED
    BY <2>1, LenProperties
<1>82. PICK wanted \in Nat : wanted = IF m > b THEN m - b ELSE 0
  <2>1. (IF m > b THEN m - b ELSE 0) \in Nat
    OBVIOUS
  <2> QED
    BY <2>1
<1>83. PICK k \in Nat : k = IF wanted < Len(line) THEN wanted ELSE Len(line) - 1
  <2>1. (IF wanted < Len(line) THEN wanted ELSE Len(line) - 1) \in Nat
    BY <1>7, <1>61
  <2> QED
    BY <2>1
<1>84. PICK r : r = SubSeq(line, 1, k)
  OBVIOUS
<1>85. PICK v : v = SubSeq(s, 1, n - k)
  OBVIOUS
<1>9. /\ next' = Relinked(s[j])
      /\ wake' = [wake EXCEPT ![t] = @ \o r]
      /\ k = 0 => UNCHANGED <<back, notify>>
      /\ k # 0 => /\ notify' = [notify EXCEPT ![s[j]] = line[k+1]]
                  /\ back' = [back EXCEPT ![line[k+1]] = Nil]
      /\ pc' = [pc EXCEPT ![t] = IF k = wanted THEN "wakeStop" ELSE "wakeEmpty"]
      /\ UNCHANGED <<cv, spin, lock, timed, caller, status, base, removed>>
  BY <1>5, <1>7, <1>8, <1>81, <1>82, <1>83, <1>84 DEF TakeOldest, Goto, CutBehind
<1>10. /\ k <= n - j /\ n - k \in j..n /\ n - k \in Nat /\ (k # wanted => n - k = j)
       /\ (k = wanted => b + k >= m)
  BY <1>61, <1>7, <1>82, <1>83
<1>11. line[k+1] = s[n-k] /\ s[n-k] \in Threads /\ n - k \in 1..n
  <2>1. k + 1 \in 1..n-j+1 /\ n+1-(k+1) = n-k /\ n - k \in 1..n
    BY <1>61, <1>10
  <2> QED
    BY <1>61, <1>7, <2>1
<1>12. Once(line)
  <2> SUFFICES ASSUME NEW x \in 1..n-j+1, NEW y \in 1..n-j+1, line[x] = line[y] PROVE x = y
    BY <1>7 DEF Once
  <2>1. n+1-x \in 1..n /\ n+1-y \in 1..n
    BY <1>61
  <2>2. s[n+1-x] = s[n+1-y]
    BY <1>7
  <2>3. n+1-x = n+1-y
    BY <1>5, <1>6, <2>1, <2>2 DEF Once
  <2> QED
    BY <1>61, <2>3
<1>13. /\ r \in Seq(Threads) /\ Len(r) = k /\ Once(r)
       /\ \A w \in Threads : FoundOn(w, r) <=> \E i \in 1..k : line[i] = w
  <2>1. k \in 0..Len(line)
    BY <1>61, <1>7, <1>10
  <2> QED
    BY <1>7, <1>12, <1>84, <2>1, Prefix
<1>14. /\ v \in Seq(Threads) /\ Len(v) = n - k /\ \A i \in 1..n-k : v[i] = s[i]
       /\ Once(v) /\ \A w \in Threads : FoundOn(w, v) <=> \E i \in 1..n-k : s[i] = w
  <2>1. n - k \in 0..Len(s)
    BY <1>6, <1>10
  <2> QED
    BY <1>5, <1>85, <2>1, Prefix
<1>15. \A w \in Threads : FoundOn(w, r) <=> \E i \in n-k+1..n : s[i] = w
  <2>1. ASSUME NEW w \in Threads, NEW i \in 1..k, line[i] = w PROVE \E x \in n-k+1..n : s[x] = w
    <3>1. i \in 1..n-j+1 /\ n+1-i \in n-k+1..n
      BY <1>61, <1>10
    <3> QED
      BY <1>7, <2>1, <3>1
  <2>2. ASSUME NEW w \in Threads, NEW x \in n-k+1..n, s[x] = w PROVE \E i \in 1..k : line[i] = w
    <3>1. n+1-x \in 1..k /\ n+1-x \in 1..n-j+1 /\ n+1-(n+1-x) = x
      BY <1>61, <1>10
    <3>2. line[n+1-x] = w
      BY <1>7, <2>2, <3>1
    <3> QED
      BY <3>1, <3>2
  <2> QED
    BY <1>13, <2>1, <2>2
<1>16. /\ \A w \in Threads : FoundOn(w, r) => w \in Sleepers
       /\ \A w \in Threads : FoundOn(w, v) <=> FoundOn(w, s) /\ ~FoundOn(w, r)
  <2>1. \A i \in n-k+1..n : i \in 1..n
    BY <1>61, <1>10
  <2>2. \A i \in 1..n-k : i \in 1..n /\ i \notin n-k+1..n
    BY <1>61, <1>10
  <2>3. \A i \in 1..n : i \in 1..n-k \/ i \in n-k+1..n
    BY <1>61, <1>10
  <2>4. \A w \in Threads : FoundOn(w, s) <=> \E i \in 1..n : s[i] = w
    BY <1>6, FoundIs
  <2>5. ASSUME NEW w \in Threads, FoundOn(w, v), FoundOn(w, r) PROVE FALSE
    <3>1. PICK x \in 1..n-k : s[x] = w
      BY <1>14, <2>5
    <3>2. PICK y \in n-k+1..n : s[y] = w
      BY <1>15, <2>5
    <3>3. x = y
      BY <1>5, <1>6, <2>1, <2>2, <3>1, <3>2 DEF Once
    <3> QED
      BY <2>2, <3>3
  <2>6. \A w \in Threads : FoundOn(w, r) => FoundOn(w, s)
    BY <1>15, <2>1, <2>4
  <2>7. \A w \in Threads : FoundOn(w, v) => FoundOn(w, s)
    BY <1>14, <2>2, <2>4
  <2>8. \A w \in Threads : FoundOn(w, s) => FoundOn(w, v) \/ FoundOn(w, r)
    BY <1>14, <1>15, <2>3, <2>4
  <2> QED
    BY <1>5, <2>5, <2>6, <2>7, <2>8
<1>17. /\ wake' \in [Threads -> Seq(Threads)] /\ Len(wake'[t]) = b + k
       /\ \A w \in Threads : FoundOn(w, wake'[t]) <=> FoundOn(w, wake[t]) \/ FoundOn(w, r)
       /\ \A w \in Threads : w \in Taken' <=> w \in Taken \/ FoundOn(w, r)
  <2>1. \A w \in Threads : FoundOn(w, r) => w \in Sleepers
    BY <1>16
  <2> QED
    BY <1>0, <1>81, <1>9, <1>13, <2>1, TakeWake
<1>18. /\ next' \in [Threads -> Ptr]
       /\ \A i \in 1..j : next'[s[i]] = Nil
       /\ \A i \in j..n-1 : next'[s[i+1]] = s[i]
  BY <1>2, <1>4, <1>5, <1>6, <1>9, WalkLinks
<1>19. Others(t) /\ pc'[t] = (IF k = wanted THEN "wakeStop" ELSE "wakeEmpty") /\ pc' \in [Threads -> Labels]
  BY <1>0, <1>9 DEF Others, TypeOK, Labels
<1>20. TypeOK'
  <2>1. notify' \in [Threads -> Threads \cup {Nil}] /\ back' \in [Threads -> Threads \cup {Nil}]
    <3>1. CASE k = 0
      BY <1>0, <1>9, <3>1 DEF TypeOK
    <3>2. CASE k # 0
      <4>1. notify' = [notify EXCEPT ![s[j]] = s[n-k]] /\ back' = [back EXCEPT ![s[n-k]] = Nil]
        BY <1>9, <1>11, <3>2
      <4>2. notify \in [Threads -> Threads \cup {Nil}] /\ back \in [Threads -> Threads \cup {Nil}]
        BY <1>0 DEF TypeOK
      <4> QED
        BY <1>11, <4>1, <4>2
    <3> QED
      BY <3>1, <3>2
  <2> QED
    BY <1>0, <1>9, <1>17, <1>18, <1>19, <2>1 DEF TypeOK, Ptr
<1>21. Words' /\ LinkMoves(t)
  BY <1>0, <1>2, <1>9, <1>19 DEF Words, LinkMoves, LinkOwners
<1>22. (Pending(t)' <=> Pending(t)) /\ (AfterPark(t)' <=> AfterPark(t))
  BY <1>2, <1>9, <1>19 DEF Pending, BeforePark, AfterPark
<1>23. FlowOf(t)'
  <2>1. caller'[t] = "single" => (removed'[t] \/ t \in Taken') /\ ~FoundOn(t, wake'[t])
    <3> SUFFICES ASSUME caller[t] = "single" PROVE (removed[t] \/ t \in Taken') /\ ~FoundOn(t, wake'[t])
      BY <1>9
    <3>1. (removed[t] \/ t \in Taken) /\ ~FoundOn(t, wake[t])
      BY <1>0 DEF FlowOf
    <3>2. t \notin Sleepers
      BY <1>2, <3>1 DEF Sleepers, Pending, BeforePark
    <3> QED
      BY <1>16, <1>17, <3>1, <3>2
  <2>2. AfterPark(t)' => ~spin'[t]
    BY <1>0, <1>9, <1>22 DEF FlowOf
  <2>3. pc'[t] = "wakeStop" => Len(wake'[t]) >= base'[t] + status'[t].count
    BY <1>8, <1>81, <1>9, <1>10, <1>17, <1>19
  <2>4. removed'[t] => caller'[t] = "single"
    BY <1>0, <1>2, <1>9 DEF FlowOf
  <2>5. status'[t].link /\ status'[t].count # Full /\ caller'[t] # "none"
    BY <1>0, <1>2, <1>9 DEF FlowOf, Waking
  <2> QED
    BY <1>19, <2>1, <2>2, <2>3, <2>4, <2>5 DEF FlowOf, Waking, LinkOwners
<1>24. /\ Local'
       /\ \A w \in Threads : w \in Sleepers' <=> w \in Sleepers /\ ~FoundOn(w, r)
  <2>1. /\ \A w \in Threads : FoundOn(w, r) => w \in Sleepers
        /\ pc'[t] # "releasing"
    BY <1>16, <1>19
  <2> QED
    BY <1>0, <1>9, <1>13, <1>19, <1>20, <1>21, <1>22, <1>23, <2>1, TakeLocal
<1>25. \A w \in Threads : FoundOn(w, v) <=> w \in Sleepers'
  BY <1>5, <1>16, <1>24
<1>26. /\ notify'[s[j]] = (IF k = 0 THEN notify[s[j]] ELSE s[n-k])
       /\ \A i \in 1..n : i # j => notify'[s[i]] = notify[s[i]]
       /\ back'[s[n-k]] = Nil
       /\ \A i \in 1..n : i # n-k => back'[s[i]] = back[s[i]]
  <2>0. n - k = n => back[s[n]] = Nil
    BY <1>5, <1>6, <1>11 DEF Along
  <2>1. CASE k = 0
    BY <1>61, <1>9, <2>0, <2>1
  <2>2. CASE k # 0
    <3>1. \A i \in 1..n : s[i] \in Threads /\ (i # j => s[i] # s[j]) /\ (i # n-k => s[i] # s[n-k])
      BY <1>5, <1>6, <1>61, <1>11 DEF Once
    <3> QED
      BY <1>0, <1>61, <1>9, <1>11, <2>2, <3>1 DEF TypeOK
  <2> QED
    BY <2>1, <2>2
<1>27. v # <<>> /\ v[1] = s[1] /\ 1 \in 1..n-k /\ j \in 1..n-k
  <2>1. 1 \in 1..n-k /\ j \in 1..n-k
    BY <1>61, <1>10
  <2>2. n - k # 0
    BY <1>61, <1>10
  <2> QED
    BY <1>14, <2>1, <2>2, EmptySeq
<1>28. Chain(v)'
  <2>1. ASSUME NEW i \in 1..Len(v) PROVE back'[v[i]] = IF i = Len(v) THEN Nil ELSE v[i+1]
    <3>0. i \in 1..n /\ v[i] = s[i] /\ (i # n-k => i # n /\ i+1 \in 1..n-k)
      BY <1>61, <1>10, <1>14
    <3>1. CASE i = n-k
      BY <1>14, <1>26, <3>0, <3>1
    <3>2. CASE i # n-k
      <4>1. back[s[i]] = s[i+1]
        BY <1>5, <1>6, <3>0, <3>2 DEF Along
      <4> QED
        BY <1>14, <1>26, <3>0, <3>2, <4>1
    <3> QED
      BY <3>1, <3>2
  <2>2. Along(back', v)
    BY <2>1 DEF Along
  <2> QED
    BY <1>5, <1>9, <1>14, <1>25, <1>27, <2>2 DEF Chain, Along
<1>29. Newest(v)'
  <2>1. 1 \in 1..j
    BY <1>61
  <2> QED
    BY <1>18, <1>27, <2>1 DEF Newest
<1>30. \A i \in 1..j-1 : i \in 1..n-k /\ v[i] = s[i] /\ notify'[v[i]] = Nil /\ next'[v[i]] = Nil
  <2>1. \A i \in 1..j-1 : i \in 1..n-k /\ i \in 1..n /\ i # j /\ i \in 1..j
    BY <1>61, <1>10
  <2> QED
    <3>1. \A i \in 1..j-1 : notify[s[i]] = Nil
      BY <1>5 DEF FromTail
    <3>2. ASSUME NEW i \in 1..j-1
          PROVE  i \in 1..n-k /\ v[i] = s[i] /\ notify'[v[i]] = Nil /\ next'[v[i]] = Nil
      <4>1. i \in 1..n-k /\ i \in 1..n /\ i # j /\ i \in 1..j
        BY <2>1
      <4>2. v[i] = s[i] /\ notify'[s[i]] = notify[s[i]] /\ notify[s[i]] = Nil /\ next'[s[i]] = Nil
        BY <1>14, <1>18, <1>26, <3>1, <4>1
      <4> QED
        BY <4>1, <4>2
    <3> QED
      BY <3>2
<1>31. Known(v)'
  <2>1. CASE k = 0
    <3>1. Len(v) = n /\ h \in 1..Len(v) /\ h \in Nat
      BY <1>61, <1>14, <2>1
    <3>2. \A i \in 1..n : v[i] = s[i] /\ notify'[s[i]] = notify[s[i]]
      BY <1>14, <1>26, <2>1, <3>1
    <3>3. notify'[v[h]] = v[Len(v)]
      <4>1. n \in 1..n
        BY <1>61, <3>1
      <4> QED
        BY <1>4, <1>6, <3>1, <3>2, <4>1 DEF KnownFrom
    <3>4. \A i \in 1..h-1 : notify'[v[i]] = Nil
      <4>1. \A i \in 1..h-1 : i \in 1..n
        BY <1>61, <3>1
      <4> QED
        BY <1>4, <3>2, <4>1 DEF KnownFrom
    <3>5. \A i \in h..n-1 : next'[v[i+1]] = v[i]
      <4>1. \A i \in h..n-1 : i \in j..n-1 /\ i \in 1..n /\ i+1 \in 1..n
        BY <1>61, <3>1
      <4> QED
        BY <1>18, <3>2, <4>1
    <3>6. KnownFrom(v, 1, h)'
      BY <3>1, <3>3, <3>4, <3>5 DEF KnownFrom
    <3> QED
      BY <3>1, <3>6 DEF Known
  <2>2. CASE k # 0
    <3>1. notify'[v[j]] = v[Len(v)]
      <4>1. n-k \in 1..n-k
        BY <1>61, <1>10
      <4> QED
        BY <1>14, <1>26, <1>27, <2>2, <4>1
    <3>2. \A i \in j..Len(v)-1 : next'[v[i+1]] = v[i]
      <4>1. \A i \in j..(n-k)-1 : i \in j..n-1 /\ i \in 1..n-k /\ i+1 \in 1..n-k
        BY <1>61, <1>10
      <4> QED
        BY <1>14, <1>18, <4>1
    <3>3. KnownFrom(v, 1, j)'
      BY <1>30, <3>1, <3>2 DEF KnownFrom
    <3> QED
      BY <1>14, <1>27, <3>3 DEF Known
  <2> QED
    BY <2>1, <2>2
<1>32. Snapshots(v)'
  <2>1. LinkOwners' \subseteq {t}
    <3>1. \A u \in Threads \ {t} : u \in LinkOwners' <=> u \in LinkOwners
      BY <1>19 DEF Others, LinkOwners
    <3>2. \A u \in Threads \ {t} : u \notin LinkOwners
      BY <1>0, <1>2, OwnerIs
    <3> QED
      BY <3>1, <3>2 DEF LinkOwners
  <2>2. v[j] = s[j] /\ status' = status /\ next'[v[j]] = Nil /\ pc'[t] # "unlink"
    <3>1. j \in 1..j
      BY <1>61
    <3> QED
      BY <1>9, <1>14, <1>18, <1>19, <1>27, <3>1
  <2>3. pc'[t] = "wakeEmpty" => j = Len(v)
    BY <1>10, <1>14, <1>19
  <2>4. FromTail(v, t, j)'
    BY <1>5, <1>30, <2>2, <2>3 DEF FromTail
  <2> QED
    BY <1>14, <1>27, <2>1, <2>4 DEF Snapshots
<1> QED
  BY <1>14, <1>17, <1>24, <1>28, <1>29, <1>31, <1>32 DEF IInv, Shape

(* The list without t, and the part of it that is walked. *)
LEMMA Dropped ==
  ASSUME NEW s \in Seq(Threads), Once(s), NEW t \in Threads, NEW j \in 1..Len(s),
         \A i \in 1..j : s[i] # t, NEW r \in Seq(Threads), Len(r) = Len(s) - j + 1,
         \A i \in 1..Len(s) - j + 1 : r[i] = s[j + i - 1]
  PROVE  \E d \in Seq(Threads), e \in Seq(Threads) :
           /\ e = Without(r, t) /\ Once(d) /\ Len(d) \in Nat /\ j <= Len(d)
           /\ \A i \in 1..j : d[i] = s[i]
           /\ \A w \in Threads : FoundOn(w, d) <=> FoundOn(w, s) /\ w # t
           /\ Len(e) = Len(d) - j + 1
           /\ \A i \in 1..Len(d) - j + 1 : e[i] = d[j + i - 1]
           /\ FoundOn(t, r) <=> FoundOn(t, s)
<1>0. PICK n \in Nat : n = Len(s)
  BY LenProperties
<1>1. s \in [1..n -> Threads] /\ j \in Nat /\ j \in 1..n
  BY <1>0, LenProperties
<1>2. Once(r)
  <2> SUFFICES ASSUME NEW x \in 1..n-j+1, NEW y \in 1..n-j+1, r[x] = r[y] PROVE x = y
    BY <1>0 DEF Once
  <2>1. j+x-1 \in 1..n /\ j+y-1 \in 1..n
    BY <1>1
  <2>2. s[j+x-1] = s[j+y-1]
    BY <1>0
  <2>3. j+x-1 = j+y-1
    BY <1>0, <2>1, <2>2 DEF Once
  <2> QED
    BY <1>1, <2>3
<1>3. CASE \A i \in 1..n : s[i] # t
  <2>1. \A i \in 1..n-j+1 : r[i] # t
    <3>1. \A i \in 1..n-j+1 : j+i-1 \in 1..n
      BY <1>1
    <3> QED
      BY <1>0, <1>3, <3>1
  <2>2. Without(r, t) = r /\ ~FoundOn(t, r)
    BY <1>0, <1>2, <2>1, WithoutIs
  <2>3. \A w \in Threads : FoundOn(w, s) <=> FoundOn(w, s) /\ w # t
    BY <1>0, <1>3, FoundIs
  <2>4. ~FoundOn(t, s)
    BY <1>0, <1>3, FoundIs
  <2>5. /\ r = Without(r, t) /\ Once(s) /\ Len(s) \in Nat /\ j <= Len(s)
        /\ \A i \in 1..j : s[i] = s[i]
        /\ \A w \in Threads : FoundOn(w, s) <=> FoundOn(w, s) /\ w # t
        /\ Len(r) = Len(s) - j + 1
        /\ \A i \in 1..Len(s) - j + 1 : r[i] = s[j + i - 1]
        /\ FoundOn(t, r) <=> FoundOn(t, s)
    BY <1>0, <1>1, <2>2, <2>3, <2>4
  <2> QED
    BY <2>5
<1>4. CASE \E i \in 1..n : s[i] = t
  <2>1. PICK m \in 1..n : s[m] = t
    BY <1>4
  <2>2. m \in Nat /\ j < m /\ n - 1 \in Nat
    <3>1. m \notin 1..j
      BY <2>1
    <3> QED
      BY <1>1, <3>1
  <2>3. m - j + 1 \in 1..n-j+1 /\ r[m-j+1] = t
    <3>1. m - j + 1 \in 1..n-j+1 /\ j + (m-j+1) - 1 = m
      BY <1>1, <2>2
    <3> QED
      BY <1>0, <2>1, <3>1
  <2>4. PICK d \in Seq(Threads) : /\ d = Without(s, t) /\ Len(d) = n - 1
                                  /\ \A i \in 1..n-1 : d[i] = IF i < m THEN s[i] ELSE s[i+1]
    BY <1>0, <2>1, WithoutIs
  <2>5. PICK e \in Seq(Threads) : /\ e = Without(r, t) /\ Len(e) = (n-j+1) - 1 /\ FoundOn(t, r)
                                  /\ \A i \in 1..(n-j+1)-1 : e[i] = IF i < m-j+1 THEN r[i] ELSE r[i+1]
    <3>1. /\ FoundOn(t, r) /\ Without(r, t) \in Seq(Threads) /\ Len(Without(r, t)) = Len(r) - 1
          /\ \A i \in 1..Len(r)-1 : Without(r, t)[i] = IF i < m-j+1 THEN r[i] ELSE r[i+1]
      <4>1. PICK y \in 1..Len(r) : y = m-j+1 /\ r[y] = t
        BY <1>0, <2>3
      <4>2. /\ FoundOn(t, r) /\ Without(r, t) \in Seq(Threads) /\ Len(Without(r, t)) = Len(r) - 1
            /\ \A i \in 1..Len(r)-1 : Without(r, t)[i] = IF i < y THEN r[i] ELSE r[i+1]
        BY <1>2, <4>1, WithoutAt
      <4> QED
        BY <4>1, <4>2
    <3> QED
      BY <1>0, <3>1
  <2>6. FoundOn(t, s)
    BY <1>0, <2>1, FoundIs
  <2>7. \A i \in 1..j : d[i] = s[i]
    <3>1. \A i \in 1..j : i \in 1..n-1 /\ i < m
      BY <1>1, <2>2
    <3> QED
      BY <2>4, <3>1
  <2>8. Len(e) = Len(d) - j + 1 /\ Len(d) \in Nat /\ j <= Len(d)
    BY <1>1, <2>2, <2>4, <2>5
  <2>9. ASSUME NEW i \in 1..Len(d)-j+1 PROVE e[i] = d[j+i-1]
    <3>1. /\ i \in 1..(n-j+1)-1 /\ j+i-1 \in 1..n-1 /\ (i < m-j+1 <=> j+i-1 < m)
          /\ i \in 1..n-j+1 /\ i+1 \in 1..n-j+1 /\ j+(i+1)-1 = (j+i-1)+1
      <4>1. i \in 1..(n-1)-j+1
        BY <2>4
      <4> QED
        BY <1>1, <2>2, <4>1
    <3>2. r[i] = s[j+i-1] /\ r[i+1] = s[(j+i-1)+1]
      BY <1>0, <3>1
    <3>3. e[i] = IF i < m-j+1 THEN r[i] ELSE r[i+1]
      BY <2>5, <3>1
    <3>4. d[j+i-1] = IF j+i-1 < m THEN s[j+i-1] ELSE s[(j+i-1)+1]
      BY <2>4, <3>1
    <3> QED
      BY <3>1, <3>2, <3>3, <3>4
  <2>10. \A i \in 1..n-1 : \E x \in 1..n : d[i] = s[x] /\ x # m /\ i = IF x < m THEN x ELSE x - 1
    <3> SUFFICES ASSUME NEW i \in 1..n-1
                 PROVE  \E x \in 1..n : d[i] = s[x] /\ x # m /\ i = IF x < m THEN x ELSE x - 1
      OBVIOUS
    <3>1. CASE i < m
      <4>1. i \in 1..n /\ i # m /\ d[i] = s[i]
        BY <2>2, <2>4, <3>1
      <4> QED
        BY <3>1, <4>1
    <3>2. CASE ~(i < m)
      <4>1. i+1 \in 1..n /\ i+1 # m /\ ~(i+1 < m) /\ i = (i+1)-1 /\ d[i] = s[i+1]
        BY <2>2, <2>4, <3>2
      <4> QED
        BY <4>1
    <3> QED
      BY <3>1, <3>2
  <2>11. Once(d)
    <3> SUFFICES ASSUME NEW x \in 1..n-1, NEW y \in 1..n-1, d[x] = d[y] PROVE x = y
      BY <2>4 DEF Once
    <3>1. PICK a \in 1..n : d[x] = s[a] /\ x = IF a < m THEN a ELSE a - 1
      BY <2>10
    <3>2. PICK b \in 1..n : d[y] = s[b] /\ y = IF b < m THEN b ELSE b - 1
      BY <2>10
    <3>3. a = b
      BY <1>0, <3>1, <3>2 DEF Once
    <3> QED
      BY <3>1, <3>2, <3>3
  <2>12. ASSUME NEW w \in Threads PROVE FoundOn(w, d) <=> FoundOn(w, s) /\ w # t
    <3>1. ASSUME FoundOn(w, d) PROVE FoundOn(w, s) /\ w # t
      <4>1. PICK i \in 1..n-1 : d[i] = w
        BY <2>4, <3>1, FoundIs
      <4>2. PICK x \in 1..n : d[i] = s[x] /\ x # m
        BY <2>10
      <4>3. s[x] # t
        BY <1>0, <2>1, <4>2 DEF Once
      <4> QED
        BY <1>0, <4>1, <4>2, <4>3, FoundIs
    <3>2. ASSUME FoundOn(w, s), w # t PROVE FoundOn(w, d)
      <4>1. PICK x \in 1..n : s[x] = w
        BY <1>0, <3>2, FoundIs
      <4>2. x # m
        BY <2>1, <3>2, <4>1
      <4>3. CASE x < m
        <5>1. x \in 1..n-1 /\ d[x] = w
          BY <2>2, <2>4, <4>1, <4>3
        <5> QED
          BY <2>4, <5>1, FoundIs
      <4>4. CASE ~(x < m)
        <5>1. x - 1 \in 1..n-1 /\ ~(x - 1 < m) /\ (x-1)+1 = x
          BY <1>1, <2>2, <4>2, <4>4
        <5>2. d[x-1] = w
          BY <2>4, <4>1, <5>1
        <5> QED
          BY <2>4, <5>1, <5>2, FoundIs
      <4> QED
        BY <4>3, <4>4
    <3> QED
      BY <3>1, <3>2
  <2> QED
    BY <2>5, <2>6, <2>7, <2>8, <2>9, <2>11, <2>12
<1> QED
  BY <1>3, <1>4

(* The links UnlinkOlder writes for the blocks e. *)
NextOf(e) == [q \in Threads |->
    IF ~FoundOn(q, e) THEN next[q]
    ELSE IF {j \in 1..Len(e)-1 : e[j+1] = q} = {} THEN Nil
         ELSE e[CHOOSE j \in {j \in 1..Len(e)-1 : e[j+1] = q} : TRUE]]
BackOf(e) == [q \in Threads |->
    IF ~FoundOn(q, e) THEN back[q]
    ELSE IF {j \in 2..Len(e) : e[j-1] = q} = {} THEN Nil
         ELSE e[CHOOSE j \in {j \in 2..Len(e) : e[j-1] = q} : TRUE]]

(* Relinking the blocks of e makes them a list linked both ways and touches *)
(* no other block.                                                          *)
LEMMA Renewed ==
  ASSUME NEW e \in Seq(Threads), Once(e), NEW L \in Nat \ {0}, L = Len(e), TypeOK
  PROVE  /\ NextOf(e) \in [Threads -> Ptr] /\ BackOf(e) \in [Threads -> Ptr]
         /\ \A q \in Threads : ~FoundOn(q, e) => NextOf(e)[q] = next[q] /\ BackOf(e)[q] = back[q]
         /\ NextOf(e)[e[1]] = Nil
         /\ \A x \in 1..L-1 : NextOf(e)[e[x+1]] = e[x]
         /\ \A x \in 1..L : BackOf(e)[e[x]] = IF x = L THEN Nil ELSE e[x+1]
<1>0. e \in [1..L -> Threads] /\ \A x \in 1..L : e[x] \in Threads /\ FoundOn(e[x], e)
  <2>1. e \in [1..L -> Threads]
    BY LenProperties
  <2> QED
    BY <2>1, FoundIs
<1>1. \A q \in Threads : ~FoundOn(q, e) => NextOf(e)[q] = next[q] /\ BackOf(e)[q] = back[q]
  BY DEF NextOf, BackOf
<1>2. NextOf(e)[e[1]] = Nil
  <2>1. 1 \in 1..L /\ \A y \in 1..L-1 : y+1 \in 1..L /\ y+1 # 1
    OBVIOUS
  <2>2. {y \in 1..L-1 : e[y+1] = e[1]} = {}
    BY <2>1 DEF Once
  <2> QED
    BY <1>0, <2>1, <2>2 DEF NextOf
<1>3. ASSUME NEW x \in 1..L-1 PROVE NextOf(e)[e[x+1]] = e[x]
  <2>1. x+1 \in 1..L /\ x \in Int /\ \A y \in 1..L-1 : y+1 \in 1..L /\ y \in Int
    OBVIOUS
  <2>2. \A y \in 1..L-1 : e[y+1] = e[x+1] => y + 1 = x + 1
    BY <2>1 DEF Once
  <2>3. {y \in 1..L-1 : e[y+1] = e[x+1]} = {x}
    BY <2>1, <2>2
  <2>4. (CHOOSE y \in {x} : TRUE) = x
    OBVIOUS
  <2> QED
    BY <1>0, <2>1, <2>3, <2>4 DEF NextOf
<1>4. ASSUME NEW x \in 1..L PROVE BackOf(e)[e[x]] = IF x = L THEN Nil ELSE e[x+1]
  <2>1. x \in Int /\ \A y \in 2..L : y-1 \in 1..L /\ y \in Int
    OBVIOUS
  <2>2. \A y \in 2..L : e[y-1] = e[x] => y - 1 = x
    BY <2>1 DEF Once
  <2>3. CASE x = L
    <3>1. \A y \in 2..L : y - 1 # x
      BY <2>3
    <3>2. {y \in 2..L : e[y-1] = e[x]} = {}
      BY <2>2, <3>1
    <3> QED
      BY <1>0, <2>3, <3>2 DEF BackOf
  <2>4. CASE x # L
    <3>1. x+1 \in 2..L /\ (x+1)-1 = x /\ \A y \in 2..L : y - 1 = x => y = x + 1
      BY <2>4
    <3>2. {y \in 2..L : e[y-1] = e[x]} = {x+1}
      BY <2>2, <3>1
    <3>3. (CHOOSE y \in {x+1} : TRUE) = x+1
      OBVIOUS
    <3>4. BackOf(e)[e[x]] = e[x+1]
      <4>1. e[x] \in Threads /\ FoundOn(e[x], e) /\ {x+1} # {}
        BY <1>0
      <4> QED
        BY <3>2, <3>3, <4>1 DEF BackOf
    <3> QED
      BY <2>4, <3>4
  <2> QED
    BY <2>3, <2>4
<1>5. NextOf(e) \in [Threads -> Ptr] /\ BackOf(e) \in [Threads -> Ptr]
  <2> SUFFICES ASSUME NEW q \in Threads PROVE NextOf(e)[q] \in Ptr /\ BackOf(e)[q] \in Ptr
    BY DEF NextOf, BackOf
  <2>1. CASE ~FoundOn(q, e)
    BY <1>1, <2>1 DEF TypeOK, Ptr
  <2>2. CASE FoundOn(q, e)
    <3>1. PICK x \in 1..L : e[x] = q
      BY <2>2, FoundIs
    <3>2. (x = 1 \/ (x-1 \in 1..L-1 /\ (x-1)+1 = x /\ x-1 \in 1..L)) /\ (x # L => x+1 \in 1..L)
      OBVIOUS
    <3>3. NextOf(e)[q] \in Ptr
      <4>1. CASE x = 1
        BY <1>2, <3>1, <4>1 DEF Ptr
      <4>2. CASE x # 1
        <5>1. NextOf(e)[e[(x-1)+1]] = e[x-1] /\ e[x-1] \in Threads
          BY <1>0, <1>3, <3>2, <4>2
        <5> QED
          BY <3>1, <3>2, <4>2, <5>1 DEF Ptr
      <4> QED
        BY <4>1, <4>2
    <3>4. BackOf(e)[q] \in Ptr
      BY <1>0, <1>4, <3>1, <3>2 DEF Ptr
    <3> QED
      BY <3>3, <3>4
  <2> QED
    BY <2>1, <2>2
<1> QED
  BY <1>1, <1>2, <1>3, <1>4, <1>5

(* Unlinking an older block keeps the invariant: the list is relinked       *)
(* without it.                                                              *)
LEMMA UnlinkOlderKeeps ==
  ASSUME IInv, NEW t \in Threads, UnlinkOlder(t)
  PROVE  IInv'
<1>0. Local /\ TypeOK /\ FlowOf(t) /\ Words /\ LinkHasOneOwner
  BY DEF IInv, Local
<1>1. PICK s \in Seq(Threads) : Shape(s)
  BY DEF IInv
<1>2. pc[t] = "unlink" /\ t \in LinkOwners /\ status[t].tail # t
  BY DEF UnlinkOlder, LinkOwners
<1>3. PICK j \in 1..Len(s) : FromTail(s, t, j)
  BY <1>1, <1>2 DEF Shape, Snapshots
<1>4. /\ Once(s) /\ Along(back, s) /\ s[j] = status[t].tail /\ s # <<>> /\ cv.tail = s[1]
      /\ \A w \in Threads : FoundOn(w, s) <=> w \in Sleepers
  <2>1. s # <<>>
    BY EmptySeq, LenProperties
  <2> QED
    BY <1>1, <1>3, <2>1 DEF Shape, Chain, FromTail
<1>5. j \in Nat /\ Len(s) \in Nat /\ \A i \in 1..Len(s) : s[i] \in Threads
  BY LenProperties
<1>6. PICK r \in Seq(Threads) : /\ r = Follow(back, s[j]) /\ Len(r) = Len(s) - j + 1
                                /\ \A i \in 1..Len(s) - j + 1 : r[i] = s[j + i - 1]
  BY <1>4, Suffix
<1>7. \A i \in 1..j : s[i] # t
  <2>1. \A i \in 1..j : i = j \/ i \in 1..j-1
    BY <1>5
  <2> QED
    BY <1>2, <1>3, <1>4, <2>1 DEF FromTail
<1>8. PICK d \in Seq(Threads), e \in Seq(Threads) :
           /\ e = Without(r, t) /\ Once(d) /\ Len(d) \in Nat /\ j <= Len(d)
           /\ \A i \in 1..j : d[i] = s[i]
           /\ \A w \in Threads : FoundOn(w, d) <=> FoundOn(w, s) /\ w # t
           /\ Len(e) = Len(d) - j + 1
           /\ \A i \in 1..Len(d) - j + 1 : e[i] = d[j + i - 1]
           /\ FoundOn(t, r) <=> FoundOn(t, s)
  <2>1. /\ Once(s) /\ Len(r) = Len(s) - j + 1 /\ \A i \in 1..j : s[i] # t
        /\ \A i \in 1..Len(s) - j + 1 : r[i] = s[j + i - 1]
    BY <1>4, <1>6, <1>7
  <2> QED
    BY <2>1, Dropped
<1>9. PICK n \in Nat : n = Len(d) /\ j <= n
  BY <1>8
<1>10. PICK L \in Nat \ {0} : L = Len(e) /\ L = n - j + 1
  <2>1. n - j + 1 \in Nat \ {0}
    BY <1>5, <1>9
  <2> QED
    BY <1>8, <1>9, <2>1
<1>11. d \in [1..n -> Threads] /\ j \in 1..n /\ d # <<>> /\ 1 \in 1..n /\ \A i \in 1..j : i \in 1..n
  <2>1. j \in 1..n /\ n # 0 /\ 1 \in 1..n /\ \A i \in 1..j : i \in 1..n
    BY <1>5, <1>9
  <2> QED
    BY <1>9, <2>1, LenProperties, EmptySeq
<1>12. Once(e)
  <2> SUFFICES ASSUME NEW x \in 1..L, NEW y \in 1..L, e[x] = e[y] PROVE x = y
    BY <1>10 DEF Once
  <2>1. j+x-1 \in 1..n /\ j+y-1 \in 1..n
    BY <1>5, <1>9, <1>10
  <2>2. d[j+x-1] = d[j+y-1]
    BY <1>8, <1>9, <1>10
  <2>3. j+x-1 = j+y-1
    BY <1>8, <1>9, <2>1, <2>2 DEF Once
  <2> QED
    BY <1>5, <2>3
<1>13. /\ removed' = [removed EXCEPT ![t] = @ \/ FoundOn(t, s)]
       /\ next' = NextOf(e) /\ back' = BackOf(e)
       /\ notify' = [notify EXCEPT ![s[j]] = e[L]]
       /\ pc' = [pc EXCEPT ![t] = "waking"]
       /\ caller' = [caller EXCEPT ![t] = "single"]
       /\ status' = [status EXCEPT ![t] = status[t]]
       /\ base' = [base EXCEPT ![t] = 0]
       /\ wake' = [wake EXCEPT ![t] = <<>>]
       /\ UNCHANGED <<cv, spin, lock, timed>>
  <2>1. r = Follow(back, status[t].tail) /\ e = Without(Follow(back, status[t].tail), t)
    BY <1>4, <1>6, <1>8
  <2>2. notify' = [notify EXCEPT ![status[t].tail] = e[Len(e)]]
    BY <2>1 DEF UnlinkOlder
  <2>3. next' = NextOf(e)
    BY <2>1 DEF UnlinkOlder, NextOf
  <2>4. back' = BackOf(e)
    BY <2>1 DEF UnlinkOlder, BackOf
  <2>5. removed' = [removed EXCEPT ![t] = @ \/ FoundOn(t, r)]
    BY <2>1 DEF UnlinkOlder
  <2>6. FoundOn(t, r) = FoundOn(t, s)
    BY <1>8 DEF FoundOn
  <2> QED
    BY <1>4, <1>10, <2>2, <2>3, <2>4, <2>5, <2>6 DEF UnlinkOlder, EnterWake, Goto
<1>14. /\ next' \in [Threads -> Ptr] /\ back' \in [Threads -> Ptr]
       /\ \A q \in Threads : ~FoundOn(q, e) => next'[q] = next[q] /\ back'[q] = back[q]
       /\ next'[e[1]] = Nil
       /\ \A x \in 1..L-1 : next'[e[x+1]] = e[x]
       /\ \A x \in 1..L : back'[e[x]] = IF x = L THEN Nil ELSE e[x+1]
  BY <1>0, <1>10, <1>12, <1>13, Renewed
<1>15. e[1] = d[j] /\ e[L] = d[n] /\ s[j] = d[j] /\ d[n] \in Threads /\ d[j] \in Threads
  <2>1. 1 \in 1..n-j+1 /\ j+1-1 = j /\ n-j+1 \in 1..n-j+1 /\ j+(n-j+1)-1 = n /\ j \in 1..j /\ n \in 1..n
    BY <1>5, <1>9
  <2> QED
    BY <1>8, <1>9, <1>10, <1>11, <2>1
<1>16. \A i \in j..n-1 : next'[d[i+1]] = d[i]
  <2> SUFFICES ASSUME NEW i \in j..n-1 PROVE next'[d[i+1]] = d[i]
    OBVIOUS
  <2>1. /\ i-j+1 \in 1..L-1 /\ i-j+1 \in 1..n-j+1 /\ (i-j+1)+1 \in 1..n-j+1
        /\ j+(i-j+1)-1 = i /\ j+((i-j+1)+1)-1 = i+1
    BY <1>5, <1>9, <1>10
  <2>2. e[i-j+1] = d[i] /\ e[(i-j+1)+1] = d[i+1]
    BY <1>8, <1>9, <2>1
  <2> QED
    BY <1>14, <2>1, <2>2
<1>17. \A i \in j..n : back'[d[i]] = IF i = n THEN Nil ELSE d[i+1]
  <2> SUFFICES ASSUME NEW i \in j..n PROVE back'[d[i]] = IF i = n THEN Nil ELSE d[i+1]
    OBVIOUS
  <2>1. /\ i-j+1 \in 1..L /\ i-j+1 \in 1..n-j+1 /\ j+(i-j+1)-1 = i /\ (i = n <=> i-j+1 = L)
        /\ (i # n => (i-j+1)+1 \in 1..n-j+1 /\ j+((i-j+1)+1)-1 = i+1)
    <3>1. i \in Nat /\ j <= i /\ i <= n
      BY <1>5, <1>9
    <3>2. i-j+1 \in 1..n-j+1 /\ j+(i-j+1)-1 = i /\ (i = n <=> i-j+1 = n-j+1)
      BY <1>5, <1>9, <3>1
    <3>3. i # n => (i-j+1)+1 \in 1..n-j+1 /\ j+((i-j+1)+1)-1 = i+1
      BY <1>5, <1>9, <3>1
    <3> QED
      BY <1>10, <3>2, <3>3
  <2>2. e[i-j+1] = d[i] /\ (i # n => e[(i-j+1)+1] = d[i+1])
    BY <1>8, <1>9, <2>1
  <2> QED
    BY <1>14, <2>1, <2>2
<1>18. ASSUME NEW i \in 1..j-1
       PROVE  /\ i \in 1..n /\ i \in 1..j /\ i+1 \in 1..j /\ d[i] = s[i] /\ d[i] \in Threads
              /\ next'[d[i]] = Nil /\ notify'[d[i]] = Nil /\ back'[d[i]] = d[i+1]
  <2>1. i \in 1..n /\ i \in 1..j /\ i+1 \in 1..j /\ i \in 1..Len(s) /\ i # Len(s) /\ i # j /\ j \in 1..n
    BY <1>5, <1>9
  <2>2. d[i] = s[i] /\ d[i+1] = s[i+1] /\ d[i] \in Threads /\ d[i] # d[j]
    BY <1>8, <1>9, <1>11, <2>1 DEF Once
  <2>3. ~FoundOn(d[i], e)
    <3> SUFFICES ASSUME NEW x \in 1..L, e[x] = d[i] PROVE FALSE
      BY <1>10, FoundIs
    <3>1. x \in 1..n-j+1 /\ j+x-1 \in 1..n /\ j+x-1 # i
      BY <1>5, <1>9, <1>10, <2>1
    <3>2. d[j+x-1] = d[i]
      BY <1>8, <1>9, <3>1
    <3> QED
      BY <1>8, <1>9, <2>1, <3>1, <3>2 DEF Once
  <2>4. next[s[i]] = Nil /\ notify[s[i]] = Nil
    BY <1>3 DEF FromTail
  <2>5. back[s[i]] = s[i+1]
    BY <1>4, <2>1 DEF Along
  <2>6. notify'[d[i]] = notify[d[i]]
    BY <1>0, <1>13, <1>15, <2>2 DEF TypeOK
  <2> QED
    BY <1>14, <2>1, <2>2, <2>3, <2>4, <2>5, <2>6
<1>19. /\ pc'[t] = "waking" /\ caller'[t] = "single" /\ base'[t] = 0 /\ wake'[t] = <<>> /\ status' = status
       /\ (removed'[t] <=> removed[t] \/ FoundOn(t, s)) /\ wake[t] = <<>> /\ wake' = wake /\ caller[t] = "none"
  <2>1. wake[t] = <<>> /\ caller[t] = "none"
    BY <1>0, <1>2 DEF FlowOf, Waking
  <2> QED
    BY <1>0, <1>13, <2>1 DEF TypeOK
<1>20. \A u \in Threads \ {t} : Same(u)
  BY <1>0, <1>13, <1>19 DEF Same, TypeOK
<1>21. TypeOK'
  <2>1. pc' \in [Threads -> Labels]
    BY <1>0, <1>13 DEF TypeOK, Labels
  <2>2. removed' \in [Threads -> BOOLEAN]
    BY <1>0, <1>13 DEF TypeOK, FoundOn
  <2>3. notify' \in [Threads -> Ptr]
    BY <1>0, <1>13, <1>15 DEF TypeOK, Ptr
  <2>4. caller' \in [Threads -> {"none", "wake", "optimize", "single"}] /\ base' \in [Threads -> {0, 1}]
    BY <1>0, <1>13 DEF TypeOK
  <2> QED
    BY <1>0, <1>13, <1>14, <1>19, <2>1, <2>2, <2>3, <2>4 DEF TypeOK, Ptr
<1>22. Words' /\ LinkMoves(t)
  BY <1>0, <1>2, <1>13, <1>19 DEF Words, LinkMoves, LinkOwners
<1>23. Pending(t) <=> ~removed[t]
  BY <1>0, <1>2 DEF Pending, BeforePark, AfterPark, FlowOf
<1>24. Pending(t)' <=> ~removed'[t]
  BY <1>0, <1>2, <1>13, <1>19 DEF Pending, BeforePark, AfterPark, FlowOf
<1>25. ~FoundOn(t, s) => removed[t] \/ t \in Taken
  BY <1>4, <1>23 DEF Sleepers
<1>26. FoundOn(t, s) => t \notin Taken
  BY <1>4 DEF Sleepers
<1>27. FlowOf(t)'
  <2>1. Taken' = Taken
    BY <1>19 DEF Taken
  <2>2. status[t].link /\ ~spin[t] /\ spin' = spin
    BY <1>0, <1>2, <1>13 DEF FlowOf, AfterPark
  <2> QED
    BY <1>19, <1>25, <2>1, <2>2, NotOnEmpty DEF FlowOf, Waking
<1>28. t \in Taken => Pending(t)
  BY <1>0 DEF Local
<1>29. Settled(t)
  <2>1. AfterPark(t)'
    BY <1>19 DEF AfterPark
  <2>2. t \in Taken => Pending(t)'
    BY <1>19, <1>23, <1>24, <1>26, <1>28
  <2> QED
    BY <1>19, <1>20, <1>27, <2>1, <2>2 DEF Settled
<1>30. /\ Local' /\ Taken' = Taken
       /\ \A u \in Threads \ {t} : Pending(u)' <=> Pending(u)
  BY <1>0, <1>21, <1>22, <1>29, SettledLocal
<1>31. \A w \in Threads : w \in Sleepers' <=> w \in Sleepers /\ w # t
  <2>1. t \notin Sleepers'
    BY <1>19, <1>24, <1>25, <1>30 DEF Sleepers
  <2> QED
    BY <1>30, <2>1 DEF Sleepers
<1>32. Chain(d)'
  <2>1. ASSUME NEW i \in 1..n PROVE back'[d[i]] = IF i = n THEN Nil ELSE d[i+1]
    <3>1. (i \in j..n \/ i \in 1..j-1) /\ (i \in 1..j-1 => i # n)
      BY <1>5, <1>9
    <3> QED
      BY <1>17, <1>18, <3>1
  <2>2. Along(back', d)
    BY <1>9, <2>1 DEF Along
  <2>3. \A w \in Threads : FoundOn(w, d) <=> w \in Sleepers'
    BY <1>4, <1>8, <1>31
  <2>4. cv'.tail = d[1]
    <3>1. 1 \in 1..j
      BY <1>5
    <3> QED
      BY <1>4, <1>8, <1>13, <3>1
  <2> QED
    BY <1>8, <1>11, <2>2, <2>3, <2>4 DEF Chain, Along
<1>33. next'[d[j]] = Nil
  BY <1>14, <1>15
<1>34. Newest(d)'
  <2>1. 1 = j \/ 1 \in 1..j-1
    BY <1>5
  <2>2. next'[d[1]] = Nil
    BY <1>18, <1>33, <2>1
  <2> QED
    BY <2>2 DEF Newest
<1>35. Known(d)'
  <2>1. notify'[d[j]] = d[n]
    BY <1>0, <1>13, <1>15 DEF TypeOK
  <2>2. KnownFrom(d, 1, j)'
    BY <1>9, <1>16, <1>18, <2>1 DEF KnownFrom
  <2> QED
    BY <1>9, <1>11, <2>2 DEF Known
<1>36. Snapshots(d)'
  <2>1. LinkOwners' \subseteq {t}
    <3>1. \A u \in Threads \ {t} : u \notin LinkOwners'
      BY <1>0, <1>2, <1>20, OwnerIs, SameThread
    <3> QED
      BY <3>1 DEF LinkOwners
  <2>2. FromTail(d, t, j)'
    BY <1>4, <1>15, <1>18, <1>19, <1>33 DEF FromTail
  <2> QED
    BY <1>9, <1>11, <2>1, <2>2 DEF Snapshots
<1> QED
  BY <1>30, <1>32, <1>34, <1>35, <1>36 DEF IInv, Shape

-----------------------------------------------------------------------------
(* The theorems.                                                            *)

LEMMA NextInvariant == IInv /\ [Next]_vars => IInv'
<1> SUFFICES ASSUME IInv, [Next]_vars PROVE IInv'
  OBVIOUS
<1>1. CASE UNCHANGED vars
  <2>1. Taken' = Taken /\ LinkOwners' = LinkOwners /\ Unlinking' = Unlinking
    BY <1>1 DEF vars, work, Taken, LinkOwners, Unlinking
  <2>2. Sleepers' = Sleepers
    BY <1>1, <2>1 DEF vars, Sleepers, Pending, BeforePark, AfterPark
  <2>3. \A u \in Threads : FlowOf(u)'
    <3>1. \A u \in Threads : Same(u) /\ FlowOf(u)
      BY <1>1 DEF vars, work, Same, IInv, Local
    <3> QED
      BY <2>1, <3>1, SameThread
  <2>4. TypeOK' /\ LinkHasOneOwner' /\ Words'
    BY <1>1, <2>1 DEF vars, work, links, IInv, Local, TypeOK, LinkHasOneOwner, Words
  <2>5. Apart' /\ Releases' /\ \A w \in Taken' : Pending(w)'
    BY <1>1, <2>1 DEF vars, work, IInv, Local, Apart, Once, FoundOn, Releases, AfterPark, BeforePark, Pending
  <2>6. PICK s \in Seq(Threads) : Shape(s)
    BY DEF IInv
  <2>7. Shape(s)'
    BY <1>1, <2>1, <2>2, <2>6 DEF vars, links, work, Shape, Chain, Along, Snapshots, FromTail, Known, KnownFrom, Newest
  <2> QED
    BY <2>3, <2>4, <2>5, <2>7 DEF IInv, Local
<1>2. ASSUME NEW t \in Threads, Step(t) PROVE IInv'
  <2>1. CASE TakeAll(t) \/ TakeOldest(t) \/ WakeStop(t)
    BY <2>1, TakeAllKeeps, TakeOldestKeeps, WakeStopKeeps
  <2>2. CASE WakeEmpty(t)
    BY <2>2, WakeEmptyTakes, WakeEmptyAgain
  <2>3. CASE Release(t) \/ ReleaseKeyedEvent(t) \/ EndWake(t) \/ Unlock(t) \/ Optimize(t) \/ OptimizeDone(t)
    BY <2>3, ReleaseKeeps, ReleaseKeyedEventKeeps, EndWakeKeeps, UnlockKeeps, OptimizeKeeps, OptimizeDoneKeeps
  <2>4. CASE Park(t) \/ RtlpWakeSingle(t) \/ UnlinkOlder(t) \/ ReleaseLock(t)
    BY <2>4, ParkKeeps, RtlpWakeSingleKeeps, UnlinkOlderKeeps, ReleaseLockKeeps
  <2>5. CASE UnlinkNewest(t)
    BY <2>5, UnlinkNewestKeeps, UnlinkNewestAgain
  <2> QED
    BY <1>2, <2>1, <2>2, <2>3, <2>4, <2>5 DEF Step
<1>3. ASSUME NEW t \in Threads, Call(t) PROVE IInv'
  BY <1>3, RtlWakeKeeps, WakeAllRequestKeeps, WakeAllTakes DEF Call
<1>4. ASSUME NEW t \in Threads, TimeOut(t) \/ AcquireLock(t) \/ Sleep(t) \/ Relock(t) PROVE IInv'
  BY <1>4, TimeOutKeeps, AcquireLockKeeps, SleepKeeps, RelockKeeps
<1> QED
  BY <1>1, <1>2, <1>3, <1>4 DEF Next

(* In every behaviour, for any set of threads and any programs: the word,   *)
(* the links and the wake lists fit together, and the links lead through    *)
(* one list of exactly the sleepers nobody has taken.                       *)
THEOREM ListInvariant == Spec => []IInv
  BY InitInvariant, NextInvariant, PTL DEF Spec

(* The Link always has exactly one owner, or is clear and has none: the     *)
(* links of the blocks have one writer at a time, whatever mix of calls and *)
(* time-outs the threads make.                                              *)
THEOREM OneThreadOwnsLink == Spec => []LinkHasOneOwner
<1>1. IInv => LinkHasOneOwner
  BY InvariantSuffices
<1> QED
  BY <1>1, ListInvariant, PTL

(* The list in the condition variable is exactly the set of calls that wait *)
(* and have been chosen by nobody, each once, and the walk of the next Link *)
(* owner finds its old end: nothing is lost and no block of a call that has *)
(* returned is reached.                                                     *)
THEOREM ListIsTheSleepers == Spec => []ListOfSleepers
<1>1. IInv => ListOfSleepers
  BY InvariantSuffices
<1> QED
  BY <1>1, ListInvariant, PTL

(* Whoever a waker has taken off the list is still in its call when the     *)
(* waker releases it, and is taken by one waker only.                       *)
THEOREM EveryReleaseMeetsItsSleeper == Spec => []ReleaseMeetsSleeper
<1>1. IInv => ReleaseMeetsSleeper
  BY InvariantSuffices
<1> QED
  BY <1>1, ListInvariant, PTL

(* Wake requests counted in the word beside the Link are wiped out only by  *)
(* a thread that has served them, or that unlinks itself after a time-out.  *)
THEOREM NoRequestIsWipedOut == Spec => RequestsKept
<1>1. ASSUME IInv, [Next]_vars
      PROVE  [cv'.count < cv.count /\ cv'.tail # Nil =>
                \E t \in Threads : \/ pc[t] = "unlink"
                                   \/ caller[t] # "none" /\ Len(wake[t]) >= base[t] + cv.count]_vars
  <2>0. TypeOK /\ \A t \in Threads : FlowOf(t)
    BY <1>1 DEF IInv, Local
  <2>1. SUFFICES ASSUME NEW t \in Threads, Step(t) \/ Call(t) \/ TimeOut(t) \/ AcquireLock(t) \/ Sleep(t) \/ Relock(t),
                        cv'.count < cv.count, cv'.tail # Nil
                 PROVE  \E u \in Threads : \/ pc[u] = "unlink"
                                           \/ caller[u] # "none" /\ Len(wake[u]) >= base[u] + cv.count
    BY <1>1 DEF Next
  <2>2. cv.count \in 0..7 /\ cv' # cv
    BY <2>0, <2>1 DEF TypeOK, Word, Full
  <2>3. CASE WakeStop(t)
    <3>1. cv = status[t] /\ pc[t] = "wakeStop"
      BY <2>2, <2>3 DEF WakeStop
    <3> QED
      BY <2>0, <3>1 DEF FlowOf, Waking
  <2>4. CASE OptimizeDone(t)
    <3>1. cv = status[t] /\ pc[t] = "optimizeCas"
      BY <2>2, <2>4 DEF OptimizeDone
    <3>2. cv.count = 0
      BY <2>0, <3>1 DEF FlowOf, LinkOwners, Waking
    <3>3. cv'.count = 0
      BY <2>2, <2>4 DEF OptimizeDone, Resting
    <3> QED
      BY <2>1, <3>2, <3>3
  <2>5. CASE UnlinkNewest(t)
    BY <2>5 DEF UnlinkNewest
  <2>6. CASE TakeAll(t) \/ WakeEmpty(t)
    <3>1. cv' = Empty
      BY <2>2, <2>6 DEF TakeAll, WakeEmpty
    <3> QED
      BY <2>1, <3>1 DEF Empty
  <2>7. CASE RtlWakeConditionVariable(t)
    <3>1. cv' = [cv EXCEPT !.count = @ + 1] \/ cv' = [cv EXCEPT !.link = TRUE]
      BY <2>7 DEF RtlWakeConditionVariable
    <3>2. cv'.count = cv.count + 1 \/ cv'.count = cv.count
      BY <2>0, <3>1 DEF TypeOK, Word
    <3> QED
      BY <2>1, <2>2, <3>2
  <2>8. CASE RtlWakeAllConditionVariable(t)
    <3>1. cv' = Empty \/ cv' = RequestAll(cv)
      BY <2>8 DEF RtlWakeAllConditionVariable
    <3>2. cv'.tail = Nil \/ cv'.count = 7
      BY <2>0, <3>1 DEF TypeOK, Word, Empty, RequestAll, Full
    <3> QED
      BY <2>1, <2>2, <3>2
  <2>9. CASE RtlpWakeSingle(t)
    <3>1. cv' = [cv EXCEPT !.link = TRUE] \/ cv' = RequestAll(cv)
      BY <2>2, <2>9 DEF RtlpWakeSingle
    <3>2. cv'.count = cv.count \/ cv'.count = 7
      BY <2>0, <3>1 DEF TypeOK, Word, RequestAll, Full
    <3> QED
      BY <2>1, <2>2, <3>2
  <2>10. CASE Sleep(t)
    <3>1. cv'.count = cv.count
      BY <2>0, <2>10 DEF Sleep, TypeOK, Word
    <3> QED
      BY <2>1, <2>2, <3>1
  <2>11. CASE TakeOldest(t) \/ Release(t) \/ ReleaseKeyedEvent(t) \/ EndWake(t) \/ Unlock(t) \/ Optimize(t) \/ Park(t)
    BY <2>2, <2>11 DEF TakeOldest, Release, ReleaseKeyedEvent, EndWake, Unlock, Optimize, Park
  <2>12. CASE UnlinkOlder(t) \/ ReleaseLock(t) \/ TimeOut(t) \/ AcquireLock(t) \/ Relock(t)
    BY <2>2, <2>12 DEF UnlinkOlder, ReleaseLock, TimeOut, AcquireLock, Relock
  <2> QED
    BY <2>1, <2>3, <2>4, <2>5, <2>6, <2>7, <2>8, <2>9, <2>10, <2>11, <2>12 DEF Step, Call
<1> QED
  BY <1>1, ListInvariant, PTL DEF Spec, RequestsKept

-----------------------------------------------------------------------------
(* The second wait after a time-out.                                        *)

OneTimed == \A t, u \in Threads : "timedSleep" \in Calls[t] /\ "timedSleep" \in Calls[u] => t = u

TimedOut == \A t \in Threads :
    /\ timed[t] => "timedSleep" \in Calls[t]
    /\ pc[t] \in {"timedOut", "unlink", "blockedAgain"} \/ caller[t] = "single" => timed[t]

Answered == \A t \in Threads : pc[t] = "blockedAgain" => t \in Taken \/ (cv.link /\ cv.count = Full)

(* Only a thread that sleeps with a time-out gets to the code behind the    *)
(* time-out.                                                                *)
LEMMA TimedOutInvariant == IInv /\ TimedOut /\ [Next]_vars => TimedOut'
<1> SUFFICES ASSUME IInv, TimedOut, [Next]_vars PROVE TimedOut'
  OBVIOUS
<1>0. TypeOK /\ \A t \in Threads : FlowOf(t)
  BY DEF IInv, Local
<1>1. CASE UNCHANGED vars
  BY <1>1 DEF vars, TimedOut
<1>2. ASSUME NEW t \in Threads, Step(t) \/ Call(t) \/ TimeOut(t) \/ AcquireLock(t) \/ Sleep(t) \/ Relock(t)
      PROVE  TimedOut'
  <2>0. pc \in [Threads -> Labels] /\ timed \in [Threads -> BOOLEAN] /\ DOMAIN caller = Threads
    BY <1>0 DEF TypeOK
  <2>1. CASE TakeAll(t) \/ WakeStop(t) \/ WakeEmpty(t) \/ Release(t)
    BY <2>0, <2>1 DEF TakeAll, WakeStop, WakeEmpty, Release, Goto, TimedOut
  <2>2. CASE TakeOldest(t)
    <3>1. \E l \in {"wakeStop", "wakeEmpty"} : pc' = [pc EXCEPT ![t] = l]
      BY <2>2 DEF TakeOldest, Goto
    <3>2. timed' = timed /\ caller' = caller
      BY <2>2 DEF TakeOldest
    <3> QED
      BY <2>0, <3>1, <3>2 DEF TimedOut
  <2>3. CASE ReleaseKeyedEvent(t)
    <3>1. pc' = [pc EXCEPT ![t] = "release", ![Head(wake[t])] = "relock"] /\ timed' = timed /\ caller' = caller
      BY <2>3 DEF ReleaseKeyedEvent
    <3> QED
      BY <2>0, <3>1 DEF TimedOut
  <2>4. CASE EndWake(t)
    <3>1. /\ caller[t] \in {"wake", "optimize", "single"}
          /\ caller[t] = "wake" => AfterWake(t) = "idle"
          /\ caller[t] = "optimize" => AfterWake(t) = "spin"
      BY <1>0, <2>4 DEF EndWake, AfterWake, TypeOK, FlowOf, Waking
    <3>2. pc' = [pc EXCEPT ![t] = AfterWake(t)] /\ timed' = timed /\ caller' = [caller EXCEPT ![t] = "none"]
      BY <2>4 DEF EndWake, Goto
    <3> QED
      BY <2>0, <3>1, <3>2 DEF TimedOut
  <2>5. CASE Unlock(t) \/ Optimize(t) \/ Park(t) \/ ReleaseLock(t) \/ AcquireLock(t) \/ TimeOut(t)
    BY <2>0, <2>5 DEF Unlock, Optimize, Park, ReleaseLock, AcquireLock, TimeOut, Goto, TimedOut
  <2>6. CASE OptimizeDone(t)
    BY <2>0, <2>6 DEF OptimizeDone, EnterWake, Goto, TimedOut
  <2>7. CASE RtlpWakeSingle(t)
    BY <2>0, <2>7 DEF RtlpWakeSingle, Goto, TimedOut
  <2>8. CASE UnlinkNewest(t)
    BY <2>0, <2>8 DEF UnlinkNewest, Goto, TimedOut
  <2>9. CASE UnlinkOlder(t)
    <3>1. /\ pc[t] = "unlink" /\ pc' = [pc EXCEPT ![t] = "waking"] /\ timed' = timed
          /\ caller' = [caller EXCEPT ![t] = "single"]
      BY <2>9 DEF UnlinkOlder, EnterWake, Goto
    <3> QED
      BY <2>0, <3>1 DEF TimedOut
  <2>10. CASE RtlWakeConditionVariable(t) \/ RtlWakeAllConditionVariable(t)
    BY <2>0, <2>10 DEF RtlWakeConditionVariable, RtlWakeAllConditionVariable, EnterWake, Goto, TimedOut
  <2>11. CASE Sleep(t)
    <3>1. caller[t] = "none" /\ caller' = caller /\ pc' = [pc EXCEPT ![t] = "unlock"]
      BY <1>0, <2>11 DEF Sleep, Goto, FlowOf, Waking
    <3>2. PICK c \in Calls[t] \cap {"sleep", "timedSleep"} : timed' = [timed EXCEPT ![t] = c = "timedSleep"]
      BY <2>11 DEF Sleep
    <3>3. \A u \in Threads \ {t} : timed'[u] = timed[u] /\ pc'[u] = pc[u]
      BY <2>0, <3>1, <3>2
    <3>4. (timed'[t] => "timedSleep" \in Calls[t]) /\ pc'[t] = "unlock"
      BY <2>0, <3>1, <3>2
    <3> QED
      BY <3>1, <3>3, <3>4 DEF TimedOut
  <2>12. CASE Relock(t)
    <3>1. caller[t] = "none" /\ caller' = caller
      BY <1>0, <2>12 DEF Relock, FlowOf, Waking
    <3> QED
      BY <2>0, <2>12, <3>1 DEF Relock, Goto, TimedOut
  <2> QED
    BY <1>2, <2>1, <2>2, <2>3, <2>4, <2>5, <2>6, <2>7, <2>8, <2>9, <2>10, <2>11, <2>12 DEF Step, Call
<1> QED
  BY <1>1, <1>2 DEF Next

(* Nothing taken, nobody new in the second wait, and a full word stays full. *)
LEMMA AnsweredStays ==
  ASSUME Answered, \A u \in Threads : pc'[u] = "blockedAgain" => pc[u] = "blockedAgain" /\ (u \in Taken => u \in Taken'),
         cv.link /\ cv.count = Full => cv'.link /\ cv'.count = Full
  PROVE  Answered'
  BY DEF Answered

(* With one timed sleeper, a second wait is answered by a waker who has     *)
(* taken the thread or by the pending request to wake everybody.            *)
LEMMA AnsweredInvariant == OneTimed /\ IInv /\ TimedOut /\ Answered /\ [Next]_vars => Answered'
<1> SUFFICES ASSUME OneTimed, IInv, TimedOut, Answered, [Next]_vars PROVE Answered'
  OBVIOUS
<1>0. /\ TypeOK /\ Local /\ Words /\ Apart
      /\ \A t \in Threads : FlowOf(t) /\ (t \in Taken => Pending(t))
  BY DEF IInv, Local
<1>1. CASE UNCHANGED vars
  BY <1>1 DEF vars, work, Answered, Taken
<1>2. ASSUME NEW t \in Threads, Step(t) \/ Call(t) \/ TimeOut(t) \/ AcquireLock(t) \/ Sleep(t) \/ Relock(t)
      PROVE  Answered'
  <2>0. pc \in [Threads -> Labels] /\ cv \in Word /\ wake \in [Threads -> Seq(Threads)]
    BY <1>0 DEF TypeOK
  <2>a. wake' = wake => Taken' = Taken
    BY DEF Taken
  <2>1. CASE TakeAll(t)
    <3>1. PICK s \in Seq(Threads) : Shape(s)
      BY DEF IInv
    <3>2. Follow(back, cv.tail) = s
      BY <3>1, ChainIs DEF Shape
    <3>3. Once(s) /\ \A w \in Threads : FoundOn(w, s) <=> w \in Sleepers
      BY <3>1 DEF Shape, Chain
    <3>4. wake' = [wake EXCEPT ![t] = @ \o s] /\ pc' = [pc EXCEPT ![t] = "release"]
      BY <2>1, <3>2 DEF TakeAll, Goto
    <3>5. \A w \in Threads : w \in Taken' <=> w \in Taken \/ FoundOn(w, s)
      BY <1>0, <3>3, <3>4, TakeWake
    <3>6. ASSUME NEW u \in Threads, pc'[u] = "blockedAgain" PROVE u \in Taken'
      <4>1. pc[u] = "blockedAgain"
        BY <2>0, <3>4, <3>6
      <4>2. Pending(u)
        BY <1>0, <4>1 DEF FlowOf, Waking, Pending, AfterPark
      <4> QED
        BY <3>3, <3>5, <4>2 DEF Sleepers
    <3> QED
      BY <3>6 DEF Answered
  <2>2. CASE TakeOldest(t)
    <3>1. \E l \in {"wakeStop", "wakeEmpty"} : pc' = [pc EXCEPT ![t] = l]
      BY <2>2 DEF TakeOldest, Goto
    <3>2. cv' = cv
      BY <2>2 DEF TakeOldest
    <3>3. \A w \in Threads : w \in Taken => w \in Taken'
      BY <2>2, TakeOldestKeeps
    <3> QED
      BY <2>0, <3>1, <3>2, <3>3, AnsweredStays
  <2>3. CASE WakeStop(t)
    <3>1. CASE cv = status[t]
      <4>1. cv.count # Full /\ wake' = wake /\ pc' = [pc EXCEPT ![t] = "release"]
        BY <1>0, <2>3, <3>1 DEF WakeStop, Goto, FlowOf
      <4> QED
        BY <2>0, <2>a, <4>1, AnsweredStays
    <3>2. CASE cv # status[t]
      <4>1. cv' = cv /\ wake' = wake /\ pc' = [pc EXCEPT ![t] = "waking"]
        BY <2>3, <3>2 DEF WakeStop, Goto
      <4> QED
        BY <2>0, <2>a, <4>1, AnsweredStays
    <3> QED
      BY <3>1, <3>2
  <2>4. CASE WakeEmpty(t)
    <3>1. CASE cv = status[t]
      <4>1. cv.count # Full /\ pc' = [pc EXCEPT ![t] = "release"] /\ wake' = [wake EXCEPT ![t] = Append(@, cv.tail)]
        BY <1>0, <2>4, <3>1 DEF WakeEmpty, Goto, FlowOf
      <4>2. \A w \in Threads : w \in Taken => w \in Taken'
        <5> SUFFICES ASSUME NEW w \in Threads, w \in Taken PROVE w \in Taken'
          OBVIOUS
        <5>1. PICK u \in Threads : \E i \in DOMAIN wake[u] : wake[u][i] = w
          BY DEF Taken
        <5>2. PICK i \in DOMAIN wake[u] : wake[u][i] = w
          BY <5>1
        <5>3. i \in DOMAIN wake'[u] /\ wake'[u][i] = w
          <6>1. CASE u # t
            BY <2>0, <4>1, <5>2, <6>1
          <6>2. CASE u = t
            <7>1. wake[t] \in Seq(Threads) /\ wake'[t] = Append(wake[t], cv.tail)
              BY <2>0, <4>1
            <7>2. i \in 1..Len(wake[t]) /\ Len(wake[t]) \in Nat
              BY <5>2, <6>2, <7>1, LenProperties
            <7> QED
              BY <5>2, <6>2, <7>1, <7>2
          <6> QED
            BY <6>1, <6>2
        <5> QED
          BY <5>3 DEF Taken
      <4> QED
        BY <2>0, <4>1, <4>2, AnsweredStays
    <3>2. CASE cv # status[t]
      <4>1. cv' = cv /\ wake' = wake /\ pc' = [pc EXCEPT ![t] = "waking"]
        BY <2>4, <3>2 DEF WakeEmpty, Goto
      <4> QED
        BY <2>0, <2>a, <4>1, AnsweredStays
    <3> QED
      BY <3>1, <3>2
  <2>5. CASE Release(t) \/ ReleaseKeyedEvent(t)
    <3>1. /\ wake[t] # <<>> /\ wake[t] \in Seq(Threads) /\ Once(wake[t]) /\ cv' = cv
      BY <1>0, <2>0, <2>5 DEF Release, ReleaseKeyedEvent, Apart, Local, Releases
    <3>2. PICK w \in Threads : w = Head(wake[t])
      BY <3>1, TailOnce
    <3>3. CASE wake' = wake
      <4>1. \A u \in Threads : pc'[u] = "blockedAgain" => pc[u] = "blockedAgain"
        BY <2>0, <2>5 DEF Release, ReleaseKeyedEvent, Goto
      <4> QED
        BY <2>a, <3>1, <3>3, <4>1, AnsweredStays
    <3>4. CASE wake' # wake
      <4>1. wake' = [wake EXCEPT ![t] = Tail(@)]
        BY <2>5, <3>4 DEF Release, ReleaseKeyedEvent
      <4>2. Taken' = Taken \ {w}
        BY <1>0, <3>1, <3>2, <4>1, Untaken
      <4>3. \A u \in Threads : pc'[u] = "blockedAgain" => pc[u] = "blockedAgain" /\ u # w
        <5>1. CASE Release(t)
          <6>1. pc' = pc /\ spin[w]
            BY <3>2, <3>4, <5>1 DEF Release
          <6>2. pc[w] # "blockedAgain"
            BY <1>0, <6>1 DEF FlowOf, AfterPark
          <6> QED
            BY <6>1, <6>2
        <5>2. CASE ReleaseKeyedEvent(t)
          <6>1. pc' = [pc EXCEPT ![t] = "release", ![w] = "relock"]
            BY <3>2, <5>2 DEF ReleaseKeyedEvent
          <6> QED
            BY <2>0, <6>1
        <5> QED
          BY <2>5, <5>1, <5>2
      <4> QED
        BY <3>1, <4>2, <4>3, AnsweredStays
    <3> QED
      BY <3>3, <3>4
  <2>6. CASE EndWake(t)
    <3>1. /\ caller[t] \in {"wake", "optimize", "single"}
          /\ caller[t] = "wake" => AfterWake(t) = "idle"
          /\ caller[t] = "optimize" => AfterWake(t) = "spin"
          /\ caller[t] = "single" => AfterWake(t) = IF removed[t] THEN "relock" ELSE "blockedAgain"
      BY <1>0, <2>6 DEF EndWake, AfterWake, TypeOK, FlowOf, Waking
    <3>2. pc' = [pc EXCEPT ![t] = AfterWake(t)] /\ cv' = cv /\ Taken' = Taken
      BY <2>6, <2>a DEF EndWake, Goto
    <3>3. AfterWake(t) = "blockedAgain" => t \in Taken
      BY <1>0, <3>1 DEF FlowOf
    <3> QED
      BY <2>0, <3>2, <3>3 DEF Answered
  <2>7. CASE Unlock(t) \/ Optimize(t) \/ Park(t) \/ ReleaseLock(t) \/ AcquireLock(t) \/ TimeOut(t) \/ Relock(t)
    <3>1. wake' = wake /\ cv' = cv
      BY <2>7 DEF Unlock, Optimize, Park, ReleaseLock, AcquireLock, TimeOut, Relock, work
    <3>2. \A u \in Threads : pc'[u] = "blockedAgain" => pc[u] = "blockedAgain"
      BY <2>0, <2>7 DEF Unlock, Optimize, Park, ReleaseLock, AcquireLock, TimeOut, Relock, Goto
    <3> QED
      BY <2>a, <3>1, <3>2, AnsweredStays
  <2>8. CASE OptimizeDone(t)
    <3>a. wake[t] = <<>>
      BY <1>0, <2>8 DEF OptimizeDone, FlowOf, Waking
    <3>b. wake' = wake
      <4>1. wake' = wake \/ wake' = [wake EXCEPT ![t] = <<>>]
        BY <2>8 DEF OptimizeDone, EnterWake
      <4>2. wake \in [Threads -> Seq(Threads)]
        BY <1>0 DEF TypeOK
      <4> QED
        BY <3>a, <4>1, <4>2
    <3>c. \E l \in {"spin", "waking", "optimize"} : pc' = [pc EXCEPT ![t] = l]
      BY <2>8 DEF OptimizeDone, EnterWake, Goto
    <3>1. wake' = wake /\ \A u \in Threads : pc'[u] = "blockedAgain" => pc[u] = "blockedAgain"
      BY <2>0, <3>b, <3>c
    <3>2. cv' = cv \/ cv.count # Full
      BY <1>0, <2>8 DEF OptimizeDone, FlowOf, LinkOwners, Waking, Full
    <3> QED
      BY <2>a, <3>1, <3>2, AnsweredStays
  <2>9. CASE RtlpWakeSingle(t)
    <3>0. pc[t] = "timedOut" /\ pc' \in {[pc EXCEPT ![t] = "blockedAgain"], [pc EXCEPT ![t] = "unlink"]} /\ Taken' = Taken
      BY <2>9, <2>a DEF RtlpWakeSingle, Goto
    <3>1. Pending(t)
      BY <1>0, <3>0 DEF FlowOf, Waking, Pending, AfterPark
    <3>2. cv.tail = Nil => t \in Taken
      <4>1. PICK s \in Seq(Threads) : Shape(s)
        BY DEF IInv
      <4>2. cv.tail = Nil => s = <<>>
        BY <4>1, LenProperties, EmptySeq, ThreadsAssumption DEF Shape, Chain
      <4>3. cv.tail = Nil => t \notin Sleepers
        BY <4>1, <4>2, NotOnEmpty DEF Shape, Chain
      <4> QED
        BY <3>1, <4>3 DEF Sleepers
    <3>3. CASE cv.tail = Nil \/ cv.count = Full
      <4>1. cv.count = Full => cv.link
        BY <1>0 DEF Words, Full
      <4>2. cv.link => cv.tail # Nil
        BY <1>0 DEF Words
      <4>3. cv' = cv
        BY <2>9, <3>3, <4>1, <4>2 DEF RtlpWakeSingle
      <4> QED
        BY <2>0, <3>0, <3>2, <3>3, <4>1, <4>3 DEF Answered
    <3>4. CASE cv.tail # Nil /\ cv.count # Full /\ cv.link
      <4>1. cv' = RequestAll(cv)
        BY <2>9, <3>4 DEF RtlpWakeSingle
      <4>2. cv'.link /\ cv'.count = Full
        BY <2>0, <3>4, <4>1 DEF RequestAll, Word
      <4> QED
        BY <4>2 DEF Answered
    <3>5. CASE cv.tail # Nil /\ cv.count # Full /\ ~cv.link
      <4>1. pc' = [pc EXCEPT ![t] = "unlink"]
        BY <2>9, <3>5 DEF RtlpWakeSingle, Goto
      <4> QED
        BY <2>0, <3>0, <3>5, <4>1, AnsweredStays
    <3> QED
      BY <3>3, <3>4, <3>5
  <2>10. CASE UnlinkNewest(t) \/ UnlinkOlder(t)
    <3>1. /\ pc[t] = "unlink" /\ (pc' = pc \/ \E l \in {"relock", "waking"} : pc' = [pc EXCEPT ![t] = l])
      BY <2>10 DEF UnlinkNewest, UnlinkOlder, EnterWake, Goto
    <3>2. \A u \in Threads : pc'[u] # "blockedAgain"
      <4> SUFFICES ASSUME NEW u \in Threads, pc'[u] = "blockedAgain" PROVE FALSE
        OBVIOUS
      <4>1. pc[u] = "blockedAgain"
        BY <2>0, <3>1
      <4>2. timed[u] /\ timed[t]
        BY <3>1, <4>1 DEF TimedOut
      <4>3. u = t
        BY <4>2 DEF TimedOut, OneTimed
      <4> QED
        BY <3>1, <4>1, <4>3
    <3> QED
      BY <3>2 DEF Answered
  <2>11. CASE RtlWakeConditionVariable(t)
    <3>1. wake' = wake /\ \A u \in Threads : pc'[u] = "blockedAgain" => pc[u] = "blockedAgain"
      BY <1>0, <2>0, <2>11 DEF RtlWakeConditionVariable, EnterWake, Goto, FlowOf, Waking, work
    <3>2. cv.link => cv.count # Full
      BY <2>11 DEF RtlWakeConditionVariable, MayCount
    <3> QED
      BY <2>a, <3>1, <3>2, AnsweredStays
  <2>12. CASE RtlWakeAllConditionVariable(t)
    <3>1. CASE cv.link
      <4>1. wake' = wake /\ pc' = pc /\ cv.count # Full
        BY <2>12, <3>1 DEF RtlWakeAllConditionVariable
      <4> QED
        BY <2>a, <4>1, AnsweredStays
    <3>2. CASE ~cv.link
      <4>1. /\ pc' = [pc EXCEPT ![t] = "release"]
            /\ \E r : wake' = [wake EXCEPT ![t] = r]
            /\ wake[t] = <<>>
        BY <1>0, <2>12, <3>2 DEF RtlWakeAllConditionVariable, Goto, FlowOf, Waking
      <4>2. \A w \in Threads : w \in Taken => w \in Taken'
        <5> SUFFICES ASSUME NEW w \in Threads, w \in Taken PROVE w \in Taken'
          OBVIOUS
        <5>1. PICK u \in Threads : FoundOn(w, wake[u])
          BY TakenIs
        <5>2. u # t
          BY <4>1, <5>1, NotOnEmpty
        <5>3. wake'[u] = wake[u]
          BY <2>0, <4>1, <5>2
        <5> QED
          BY <5>1, <5>3 DEF Taken, FoundOn
      <4> QED
        BY <2>0, <3>2, <4>1, <4>2, AnsweredStays
    <3> QED
      BY <3>1, <3>2
  <2>13. CASE Sleep(t)
    <3>1. wake' = wake /\ pc' = [pc EXCEPT ![t] = "unlock"] /\ cv' = [cv EXCEPT !.tail = t, !.link = @ \/ cv.tail # Nil]
      BY <2>13 DEF Sleep, Goto
    <3>2. cv'.count = cv.count /\ (cv.link => cv'.link)
      BY <2>0, <3>1 DEF Word
    <3> QED
      BY <2>0, <2>a, <3>1, <3>2, AnsweredStays
  <2> QED
    BY <1>2, <2>1, <2>2, <2>3, <2>4, <2>5, <2>6, <2>7, <2>8, <2>9, <2>10, <2>11, <2>12, <2>13 DEF Step, Call
<1> QED
  BY <1>1, <1>2 DEF Next

(* If only one thread of the program ever sleeps with a time-out, a thread  *)
(* whose time is up never waits again for a wake-up that nobody owes it.    *)
(* With two such threads this is false (see the run timed_sleepers).        *)
THEOREM SecondWaitIsSafe ==
  ASSUME OneTimed
  PROVE  Spec => []SecondWaitIsAnswered
<1>1. Init => TimedOut /\ Answered
  BY DEF Init, TimedOut, Answered
<1>2. IInv /\ TimedOut /\ Answered /\ [Next]_vars => TimedOut' /\ Answered'
  BY OneTimed, TimedOutInvariant, AnsweredInvariant
<1>3. Answered => SecondWaitIsAnswered
  BY DEF Answered, SecondWaitIsAnswered, Sleepers
<1> QED
  BY <1>1, <1>2, <1>3, ListInvariant, PTL DEF Spec
=============================================================================
