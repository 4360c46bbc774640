-------------------------- MODULE SelectionsProofs --------------------------
(***************************************************************************)
(* What the operators of Selections return.                                *)
(***************************************************************************)
EXTENDS Selections, FiniteSetTheorems, SequenceTheorems, TLAPS

\* The members of N up to n.
UpTo(N, n) == { m \in N : m <= n }

\* These counts are between 1 and the size of N and grow with n.
LEMMA UpToCount ==
    ASSUME NEW N \in SUBSET Nat, IsFiniteSet(N)
    PROVE  /\ \A n \in N : Cardinality(UpTo(N, n)) \in 1..Cardinality(N)
           /\ \A m, n \in N : m < n => Cardinality(UpTo(N, m)) < Cardinality(UpTo(N, n))
<1>0. Cardinality(N) \in Nat
  BY FS_CardinalityType
<1>1. \A n \in N : IsFiniteSet(UpTo(N, n)) /\ Cardinality(UpTo(N, n)) <= Cardinality(N)
  BY FS_Subset DEF UpTo
<1>2. \A n \in N : Cardinality(UpTo(N, n)) \in Nat
  BY <1>1, FS_CardinalityType
<1>3. ASSUME NEW n \in N PROVE Cardinality(UpTo(N, n)) # 0
  <2>1. n \in UpTo(N, n)
    BY DEF UpTo
  <2> QED BY <2>1, <1>1, FS_EmptySet
<1>4. ASSUME NEW m \in N, NEW n \in N, m < n
      PROVE  Cardinality(UpTo(N, m)) < Cardinality(UpTo(N, n))
  <2>1. UpTo(N, m) \in SUBSET UpTo(N, n)
    <3>1. ASSUME NEW k \in N, k <= m PROVE k <= n
      <4>1. k \in Nat /\ m \in Nat /\ n \in Nat
        OBVIOUS
      <4> QED BY <4>1, <3>1, <1>4
    <3> QED BY <3>1 DEF UpTo
  <2>2. n \in UpTo(N, n) /\ n \notin UpTo(N, m)
    <3>1. m \in Nat /\ n \in Nat
      OBVIOUS
    <3> QED BY <3>1, <1>4 DEF UpTo
  <2>3. Cardinality(UpTo(N, m)) <= Cardinality(UpTo(N, n))
        /\ Cardinality(UpTo(N, m)) # Cardinality(UpTo(N, n))
    BY <2>1, <2>2, <1>1, FS_Subset
  <2> QED BY <2>3, <1>2
<1> QED BY <1>0, <1>1, <1>2, <1>3, <1>4

\* Ascending(N) lists N, each member once, from the least to the greatest.
LEMMA AscendingLists ==
    ASSUME NEW N \in SUBSET Nat, IsFiniteSet(N)
    PROVE  /\ Ascending(N) \in Seq(N)
           /\ Len(Ascending(N)) = Cardinality(N)
           /\ \A i, j \in 1..Cardinality(N) : i < j => Ascending(N)[i] < Ascending(N)[j]
           /\ \A n \in N : \E i \in 1..Cardinality(N) : Ascending(N)[i] = n
<1> DEFINE count == [n \in N |-> Cardinality(UpTo(N, n))]
           size == Cardinality(N)
<1>1. size \in Nat
  BY FS_CardinalityType
<1>2. count \in [N -> 1..size]
  BY UpToCount
<1>3. \A m, n \in N : m < n => count[m] < count[n]
  BY UpToCount
<1>4. \A m, n \in N : count[m] = count[n] => m = n
  BY <1>2, <1>3
<1>5. \A k \in 1..size : \E n \in N : count[n] = k
  <2>1. count \in Injection(N, 1..size)
    BY <1>2, <1>4 DEF Injection, IsInjective
  <2>2. IsFiniteSet(1..size) /\ Cardinality(1..size) = size
    BY <1>1, FS_Interval
  <2>3. count \in Surjection(N, 1..size)
    BY <2>1, <2>2, FS_Injection
  <2> QED BY <2>3 DEF Surjection
<1>6. Ascending(N) = [i \in 1..size |-> CHOOSE n \in N : count[n] = i]
  <2>1. \A i \in 1..size : (CHOOSE n \in N : Cardinality({ m \in N : m <= n }) = i)
                            = CHOOSE n \in N : count[n] = i
    BY DEF UpTo
  <2> HIDE DEF count
  <2> QED BY <2>1 DEF Ascending
<1> HIDE DEF count
<1>7. \A i \in 1..size : Ascending(N)[i] \in N /\ count[Ascending(N)[i]] = i
  BY <1>5, <1>6
<1>8. \A i, j \in 1..size : i < j => Ascending(N)[i] < Ascending(N)[j]
  <2> SUFFICES ASSUME NEW i \in 1..size, NEW j \in 1..size, i < j
               PROVE  Ascending(N)[i] < Ascending(N)[j]
    OBVIOUS
  <2>1. Ascending(N)[i] \in Nat /\ Ascending(N)[j] \in Nat
    BY <1>7
  <2>2. CASE Ascending(N)[i] = Ascending(N)[j]
    BY <2>2, <1>7, <1>1
  <2>3. CASE Ascending(N)[j] < Ascending(N)[i]
    <3>1. count[Ascending(N)[j]] < count[Ascending(N)[i]]
      BY <2>3, <1>7, <1>3
    <3>2. j < i
      BY <3>1, <1>7
    <3> QED BY <3>2
  <2> QED BY <2>1, <2>2, <2>3
<1>9. \A n \in N : \E i \in 1..size : Ascending(N)[i] = n
  <2> SUFFICES ASSUME NEW n \in N PROVE \E i \in 1..size : Ascending(N)[i] = n
    OBVIOUS
  <2>1. count[n] \in 1..size
    BY <1>2
  <2>2. Ascending(N)[count[n]] \in N /\ count[Ascending(N)[count[n]]] = count[n]
    BY <1>7, <2>1
  <2>3. Ascending(N)[count[n]] = n
    BY <2>2, <1>4
  <2> QED BY <2>1, <2>3
<1>10. Ascending(N) \in Seq(N) /\ Len(Ascending(N)) = size
  <2>1. \A i \in 1..size : (CHOOSE n \in N : count[n] = i) \in N
    BY <1>5
  <2>2. Ascending(N) \in [1..size -> N]
    BY <1>6, <2>1
  <2> QED BY <2>2, <1>1
<1> QED BY <1>8, <1>9, <1>10

\* A finite set of numbers with a member has a greatest one.
LEMMA LargestIsGreatest ==
    ASSUME NEW N \in SUBSET Nat, IsFiniteSet(N), N # {}
    PROVE  Largest(N) \in N /\ \A m \in N : m <= Largest(N)
<1> DEFINE p == Ascending(N)  size == Cardinality(N)
<1>1. size \in Nat /\ size # 0
  BY FS_CardinalityType, FS_EmptySet
<1>2. p[size] \in N /\ \A m \in N : m <= p[size]
  <2>1. size \in 1..size
    BY <1>1
  <2>2. p \in Seq(N) /\ Len(p) = size
    BY AscendingLists
  <2>3. \A i \in 1..size : p[i] \in N
    BY <2>2
  <2>4. \A i \in 1..size : p[i] <= p[size]
    <3> SUFFICES ASSUME NEW i \in 1..size PROVE p[i] <= p[size]
      OBVIOUS
    <3>1. p[i] \in Nat /\ p[size] \in Nat
      BY <2>1, <2>3
    <3>2. CASE i = size
      BY <3>1, <3>2
    <3>3. CASE i # size
      <4>1. p[i] < p[size]
        BY <3>3, <2>1, <1>1, AscendingLists
      <4> QED BY <4>1, <3>1
    <3> QED BY <3>2, <3>3
  <2>5. \A m \in N : \E i \in 1..size : p[i] = m
    BY AscendingLists
  <2> QED BY <2>1, <2>3, <2>4, <2>5
<1> HIDE DEF p, size
<1>3. \E n \in N : \A m \in N : m <= n
  BY <1>2
<1> QED BY <1>3 DEF Largest

\* Among(s, S) is a part of s in its order and has just its members that are in S.
LEMMA AmongSelects ==
    ASSUME NEW T, NEW s \in Seq(T), NEW S
    PROVE  /\ Among(s, S) \in Seq(T)
           /\ \A i \in 1..Len(Among(s, S)) : Among(s, S)[i] \in S
           /\ \A k \in 1..Len(s) : s[k] \in S =>
                \E i \in 1..Len(Among(s, S)) : Among(s, S)[i] = s[k]
           /\ \A i, j \in 1..Len(Among(s, S)) : i < j =>
                \E k, l \in 1..Len(s) : k < l /\ Among(s, S)[i] = s[k] /\ Among(s, S)[j] = s[l]
           /\ \A i \in 1..Len(Among(s, S)) : \E k \in 1..Len(s) : Among(s, S)[i] = s[k]
<1> DEFINE N == { i \in DOMAIN s : s[i] \in S }
           at == Ascending(N)
           size == Cardinality(N)
<1>1. DOMAIN s = 1..Len(s) /\ Len(s) \in Nat
  OBVIOUS
<1>2. N \in SUBSET Nat /\ N \in SUBSET (1..Len(s)) /\ IsFiniteSet(N)
  <2>1. N \in SUBSET (1..Len(s))
    BY <1>1
  <2>2. IsFiniteSet(1..Len(s))
    BY <1>1, FS_Interval
  <2> QED BY <2>1, <2>2, <1>1, FS_Subset
<1>3. size \in Nat
  BY <1>2, FS_CardinalityType
<1>4. at \in Seq(N) /\ Len(at) = size
  BY <1>2, AscendingLists
<1>5. \A i, j \in 1..size : i < j => at[i] < at[j]
  BY <1>2, AscendingLists
<1>6. \A n \in N : \E i \in 1..size : at[i] = n
  BY <1>2, AscendingLists
<1>7. DOMAIN at = 1..size
  BY <1>4
<1>8. \A i \in 1..size : at[i] \in N
  BY <1>4
<1>9. \A n \in N : n \in 1..Len(s) /\ s[n] \in S /\ s[n] \in T
  BY <1>1
<1>9a. \A n \in 1..Len(s) : s[n] \in S => n \in N
  BY <1>1
<1>10. Among(s, S) = [i \in 1..size |-> s[at[i]]]
  BY <1>7 DEF Among
<1> HIDE DEF N, at, size
<1>11. Among(s, S) \in Seq(T) /\ Len(Among(s, S)) = size
  <2>1. Among(s, S) \in [1..size -> T]
    BY <1>8, <1>9, <1>10
  <2> QED BY <2>1, <1>3
<1>12. \A i \in 1..size : Among(s, S)[i] = s[at[i]]
  BY <1>10
<1>13. \A i \in 1..size : at[i] \in 1..Len(s) /\ s[at[i]] \in S
  BY <1>8, <1>9
<1>14. \A k \in 1..Len(s) : s[k] \in S => \E i \in 1..size : Among(s, S)[i] = s[k]
  BY <1>6, <1>9a, <1>12
<1>15. \A i, j \in 1..size : i < j =>
         \E k, l \in 1..Len(s) : k < l /\ Among(s, S)[i] = s[k] /\ Among(s, S)[j] = s[l]
  BY <1>5, <1>12, <1>13
<1> QED BY <1>11, <1>12, <1>13, <1>14, <1>15

\* Without(s, S) is a part of s in its order and has just its members that are not in S.
LEMMA WithoutSelects ==
    ASSUME NEW T, NEW s \in Seq(T), NEW S
    PROVE  /\ Without(s, S) \in Seq(T)
           /\ \A i \in 1..Len(Without(s, S)) : Without(s, S)[i] \notin S
           /\ \A k \in 1..Len(s) : s[k] \notin S =>
                \E i \in 1..Len(Without(s, S)) : Without(s, S)[i] = s[k]
           /\ \A i, j \in 1..Len(Without(s, S)) : i < j =>
                \E k, l \in 1..Len(s) :
                  k < l /\ Without(s, S)[i] = s[k] /\ Without(s, S)[j] = s[l]
           /\ \A i \in 1..Len(Without(s, S)) : \E k \in 1..Len(s) : Without(s, S)[i] = s[k]
<1> DEFINE U == T \ S
           w == Among(s, U)
<1>1. DOMAIN s = 1..Len(s) /\ \A i \in DOMAIN s : s[i] \in U <=> s[i] \notin S
  OBVIOUS
<1> HIDE DEF U
<1>2. { i \in DOMAIN s : s[i] \in U } = { i \in DOMAIN s : s[i] \notin S }
  BY <1>1
<1>3. Without(s, S) = w
  BY <1>2 DEF Without, Among
<1>4. w \in Seq(T) /\ \A i \in 1..Len(w) : w[i] \in U
  BY AmongSelects
<1>5. \A k \in 1..Len(s) : s[k] \in U => \E i \in 1..Len(w) : w[i] = s[k]
  BY AmongSelects
<1>6. \A i, j \in 1..Len(w) : i < j =>
        \E k, l \in 1..Len(s) : k < l /\ w[i] = s[k] /\ w[j] = s[l]
  BY AmongSelects
<1>7. \A i \in 1..Len(w) : \E k \in 1..Len(s) : w[i] = s[k]
  BY AmongSelects
<1> HIDE DEF w
<1>8. \A i \in 1..Len(w) : w[i] \notin S
  BY <1>1, <1>4, <1>7
<1> QED BY <1>1, <1>3, <1>4, <1>5, <1>6, <1>7, <1>8

\* A sequence that lists N in ascending order is Ascending(N).
LEMMA AscendingIsUnique ==
    ASSUME NEW N \in SUBSET Nat, IsFiniteSet(N), NEW p \in Seq(N),
           \A i, j \in 1..Len(p) : i < j => p[i] < p[j],
           \A n \in N : \E i \in 1..Len(p) : p[i] = n
    PROVE  p = Ascending(N)
<1>1. Len(p) \in Nat /\ DOMAIN p = 1..Len(p) /\ \A i \in 1..Len(p) : p[i] \in N
  OBVIOUS
<1>2. \A i, j \in 1..Len(p) : p[i] <= p[j] => i <= j
  <2> SUFFICES ASSUME NEW i \in 1..Len(p), NEW j \in 1..Len(p), p[i] <= p[j], j < i PROVE FALSE
    BY <1>1
  <2>1. p[j] < p[i] /\ p[i] \in Nat /\ p[j] \in Nat
    BY <1>1
  <2> QED BY <2>1
<1>3. \A i, j \in 1..Len(p) : i <= j => p[i] <= p[j]
  <2> SUFFICES ASSUME NEW i \in 1..Len(p), NEW j \in 1..Len(p), i <= j PROVE p[i] <= p[j]
    OBVIOUS
  <2>1. p[i] \in Nat /\ p[j] \in Nat
    BY <1>1
  <2>2. CASE i = j
    BY <2>1, <2>2
  <2>3. CASE i < j
    BY <2>1, <2>3
  <2> QED BY <2>2, <2>3
<1>4. ASSUME NEW i \in 1..Len(p) PROVE Cardinality(UpTo(N, p[i])) = i
  <2> DEFINE f == [j \in 1..i |-> p[j]]
  <2>1. \A j \in 1..i : j \in 1..Len(p) /\ p[j] \in UpTo(N, p[i])
    BY <1>1, <1>3 DEF UpTo
  <2>2. f \in [1..i -> UpTo(N, p[i])]
    BY <2>1
  <2>3. \A j, k \in 1..i : f[j] = f[k] => j = k
    <3> SUFFICES ASSUME NEW j \in 1..i, NEW k \in 1..i, p[j] = p[k] PROVE j = k
      OBVIOUS
    <3>1. j \in 1..Len(p) /\ k \in 1..Len(p) /\ p[j] \in Nat
      BY <2>1, <1>1
    <3>2. j <= k /\ k <= j
      BY <3>1, <1>2
    <3> QED BY <3>2
  <2>4. \A n \in UpTo(N, p[i]) : \E j \in 1..i : f[j] = n
    <3> SUFFICES ASSUME NEW n \in N, n <= p[i] PROVE \E j \in 1..i : p[j] = n
      BY DEF UpTo
    <3>1. PICK j \in 1..Len(p) : p[j] = n
      OBVIOUS
    <3>2. j <= i
      BY <3>1, <1>2
    <3> QED BY <3>1, <3>2
  <2> HIDE DEF f
  <2>5. f \in Bijection(1..i, UpTo(N, p[i]))
    BY <2>2, <2>3, <2>4 DEF Bijection, Injection, IsInjective, Surjection
  <2>6. IsFiniteSet(1..i) /\ Cardinality(1..i) = i
    BY FS_Interval
  <2>7. IsFiniteSet(UpTo(N, p[i]))
    BY FS_Subset DEF UpTo
  <2>8. ExistsBijection(1..i, UpTo(N, p[i]))
    BY <2>5 DEF ExistsBijection
  <2> QED BY <2>6, <2>7, <2>8, FS_Bijection
<1>5. Len(p) = Cardinality(N)
  <2>1. p \in [1..Len(p) -> N]
    BY <1>1
  <2>2. \A j, k \in 1..Len(p) : p[j] = p[k] => j = k
    <3> SUFFICES ASSUME NEW j \in 1..Len(p), NEW k \in 1..Len(p), p[j] = p[k] PROVE j = k
      OBVIOUS
    <3>1. p[j] \in Nat
      BY <1>1
    <3>2. j <= k /\ k <= j
      BY <3>1, <1>2
    <3> QED BY <3>2
  <2>3. p \in Bijection(1..Len(p), N)
    BY <2>1, <2>2 DEF Bijection, Injection, IsInjective, Surjection
  <2>4. \A k \in Nat : IsFiniteSet(1..k) /\ Cardinality(1..k) = k
    BY FS_Interval
  <2>5. IsFiniteSet(1..Len(p)) /\ Cardinality(1..Len(p)) = Len(p)
    BY <2>4, <1>1
  <2>6. ExistsBijection(1..Len(p), N)
    BY <2>3 DEF ExistsBijection
  <2> QED BY <2>5, <2>6, FS_Bijection
<1>6. \A i \in 1..Len(p) : p[i] = CHOOSE n \in N : Cardinality({ m \in N : m <= n }) = i
  <2> SUFFICES ASSUME NEW i \in 1..Len(p)
               PROVE  p[i] = CHOOSE n \in N : Cardinality(UpTo(N, n)) = i
    BY DEF UpTo
  <2>1. \A n \in N : Cardinality(UpTo(N, n)) = i => n = p[i]
    <3> SUFFICES ASSUME NEW n \in N, Cardinality(UpTo(N, n)) = i PROVE n = p[i]
      OBVIOUS
    <3>1. PICK j \in 1..Len(p) : p[j] = n
      OBVIOUS
    <3> QED BY <3>1, <1>4
  <2>2. p[i] \in N /\ Cardinality(UpTo(N, p[i])) = i
    BY <1>1, <1>4
  <2> QED BY <2>1, <2>2
<1>7. Ascending(N) = [i \in 1..Len(p) |-> p[i]]
  BY <1>5, <1>6 DEF Ascending
<1> QED BY <1>1, <1>7

\* Without takes what it leaves from one part of a sequence, and then from the other.
LEMMA WithoutOfConcat ==
    ASSUME NEW T, NEW s \in Seq(T), NEW t \in Seq(T), NEW S
    PROVE  Without(s \o t, S) = Without(s, S) \o Without(t, S)
<1> DEFINE A == { i \in DOMAIN s : s[i] \notin S }
           B == { i \in DOMAIN t : t[i] \notin S }
           C == { i \in DOMAIN (s \o t) : (s \o t)[i] \notin S }
           p == Ascending(A)
           q == Ascending(B)
           k == Len(s)
           r == [i \in 1..(Len(p) + Len(q)) |-> IF i <= Len(p) THEN p[i] ELSE q[i - Len(p)] + k]
<1>1. /\ DOMAIN s = 1..k /\ k \in Nat
      /\ DOMAIN t = 1..Len(t) /\ Len(t) \in Nat
      /\ DOMAIN (s \o t) = 1..(k + Len(t))
      /\ \A i \in 1..k : (s \o t)[i] = s[i]
      /\ \A i \in 1..Len(t) : (s \o t)[i + k] = t[i]
  OBVIOUS
<1>2. A \in SUBSET Nat /\ IsFiniteSet(A) /\ B \in SUBSET Nat /\ IsFiniteSet(B)
      /\ C \in SUBSET Nat /\ IsFiniteSet(C)
  <2>1. A \in SUBSET (1..k) /\ B \in SUBSET (1..Len(t)) /\ C \in SUBSET (1..(k + Len(t)))
    BY <1>1
  <2>2. IsFiniteSet(1..k) /\ IsFiniteSet(1..Len(t)) /\ IsFiniteSet(1..(k + Len(t)))
    BY <1>1, FS_Interval
  <2> QED BY <2>1, <2>2, <1>1, FS_Subset
<1>3. /\ \A i \in A : i \in 1..k /\ s[i] \notin S
      /\ \A i \in B : i \in 1..Len(t) /\ t[i] \notin S
      /\ \A i \in 1..k : i \in C <=> i \in A
      /\ \A i \in 1..Len(t) : i + k \in C <=> i \in B
      /\ \A i \in C : i \in 1..k \/ (i - k \in 1..Len(t))
  BY <1>1
<1>4. /\ p \in Seq(A) /\ (\A i, j \in 1..Len(p) : i < j => p[i] < p[j])
      /\ (\A n \in A : \E i \in 1..Len(p) : p[i] = n)
  BY <1>2, AscendingLists
<1>5. /\ q \in Seq(B) /\ (\A i, j \in 1..Len(q) : i < j => q[i] < q[j])
      /\ (\A n \in B : \E i \in 1..Len(q) : q[i] = n)
  BY <1>2, AscendingLists
<1>6. Without(s, S) = [i \in DOMAIN p |-> s[p[i]]] /\ Without(t, S) = [i \in DOMAIN q |-> t[q[i]]]
      /\ Without(s \o t, S) = [i \in DOMAIN Ascending(C) |-> (s \o t)[Ascending(C)[i]]]
  BY DEF Without
<1>7. Len(p) \in Nat /\ DOMAIN p = 1..Len(p) /\ (\A i \in 1..Len(p) : p[i] \in A)
      /\ Len(q) \in Nat /\ DOMAIN q = 1..Len(q) /\ (\A i \in 1..Len(q) : q[i] \in B)
  <2> HIDE DEF A, B, p, q
  <2> QED BY <1>4, <1>5
<1> HIDE DEF A, B, C, p, q, k
<1>8. \A i \in 1..(Len(p) + Len(q)) :
        i \in 1..Len(p) \/ (i - Len(p) \in 1..Len(q) /\ ~(i <= Len(p)))
  BY <1>7
<1>9. r \in Seq(C) /\ Len(r) = Len(p) + Len(q)
  <2>1. \A i \in 1..(Len(p) + Len(q)) : (IF i <= Len(p) THEN p[i] ELSE q[i - Len(p)] + k) \in C
    BY <1>3, <1>7, <1>8
  <2>2. r \in [1..(Len(p) + Len(q)) -> C]
    BY <2>1
  <2>3. Len(p) + Len(q) \in Nat
    BY <1>7
  <2> HIDE DEF r
  <2> QED BY <2>2, <2>3
<1>10. \A i, j \in 1..Len(r) : i < j => r[i] < r[j]
  <2> SUFFICES ASSUME NEW i \in 1..(Len(p) + Len(q)), NEW j \in 1..(Len(p) + Len(q)), i < j
               PROVE  r[i] < r[j]
    BY <1>9
  <2>1. CASE i <= Len(p) /\ j <= Len(p)
    BY <2>1, <1>4, <1>7
  <2>2. CASE i <= Len(p) /\ ~(j <= Len(p))
    <3>1. r[i] = p[i] /\ r[j] = q[j - Len(p)] + k
      BY <2>2
    <3>2. p[i] \in 1..k /\ q[j - Len(p)] \in 1..Len(t)
      BY <2>2, <1>7, <1>8, <1>3
    <3> QED BY <3>1, <3>2, <1>1
  <2>3. CASE ~(i <= Len(p)) /\ ~(j <= Len(p))
    <3> DEFINE a == i - Len(p)  b == j - Len(p)
    <3>1. r[i] = q[a] + k /\ r[j] = q[b] + k
      BY <2>3
    <3>2. a \in 1..Len(q) /\ b \in 1..Len(q) /\ a < b
      BY <2>3, <1>7, <1>8
    <3>3. q[a] < q[b] /\ q[a] \in Nat /\ q[b] \in Nat
      BY <3>2, <1>5, <1>7, <1>2
    <3> HIDE DEF a, b
    <3> QED BY <3>1, <3>3, <1>1
  <2> QED BY <2>1, <2>2, <2>3, <1>7
<1>11. \A n \in C : \E i \in 1..Len(r) : r[i] = n
  <2> SUFFICES ASSUME NEW n \in C PROVE \E i \in 1..(Len(p) + Len(q)) : r[i] = n
    BY <1>9
  <2>1. CASE n \in 1..k
    <3>1. PICK i \in 1..Len(p) : p[i] = n
      BY <2>1, <1>3, <1>4
    <3>2. i \in 1..(Len(p) + Len(q)) /\ r[i] = n
      BY <3>1, <1>7
    <3> QED BY <3>2
  <2>2. CASE n - k \in 1..Len(t)
    <3>1. n \in Nat /\ (n - k) + k = n
      BY <1>1, <1>2
    <3>2. n - k \in B
      BY <2>2, <3>1, <1>3
    <3>3. PICK i \in 1..Len(q) : q[i] = n - k
      BY <3>2, <1>5
    <3>4. i + Len(p) \in 1..(Len(p) + Len(q)) /\ ~(i + Len(p) <= Len(p))
          /\ (i + Len(p)) - Len(p) = i
      BY <1>7
    <3>5. r[i + Len(p)] = n
      BY <3>1, <3>3, <3>4
    <3> QED BY <3>4, <3>5
  <2> QED BY <2>1, <2>2, <1>3
<1>12. r = Ascending(C)
  <2> HIDE DEF r
  <2> QED BY <1>2, <1>9, <1>10, <1>11, AscendingIsUnique
<1>13. Without(s \o t, S) = [i \in 1..(Len(p) + Len(q)) |-> (s \o t)[r[i]]]
  BY <1>6, <1>9, <1>12
<1>14. Without(s, S) \in Seq(T) /\ Len(Without(s, S)) = Len(p)
       /\ Without(t, S) \in Seq(T) /\ Len(Without(t, S)) = Len(q)
  <2>1. \A i \in 1..Len(p) : s[p[i]] \in T
    BY <1>1, <1>3, <1>7
  <2>2. \A i \in 1..Len(q) : t[q[i]] \in T
    BY <1>1, <1>3, <1>7
  <2> QED BY <2>1, <2>2, <1>6, <1>7
<1>15. ASSUME NEW i \in 1..(Len(p) + Len(q))
       PROVE  (s \o t)[r[i]] = (Without(s, S) \o Without(t, S))[i]
  <2>1. CASE i <= Len(p)
    <3>1. r[i] = p[i] /\ i \in 1..Len(p) /\ p[i] \in 1..k
      BY <2>1, <1>7, <1>3
    <3>2. (Without(s, S) \o Without(t, S))[i] = Without(s, S)[i]
      BY <3>1, <1>14, <1>7, ConcatProperties
    <3> HIDE DEF r
    <3> QED BY <3>1, <3>2, <1>1, <1>6, <1>7
  <2>2. CASE ~(i <= Len(p))
    <3>1. r[i] = q[i - Len(p)] + k /\ i - Len(p) \in 1..Len(q) /\ q[i - Len(p)] \in 1..Len(t)
      BY <2>2, <1>7, <1>8, <1>3
    <3>2. (Without(s, S) \o Without(t, S))[i] = Without(t, S)[i - Len(p)]
      BY <2>2, <1>14, <1>7, ConcatProperties
    <3> HIDE DEF r
    <3> QED BY <3>1, <3>2, <1>1, <1>6, <1>7
  <2> QED BY <2>1, <2>2
<1>16. Without(s, S) \o Without(t, S) \in Seq(T)
       /\ Len(Without(s, S) \o Without(t, S)) = Len(p) + Len(q)
  BY <1>14, ConcatProperties
<1> HIDE DEF r
<1>17. Without(s, S) \o Without(t, S)
         = [i \in 1..(Len(p) + Len(q)) |-> (Without(s, S) \o Without(t, S))[i]]
  <2> DEFINE w == Without(s, S) \o Without(t, S)
  <2>1. w \in Seq(T) /\ Len(w) = Len(p) + Len(q)
    BY <1>16
  <2> HIDE DEF w
  <2>2. w = [i \in 1..(Len(p) + Len(q)) |-> w[i]]
    BY <2>1
  <2> QED BY <2>2 DEF w
<1> QED BY <1>13, <1>15, <1>17

\* Induction up to n, over a set.
LEMMA Climb ==
    ASSUME NEW n \in Nat, NEW Q, 0 \in Q, \A k \in 0..n : k < n /\ k \in Q => k + 1 \in Q
    PROVE  \A k \in 0..n : k \in Q
<1> DEFINE P == { m \in 0..n : \A k \in 0..m : k \in Q }
           top == Largest(P)
<1>1. P \in SUBSET Nat /\ P \in SUBSET (0..n) /\ 0 \in P
  OBVIOUS
<1>2. IsFiniteSet(P)
  <2>1. IsFiniteSet(0..n)
    BY FS_Interval
  <2> QED BY <2>1, <1>1, FS_Subset
<1>3. top \in P /\ \A m \in P : m <= top
  <2> HIDE DEF P
  <2> QED BY <1>1, <1>2, LargestIsGreatest
<1> HIDE DEF top
<1>4. CASE top = n
  BY <1>3, <1>4
<1>5. CASE top # n
  <2>1. top \in 0..n /\ top < n /\ top \in Q /\ \A k \in 0..top : k \in Q
    BY <1>3, <1>5
  <2>2. top + 1 \in Q
    BY <2>1
  <2>3. \A k \in 0..(top + 1) : k \in 0..top \/ k = top + 1
    BY <2>1
  <2>4. top + 1 \in P
    BY <2>1, <2>2, <2>3
  <2> QED BY <2>4, <2>1, <1>3
<1> QED BY <1>4, <1>5
=============================================================================
