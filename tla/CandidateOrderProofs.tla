------------------------ MODULE CandidateOrderProofs ------------------------
(***************************************************************************)
(* The orders the candidate store goes by: the keys of a bucket in byte    *)
(* order, a list some entries are deleted from, and the turns of staged    *)
(* and postponed work when free places go out.                             *)
(***************************************************************************)
EXTENDS CandidateStore, FiniteSetTheorems, TLAPS

Distinct(s) == \A i, j \in DOMAIN s : s[i] = s[j] => i = j

-----------------------------------------------------------------------------
(* Order.  The place of a member is the number of members up to it.        *)

UpTo(f, x) == {y \in DOMAIN f : f[y] <= f[x]}

LEMMA Counting == \A n \in Nat : IsFiniteSet(1 .. n) /\ Cardinality(1 .. n) = n
BY FS_Interval

LEMMA Places ==
  ASSUME NEW W, IsFiniteSet(W), NEW f \in [W -> Int],
         \A x, y \in W : f[x] = f[y] => x = y
  PROVE  /\ \A x \in W : Cardinality(UpTo(f, x)) \in 1 .. Cardinality(W)
         /\ \A x, y \in W : f[x] < f[y] => Cardinality(UpTo(f, x)) < Cardinality(UpTo(f, y))
         /\ \A k \in 1 .. Cardinality(W) : \E x \in W : Cardinality(UpTo(f, x)) = k
<1> DEFINE n == Cardinality(W)
           g == [x \in W |-> Cardinality(UpTo(f, x))]
<1>1. n \in Nat
  BY FS_CardinalityType
<1>2. ASSUME NEW x \in W
      PROVE  /\ UpTo(f, x) \in SUBSET W /\ x \in UpTo(f, x)
             /\ IsFiniteSet(UpTo(f, x)) /\ Cardinality(UpTo(f, x)) \in 1 .. n
  <2>1. UpTo(f, x) \in SUBSET W /\ x \in UpTo(f, x)
    BY DEF UpTo
  <2>2. IsFiniteSet(UpTo(f, x)) /\ Cardinality(UpTo(f, x)) <= n
    BY <2>1, FS_Subset
  <2>3. Cardinality(UpTo(f, x)) \in Nat /\ Cardinality(UpTo(f, x)) # 0
    BY <2>1, <2>2, FS_CardinalityType, FS_EmptySet
  <2>4. QED
    BY <2>1, <2>2, <2>3
<1>3. ASSUME NEW x \in W, NEW y \in W, f[x] < f[y]
      PROVE  Cardinality(UpTo(f, x)) < Cardinality(UpTo(f, y))
  BY <1>1, <1>2, <1>3, FS_Subset DEF UpTo
<1>4. g \in [W -> 1 .. n]
  BY <1>2
<1>5. ASSUME NEW x \in W, NEW y \in W, g[x] = g[y]
      PROVE  x = y
  BY <1>3, <1>4, <1>5
<1>6. IsFiniteSet(1 .. n) /\ Cardinality(1 .. n) = n
  BY <1>1, FS_Interval
<1>7. g \in Injection(W, 1 .. n)
  BY <1>4, <1>5 DEF Injection, IsInjective
<1>8. g \in Surjection(W, 1 .. n)
  BY <1>6, <1>7, FS_Injection
<1>9. \A k \in 1 .. n : \E x \in W : g[x] = k
  BY <1>8, Zenon DEF Surjection
<1>10. QED
  BY <1>2, <1>3, <1>9

\* The first n members in the order of f.
LEMMA Sorted ==
  ASSUME NEW W, IsFiniteSet(W), NEW f \in [W -> Int],
         \A x, y \in W : f[x] = f[y] => x = y,
         NEW n \in Nat, NEW p \in [1 .. n -> W],
         \A k \in 1 .. n : Cardinality(UpTo(f, p[k])) = k
  PROVE  /\ p \in Seq(W) /\ Len(p) = n
         /\ Distinct(p)
         /\ \A x \in W : x \in Range(p) <=> Cardinality(UpTo(f, x)) <= n
<1>1. Cardinality(W) \in Nat
  BY FS_CardinalityType
<1>2. \A k \in 1 .. n : p[k] \in W /\ Cardinality(UpTo(f, p[k])) = k
  OBVIOUS
<1>3. p \in Seq(W) /\ Len(p) = n /\ DOMAIN p = 1 .. n
  OBVIOUS
<1>4. Distinct(p)
  BY <1>3 DEF Distinct
<1>5. ASSUME NEW x \in W
      PROVE  x \in Range(p) <=> Cardinality(UpTo(f, x)) <= n
  <2>1. Cardinality(UpTo(f, x)) \in 1 .. Cardinality(W)
    BY Places
  <2>2. ASSUME x \in Range(p) PROVE Cardinality(UpTo(f, x)) <= n
    BY <1>3, <2>2 DEF Range
  <2>3. ASSUME Cardinality(UpTo(f, x)) <= n PROVE x \in Range(p)
    <3> DEFINE k == Cardinality(UpTo(f, x))
    <3>1. k \in 1 .. n
      BY <2>1, <2>3
    <3>2. p[k] \in W /\ Cardinality(UpTo(f, p[k])) = Cardinality(UpTo(f, x))
      BY <3>1
    <3>3. f[p[k]] \in Int /\ f[x] \in Int
      BY <3>2
    <3>4. ~ (f[p[k]] < f[x]) /\ ~ (f[x] < f[p[k]])
      <4>1. \A y, z \in W : f[y] < f[z] => Cardinality(UpTo(f, y)) < Cardinality(UpTo(f, z))
        BY Places
      <4>2. Cardinality(UpTo(f, x)) \in Int
        BY <2>1
      <4> HIDE DEF k
      <4>3. QED
        BY <3>2, <4>1, <4>2
    <3>5. p[k] = x
      BY <3>2, <3>3, <3>4
    <3>6. QED
      BY <3>1, <3>5 DEF Range
  <2>4. QED
    BY <2>2, <2>3
<1>6. QED
  BY <1>3, <1>4, <1>5

LEMMA Ranks ==
  ASSUME NEW S \in SUBSET Int, IsFiniteSet(S)
  PROVE  /\ \A x \in S : Rank(x, S) \in 1 .. Cardinality(S)
         /\ \A x, y \in S : x < y => Rank(x, S) < Rank(y, S)
         /\ \A k \in 1 .. Cardinality(S) : \E x \in S : Rank(x, S) = k
<1> DEFINE f == [x \in S |-> x]
<1>1. f \in [S -> Int] /\ \A x \in S : f[x] = x
  OBVIOUS
<1>2. \A x \in S : Rank(x, S) = Cardinality(UpTo(f, x))
  BY Zenon DEF Rank, UpTo
<1> HIDE DEF f
<1>3. \A x, y \in S : f[x] = f[y] => x = y
  BY <1>1
<1>4. /\ \A x \in S : Cardinality(UpTo(f, x)) \in 1 .. Cardinality(S)
      /\ \A x, y \in S : f[x] < f[y] => Cardinality(UpTo(f, x)) < Cardinality(UpTo(f, y))
      /\ \A k \in 1 .. Cardinality(S) : \E x \in S : Cardinality(UpTo(f, x)) = k
  BY <1>1, <1>3, Places, Zenon
<1>5. QED
  BY <1>1, <1>2, <1>4

-----------------------------------------------------------------------------
(* Deleting from a list.                                                   *)

LEMMA WithoutFacts ==
  ASSUME NEW T, NEW list \in Seq(T), NEW S
  PROVE  /\ Without(list, S) \in Seq(T) /\ Len(Without(list, S)) <= Len(list)
         /\ Range(Without(list, S)) = Range(list) \ S
         /\ Distinct(list) => Distinct(Without(list, S))
         /\ Range(list) \cap S # {} => Len(Without(list, S)) < Len(list)
<1> DEFINE kept == {i \in DOMAIN list : list[i] \notin S}
           f == [i \in kept |-> i]
           n == Cardinality(kept)
           p == [k \in 1 .. n |-> CHOOSE i \in kept : Cardinality(UpTo(f, i)) = k]
           w == Without(list, S)
<1>1. DOMAIN list = 1 .. Len(list) /\ Len(list) \in Nat /\ \A i \in DOMAIN list : list[i] \in T
  OBVIOUS
<1>2. IsFiniteSet(DOMAIN list) /\ Cardinality(DOMAIN list) = Len(list)
  BY <1>1, Counting, Zenon
<1>3. kept \in SUBSET DOMAIN list /\ kept \subseteq Int
  OBVIOUS
<1>4. IsFiniteSet(kept) /\ n <= Len(list) /\ (n = Len(list) => kept = DOMAIN list) /\ n \in Nat
  <2>1. /\ IsFiniteSet(kept) /\ n <= Cardinality(DOMAIN list)
        /\ n = Cardinality(DOMAIN list) => kept = DOMAIN list
    BY <1>2, <1>3, FS_Subset, Zenon
  <2>2. n \in Nat
    BY <2>1, FS_CardinalityType, Zenon
  <2>3. QED
    BY <1>2, <2>1, <2>2, Zenon
<1>5. f \in [kept -> Int] /\ \A i \in kept : f[i] = i
  OBVIOUS
<1>6. \A i \in kept : Rank(i, kept) = Cardinality(UpTo(f, i))
  BY Zenon DEF Rank, UpTo
<1>7. w = [k \in 1 .. n |-> list[CHOOSE i \in kept : Rank(i, kept) = k]]
  BY DEF Without
<1>8. ASSUME NEW k \in 1 .. n
      PROVE  (CHOOSE i \in kept : Rank(i, kept) = k) = p[k]
  BY <1>6
<1>9. \A i, j \in kept : f[i] = f[j] => i = j
  OBVIOUS
<1>10. w = [k \in 1 .. n |-> list[p[k]]]
  BY <1>7, <1>8, Zenon
<1>11. \A k \in 1 .. n : \E i \in kept : Cardinality(UpTo(f, i)) = k
  <2> HIDE DEF kept, f
  <2>1. QED
    BY <1>4, <1>5, <1>9, Places
<1>12. /\ DOMAIN p = 1 .. n /\ p \in [1 .. n -> kept]
       /\ \A k \in 1 .. n : Cardinality(UpTo(f, p[k])) = k
  <2> HIDE DEF kept, f, n
  <2>1. QED
    BY <1>11
<1> HIDE DEF kept, f, n, w, p
<1>13. Distinct(p) /\ \A i \in kept : i \in Range(p)
  <2>1. \A i \in kept : Cardinality(UpTo(f, i)) \in 1 .. Cardinality(kept)
    BY <1>4, <1>5, <1>9, Places
  <2>2. Distinct(p) /\ \A i \in kept : i \in Range(p) <=> Cardinality(UpTo(f, i)) <= n
    BY <1>4, <1>5, <1>9, <1>12, Sorted
  <2>3. QED
    BY <2>1, <2>2 DEF n
<1>14. w \in Seq(T) /\ Len(w) = n /\ DOMAIN w = 1 .. n
  <2>1. \A k \in 1 .. n : list[p[k]] \in T
    BY <1>3, <1>12
  <2>2. QED
    BY <1>4, <1>10, <2>1
<1>15. Range(w) = Range(list) \ S
  BY <1>10, <1>12, <1>13, <1>14 DEF Range, kept
<1>16. ASSUME Distinct(list) PROVE Distinct(w)
  <2>1. SUFFICES ASSUME NEW i \in 1 .. n, NEW j \in 1 .. n, w[i] = w[j] PROVE i = j
    BY <1>14 DEF Distinct
  <2>2. list[p[i]] = list[p[j]] /\ p[i] \in DOMAIN list /\ p[j] \in DOMAIN list
    BY <1>3, <1>10, <1>12, <2>1
  <2>3. p[i] = p[j]
    BY <1>16, <2>2 DEF Distinct
  <2>4. QED
    BY <1>12, <1>13, <2>3 DEF Distinct
<1>17. ASSUME Range(list) \cap S # {} PROVE n < Len(list)
  <2>1. kept # DOMAIN list
    BY <1>17 DEF Range, kept
  <2>2. n # Len(list) /\ n <= Len(list) /\ n \in Nat /\ Len(list) \in Nat
    BY <1>1, <1>4, <2>1, Zenon
  <2>3. QED
    BY <2>2
<1>18. QED
  BY <1>4, <1>14, <1>15, <1>16, <1>17 DEF w

LEMMA Maximum ==
  ASSUME NEW S \in SUBSET Int, IsFiniteSet(S), S # {}
  PROVE  Max(S) \in S /\ \A y \in S : Max(S) >= y
<1>1. Cardinality(S) \in Nat /\ Cardinality(S) # 0
  BY FS_CardinalityType, FS_EmptySet
<1>2. PICK x \in S : Rank(x, S) = Cardinality(S)
  BY <1>1, Ranks
<1>3. {y \in S : y <= x} = S
  BY <1>2, FS_Subset DEF Rank
<1>4. \A y \in S : x >= y
  BY <1>3
<1>5. QED
  BY <1>4, Zenon DEF Max

LEMMA Minimum ==
  ASSUME NEW a \in Int, NEW b \in Int
  PROVE  Min({a, b}) = IF a <= b THEN a ELSE b
BY DEF Min

-----------------------------------------------------------------------------
(* The constants.                                                          *)

LEMMA Given ==
  /\ Candidates \subseteq Nat /\ Candidates \subseteq Int /\ IsFiniteSet(Candidates)
  /\ NoBlock \notin Blocks
  /\ \A b \in Blocks : Number[b] \in Nat /\ Number[b] > 0
  /\ \A c \in Candidates : Info[c].token \in Nat
  /\ \A c \in Candidates : Indexed(c) => Info[c].block \in Blocks /\ Height(c) = Number[Info[c].block]
BY StoreConstants DEF Indexed, Height

LEMMA Limits ==
  /\ MaxPending \in Nat /\ JournalCapacity \in Nat /\ MaxDiscovered \in Nat
  /\ TombstoneLimit \in Nat /\ CanonicalBlockLimit \in Nat /\ UnconfirmedBlockLimit \in Nat
  /\ MaxPending > 0 /\ JournalCapacity > 0 /\ MaxDiscovered > 0
  /\ TombstoneLimit > 0 /\ CanonicalBlockLimit > 0 /\ UnconfirmedBlockLimit > 0
BY StoreConstants

LEMMA FiniteCandidates ==
  ASSUME NEW S \in SUBSET Candidates
  PROVE  IsFiniteSet(S) /\ Cardinality(S) \in Nat /\ S \subseteq Int
BY Given, FS_Subset, FS_CardinalityType, Zenon

-----------------------------------------------------------------------------
(* Two kinds of work take turns: those of S have the slots of parity e.    *)

Zipped(f, S, T, e) ==
  /\ S \subseteq Candidates /\ T \subseteq Candidates /\ S \cap T = {} /\ e \in {0, 1}
  /\ f \in [S \cup T -> Int]
  /\ \A c \in S : f[c] = 2 * Rank(c, S) + e
  /\ \A c \in T : f[c] = 2 * Rank(c, T) + (1 - e)

LEMMA ZipInjective ==
  ASSUME NEW S, NEW T, NEW e, NEW f, Zipped(f, S, T, e)
  PROVE  /\ \A c \in S : Rank(c, S) \in Nat /\ Rank(c, S) >= 1
         /\ \A c \in T : Rank(c, T) \in Nat /\ Rank(c, T) >= 1
         /\ \A x, y \in S \cup T : f[x] = f[y] => x = y
<1>0. S \in SUBSET Candidates /\ T \in SUBSET Candidates /\ S \cap T = {} /\ e \in {0, 1}
  BY DEF Zipped
<1> USE <1>0
<1>1. ASSUME NEW K \in SUBSET Candidates
      PROVE  /\ \A c \in K : Rank(c, K) \in Nat /\ Rank(c, K) >= 1
             /\ \A x, y \in K : Rank(x, K) = Rank(y, K) => x = y
  BY FiniteCandidates, Ranks
<1>2. /\ \A c \in S : Rank(c, S) \in Nat /\ Rank(c, S) >= 1
      /\ \A c \in T : Rank(c, T) \in Nat /\ Rank(c, T) >= 1
  BY <1>1
<1>3. ASSUME NEW x \in S, NEW y \in S, f[x] = f[y] PROVE x = y
  BY <1>1, <1>2, <1>3 DEF Zipped
<1>4. ASSUME NEW x \in T, NEW y \in T, f[x] = f[y] PROVE x = y
  BY <1>1, <1>2, <1>4 DEF Zipped
<1>5. ASSUME NEW x \in S, NEW y \in T PROVE f[x] # f[y]
  BY <1>2 DEF Zipped
<1>6. QED
  BY <1>2, <1>3, <1>4, <1>5

\* While some of S is not yet reached, one of T is where its slot says.
LEMMA ZipPlace ==
  ASSUME NEW S, NEW T, NEW e, NEW f, Zipped(f, S, T, e),
         NEW x \in T, NEW s \in S, f[x] < f[s]
  PROVE  Cardinality(UpTo(f, x)) = f[x] - 1
<1>0. S \in SUBSET Candidates /\ T \in SUBSET Candidates /\ S \cap T = {} /\ e \in {0, 1}
  BY DEF Zipped
<1> USE <1>0
<1> DEFINE r == [y \in UpTo(f, x) |-> f[y]]
<1>1. /\ f \in [S \cup T -> Int]
      /\ \A c \in S : f[c] = 2 * Rank(c, S) + e
      /\ \A c \in T : f[c] = 2 * Rank(c, T) + (1 - e)
  BY DEF Zipped
<1>2. /\ \A c \in S : Rank(c, S) \in Nat /\ Rank(c, S) >= 1
      /\ \A c \in T : Rank(c, T) \in Nat /\ Rank(c, T) >= 1
      /\ \A y, z \in S \cup T : f[y] = f[z] => y = z
  BY ZipInjective
<1>3. ASSUME NEW y \in UpTo(f, x)
      PROVE  y \in S \cup T /\ f[y] \in 2 .. f[x]
  BY <1>1, <1>2 DEF UpTo
<1>4. ASSUME NEW v \in 2 .. f[x]
      PROVE  \E y \in UpTo(f, x) : f[y] = v
  <2>1. f[x] \in Int /\ f[s] \in Int /\ v \in Int /\ v <= f[x] /\ v >= 2
    BY <1>1
  <2>2. PICK j \in Int : v = 2 * j + e \/ v = 2 * j + (1 - e)
    <3>1. PICK k \in Int : v = 2 * k \/ v = 2 * k + 1
      BY v = 2 * (v \div 2) \/ v = 2 * (v \div 2) + 1
    <3>2. QED
      BY <3>1
  <2>3. ASSUME NEW K \in SUBSET Candidates, NEW z \in K, NEW i \in Int, i >= 1, i <= Rank(z, K)
        PROVE  \E y \in K : Rank(y, K) = i
    BY <2>3, FiniteCandidates, Ranks
  <2>4. CASE v = 2 * j + e
    <3>1. j >= 1 /\ j <= Rank(s, S)
      BY <1>1, <1>2, <2>1, <2>4
    <3>2. PICK y \in S : Rank(y, S) = j
      BY <2>3, <3>1
    <3>3. f[y] = v
      BY <1>1, <2>4, <3>2
    <3>4. QED
      BY <1>1, <2>1, <3>3 DEF UpTo
  <2>5. CASE v = 2 * j + (1 - e)
    <3>1. j >= 1 /\ j <= Rank(x, T)
      BY <1>1, <1>2, <2>1, <2>5
    <3>2. PICK y \in T : Rank(y, T) = j
      BY <2>3, <3>1
    <3>3. f[y] = v
      BY <1>1, <2>5, <3>2
    <3>4. QED
      BY <1>1, <2>1, <3>3 DEF UpTo
  <2>6. QED
    BY <2>2, <2>4, <2>5
<1>5. r \in Bijection(UpTo(f, x), 2 .. f[x])
  <2>1. r \in [UpTo(f, x) -> 2 .. f[x]]
    BY <1>3
  <2>2. \A y, z \in UpTo(f, x) : r[y] = r[z] => y = z
    BY <1>2, <1>3
  <2>3. \A v \in 2 .. f[x] : \E y \in UpTo(f, x) : r[y] = v
    BY <1>4
  <2> HIDE DEF r
  <2>4. QED
    BY <2>1, <2>2, <2>3 DEF Bijection, Injection, Surjection, IsInjective
<1>6. IsFiniteSet(UpTo(f, x))
  BY <1>3, FiniteCandidates
<1>7. Cardinality(2 .. f[x]) = Cardinality(UpTo(f, x))
  BY <1>5, <1>6, FS_Bijection DEF ExistsBijection
<1>8. f[x] \in Int /\ f[x] >= 2
  BY <1>1, <1>2
<1>9. QED
  BY <1>7, <1>8, FS_Interval

LEMMA Parity ==
  ASSUME NEW m \in Int, NEW e \in Int, NEW r \in Int, NEW q \in Int,
         m + 1 = 2 * r - e, m + 2 = 2 * q - e
  PROVE  FALSE
OBVIOUS

\* While one kind waits, the other gets one place at most, and then it is the turn of
\* the first.
LEMMA Waits ==
  ASSUME NEW S, NEW T, NEW e, NEW f, Zipped(f, S, T, e), NEW p \in Seq(S \cup T),
         \A k \in 1 .. Len(p) : Cardinality(UpTo(f, p[k])) = k,
         \A x \in S \cup T : x \in Range(p) <=> Cardinality(UpTo(f, x)) <= Len(p),
         NEW before \in 0 .. 1, before = 1 => e = 0
  PROVE  /\ WaitedOn(S, before, p) \in 0 .. 1
         /\ WaitedOn(S, before, p) = 1 => Len(p) % 2 = e
<1>0. S \in SUBSET Candidates /\ T \in SUBSET Candidates /\ S \cap T = {} /\ e \in {0, 1}
  BY DEF Zipped
<1> USE <1>0
<1> DEFINE own == {k \in DOMAIN p : p[k] \in S}
           n == Len(p)
<1>1. n \in Nat /\ DOMAIN p = 1 .. n /\ \A k \in 1 .. n : p[k] \in S \cup T
  OBVIOUS
<1>2. CASE S \subseteq Range(p)
  BY <1>2 DEF WaitedOn
<1>3. CASE ~ (S \subseteq Range(p))
  <2>1. PICK s \in S : s \notin Range(p)
    BY <1>3
  <2>2. /\ f \in [S \cup T -> Int]
        /\ \A c \in T : f[c] = 2 * Rank(c, T) + (1 - e)
        /\ \A c \in T : Rank(c, T) \in Nat /\ Rank(c, T) >= 1
        /\ \A x, y \in S \cup T : f[x] = f[y] => x = y
    <3>1. /\ \A c \in T : Rank(c, T) \in Nat /\ Rank(c, T) >= 1
          /\ \A x, y \in S \cup T : f[x] = f[y] => x = y
      BY ZipInjective
    <3>2. QED
      BY <3>1 DEF Zipped
  <2>3. \A x, y \in S \cup T : f[x] < f[y] => Cardinality(UpTo(f, x)) < Cardinality(UpTo(f, y))
    BY <2>2, FiniteCandidates, Places, Zenon
  <2>4. ASSUME NEW k \in 1 .. n, p[k] \in T
        PROVE  \E r \in Nat : r >= 1 /\ k = 2 * r - e
    <3> DEFINE x == p[k]
    <3>1. x \in Range(p) /\ x \in T /\ Cardinality(UpTo(f, x)) = k
      BY <2>4 DEF Range
    <3> HIDE DEF x
    <3>2. ~ (Cardinality(UpTo(f, s)) <= n)
      BY <2>1
    <3>3. f[x] \in Int /\ f[s] \in Int /\ s # x
      BY <2>2, <3>1
    <3>4. ~ (f[s] < f[x])
      <4>1. CASE f[s] < f[x]
        <5>1. Cardinality(UpTo(f, s)) < k
          BY <2>3, <3>1, <4>1
        <5>2. S \cup T \in SUBSET Candidates /\ UpTo(f, s) \in SUBSET (S \cup T)
          BY <2>2 DEF UpTo
        <5>3. Cardinality(UpTo(f, s)) \in Nat
          BY <5>2, FiniteCandidates
        <5>4. QED
          BY <3>2, <5>1, <5>3
      <4>2. QED
        BY <4>1
    <3>5. f[x] < f[s]
      BY <2>2, <3>1, <3>3, <3>4
    <3>6. k = f[x] - 1
      BY <3>1, <3>5, ZipPlace
    <3>7. Rank(x, T) \in Nat /\ Rank(x, T) >= 1 /\ f[x] = 2 * Rank(x, T) + (1 - e)
      BY <2>2, <3>1
    <3>8. k = 2 * Rank(x, T) - e
      BY <3>6, <3>7
    <3>9. QED
      BY <3>7, <3>8
  <2>5. CASE own = {}
    <3>1. WaitedOn(S, before, p) = before + n
      BY <1>3, <2>5 DEF WaitedOn
    <3>2. \A k \in 1 .. n : p[k] \in T
      BY <2>5
    <3>3. CASE n = 0
      BY <3>1, <3>3
    <3>4. CASE n >= 1
      <4>1. PICK r \in Nat : r >= 1 /\ 1 = 2 * r - e
        BY <2>4, <3>2, <3>4
      <4>2. e = 1 /\ before = 0
        BY <4>1
      <4>3. ~ (n >= 2)
        BY <2>4, <3>2, <4>2
      <4>4. n = 1
        BY <1>1, <3>4, <4>3
      <4>5. QED
        BY <3>1, <4>2, <4>4
    <3>5. QED
      BY <3>3, <3>4
  <2>6. CASE own # {}
    <3> DEFINE m == Max(own)
    <3>1. WaitedOn(S, before, p) = n - m
      BY <1>3, <2>6 DEF WaitedOn
    <3>2. own \in SUBSET Int /\ IsFiniteSet(own)
      <4>1. own \in SUBSET (1 .. n) /\ IsFiniteSet(1 .. n)
        BY <1>1, FS_Interval
      <4>2. QED
        BY <4>1, FS_Subset
    <3>3. m \in 1 .. n /\ \A k \in 1 .. n : k > m => p[k] \in T
      <4> HIDE DEF own
      <4>1. m \in own /\ \A k \in own : m >= k
        BY <2>6, <3>2, Maximum
      <4> HIDE DEF m, n
      <4>2. \A k : k \in own <=> k \in 1 .. n /\ p[k] \in S
        BY <1>1 DEF own
      <4>3. QED
        BY <1>1, <4>1, <4>2
    <3> HIDE DEF m, n
    <3>4. CASE n = m
      BY <1>1, <3>1, <3>4
    <3>5. CASE n > m
      <4>0. m + 1 \in 1 .. n /\ p[m + 1] \in T
        BY <1>1, <3>3, <3>5
      <4>1. PICK r \in Nat : r >= 1 /\ m + 1 = 2 * r - e
        BY <2>4, <4>0, Zenon
      <4>2. ~ (n >= m + 2)
        <5>1. CASE n >= m + 2
          <6>0. m + 2 \in 1 .. n /\ p[m + 2] \in T
            BY <3>3, <5>1
          <6>1. PICK q \in Nat : q >= 1 /\ m + 2 = 2 * q - e
            BY <2>4, <6>0, Zenon
          <6>2. m \in Int /\ e \in Int
            BY <3>3
          <6>3. QED
            BY <4>1, <6>1, <6>2, Parity
        <5>2. QED
          BY <5>1
      <4>3. n = m + 1
        BY <1>1, <3>3, <3>5, <4>2
      <4>4. n % 2 = e
        BY <4>1, <4>3
      <4>5. QED
        BY <3>1, <3>3, <4>3, <4>4 DEF n
    <3>6. QED
      BY <1>1, <3>3, <3>4, <3>5
  <2>7. QED
    BY <2>5, <2>6
<1>4. QED
  BY <1>2, <1>3

-----------------------------------------------------------------------------
(* Promotion.                                                              *)

SlotMap(A, B, turn) == [c \in A \cup B |-> Slot(c, A, B, turn)]

LEMMA SlotsZip ==
  ASSUME NEW A \in SUBSET Candidates, NEW B \in SUBSET Candidates, A \cap B = {},
         NEW turn \in BOOLEAN
  PROVE  /\ Zipped(SlotMap(A, B, turn), A, B, IF turn THEN 1 ELSE 0)
         /\ Zipped(SlotMap(A, B, turn), B, A, IF turn THEN 0 ELSE 1)
<1>1. \A c \in A : Rank(c, A) \in Int
  BY FiniteCandidates, Ranks
<1>2. \A c \in B : Rank(c, B) \in Int
  BY FiniteCandidates, Ranks
<1>0. A \cup B = B \cup A
  OBVIOUS
<1> DEFINE f == SlotMap(A, B, turn)
<1>3. CASE turn = TRUE
  <2>1. ASSUME NEW c \in A PROVE f[c] = 2 * Rank(c, A) + 1
    BY <1>3 DEF SlotMap, Slot
  <2>2. ASSUME NEW c \in B PROVE f[c] = 2 * Rank(c, B)
    BY <1>2, <1>3 DEF SlotMap, Slot
  <2>3. f \in [A \cup B -> Int] /\ f \in [B \cup A -> Int]
    <3>1. DOMAIN f = A \cup B /\ f = [c \in A \cup B |-> f[c]]
      BY DEF SlotMap
    <3>2. \A c \in A \cup B : f[c] \in Int
      BY <1>1, <1>2, <2>1, <2>2
    <3> HIDE DEF f
    <3>3. QED
      BY <3>1, <3>2
  <2> HIDE DEF f
  <2>4. Zipped(f, A, B, 1)
    BY <1>2, <2>1, <2>2, <2>3 DEF Zipped
  <2>5. Zipped(f, B, A, 0)
    BY <1>2, <2>1, <2>2, <2>3 DEF Zipped
  <2>6. QED
    BY <1>3, <2>4, <2>5, Zenon DEF f
<1>4. CASE turn = FALSE
  <2>1. ASSUME NEW c \in A PROVE f[c] = 2 * Rank(c, A)
    BY <1>1, <1>4 DEF SlotMap, Slot
  <2>2. ASSUME NEW c \in B PROVE f[c] = 2 * Rank(c, B) + 1
    BY <1>4 DEF SlotMap, Slot
  <2>3. f \in [A \cup B -> Int] /\ f \in [B \cup A -> Int]
    <3>1. DOMAIN f = A \cup B /\ f = [c \in A \cup B |-> f[c]]
      BY DEF SlotMap
    <3>2. \A c \in A \cup B : f[c] \in Int
      BY <1>1, <1>2, <2>1, <2>2
    <3> HIDE DEF f
    <3>3. QED
      BY <3>1, <3>2
  <2> HIDE DEF f
  <2>4. Zipped(f, A, B, 0)
    BY <1>2, <2>1, <2>2, <2>3 DEF Zipped
  <2>5. Zipped(f, B, A, 1)
    BY <1>2, <2>1, <2>2, <2>3 DEF Zipped
  <2>6. QED
    BY <1>4, <2>4, <2>5 DEF f
<1>5. QED
  BY <1>3, <1>4, Zenon

LEMMA PromotionFacts ==
  ASSUME NEW A \in SUBSET Candidates, NEW B \in SUBSET Candidates, A \cap B = {},
         NEW turn \in BOOLEAN, NEW free \in Nat
  PROVE  LET f == SlotMap(A, B, turn)
             p == Promotions(free, A, B, turn)
         IN  /\ p \in Seq(A \cup B) /\ Len(p) <= free /\ Distinct(p)
             /\ \A k \in 1 .. Len(p) : Cardinality(UpTo(f, p[k])) = k
             /\ \A x \in A \cup B : x \in Range(p) <=> Cardinality(UpTo(f, x)) <= Len(p)
<1> DEFINE W == A \cup B
           f == SlotMap(A, B, turn)
           n == Min({free, Cardinality(W)})
           p == Promotions(free, A, B, turn)
<1>1. W \in SUBSET Candidates /\ IsFiniteSet(W) /\ Cardinality(W) \in Nat
  BY FiniteCandidates
<1>2. n \in Nat /\ n <= free /\ n <= Cardinality(W)
  <2>1. n = IF free <= Cardinality(W) THEN free ELSE Cardinality(W)
    BY <1>1, Minimum
  <2> HIDE DEF n
  <2>2. QED
    BY <1>1, <2>1
<1>3. f \in [W -> Int] /\ \A x, y \in W : f[x] = f[y] => x = y
  <2> DEFINE e == IF turn THEN 1 ELSE 0
  <2>1. Zipped(f, A, B, e)
    BY SlotsZip
  <2>2. e \in {0, 1}
    OBVIOUS
  <2> HIDE DEF f, e
  <2>3. \A x, y \in A \cup B : f[x] = f[y] => x = y
    BY <2>1, <2>2, ZipInjective
  <2>4. QED
    BY <2>1, <2>3 DEF Zipped
<1>4. \A c \in W : Cardinality(UpTo(f, c)) =
        Cardinality({x \in W : Slot(x, A, B, turn) <= Slot(c, A, B, turn)})
  <2>1. \A c \in W : f[c] = Slot(c, A, B, turn)
    BY DEF SlotMap
  <2>2. DOMAIN f = W
    BY DEF SlotMap
  <2> HIDE DEF f
  <2>3. \A c \in W : UpTo(f, c) = {x \in W : Slot(x, A, B, turn) <= Slot(c, A, B, turn)}
    BY <2>1, <2>2 DEF UpTo
  <2>4. QED
    BY <2>3
<1>5. p = [k \in 1 .. n |-> CHOOSE c \in W :
             Cardinality({x \in W : Slot(x, A, B, turn) <= Slot(c, A, B, turn)}) = k]
  BY DEF Promotions
<1>6. p = [k \in 1 .. n |-> CHOOSE c \in W : Cardinality(UpTo(f, c)) = k]
  <2> HIDE DEF f, n, p
  <2>1. QED
    BY <1>4, <1>5
<1> HIDE DEF f, n, p
<1>7. \A k \in 1 .. n : \E c \in W : Cardinality(UpTo(f, c)) = k
  BY <1>1, <1>2, <1>3, Places
<1>8. p \in [1 .. n -> W] /\ \A k \in 1 .. n : Cardinality(UpTo(f, p[k])) = k
  BY <1>6, <1>7
<1>9. QED
  BY <1>1, <1>2, <1>3, <1>8, Sorted DEF f, p

TurnsBefore(A, B, turn, wa, wb) ==
  /\ A \subseteq Candidates /\ B \subseteq Candidates /\ A \cap B = {}
  /\ turn \in BOOLEAN /\ wa \in 0 .. 1 /\ wb \in 0 .. 1
  /\ wa = 1 => ~turn
  /\ wb = 1 => turn

TurnsFollow(A, B, p, wa, wb, next) ==
  /\ p \in Seq(A \cup B) /\ Distinct(p)
  /\ WaitedOn(A, wa, p) \in 0 .. 1 /\ WaitedOn(B, wb, p) \in 0 .. 1
  /\ WaitedOn(A, wa, p) = 1 => ~next
  /\ WaitedOn(B, wb, p) = 1 => next

\* A round of promotions keeps to the turns and says whose turn is next.
LEMMA PromotionTurns ==
  ASSUME NEW A, NEW B, NEW turn, NEW wa, NEW wb, TurnsBefore(A, B, turn, wa, wb),
         NEW free \in Nat, NEW p, p = Promotions(free, A, B, turn),
         NEW next, next = (turn <=> Len(p) % 2 = 0)
  PROVE  TurnsFollow(A, B, p, wa, wb, next) /\ Len(p) <= free
<1>0. /\ A \in SUBSET Candidates /\ B \in SUBSET Candidates /\ A \cap B = {}
      /\ turn \in BOOLEAN /\ wa \in 0 .. 1 /\ wb \in 0 .. 1
      /\ wa = 1 => ~turn
      /\ wb = 1 => turn
  BY DEF TurnsBefore
<1> USE <1>0
<1> DEFINE f == SlotMap(A, B, turn)
           a == IF turn THEN 1 ELSE 0
           b == IF turn THEN 0 ELSE 1
<1>1. /\ p \in Seq(A \cup B) /\ Len(p) <= free /\ Distinct(p)
      /\ \A k \in 1 .. Len(p) : Cardinality(UpTo(f, p[k])) = k
      /\ \A x \in A \cup B : x \in Range(p) <=> Cardinality(UpTo(f, x)) <= Len(p)
  BY PromotionFacts, Zenon
<1>2. Zipped(f, A, B, a) /\ Zipped(f, B, A, b)
  BY SlotsZip
<1>3. (wa = 1 => a = 0) /\ (wb = 1 => b = 0) /\ Len(p) \in Nat
  OBVIOUS
<1> HIDE DEF f, a, b
<1>4. WaitedOn(A, wa, p) \in 0 .. 1 /\ (WaitedOn(A, wa, p) = 1 => Len(p) % 2 = a)
  BY <1>1, <1>2, <1>3, Waits
<1>5. WaitedOn(B, wb, p) \in 0 .. 1 /\ (WaitedOn(B, wb, p) = 1 => Len(p) % 2 = b)
  BY <1>1, <1>2, <1>3, Waits
<1>6. CASE turn = TRUE
  <2>1. a = 1 /\ b = 0
    BY <1>6 DEF a, b
  <2>2. WaitedOn(A, wa, p) = 1 => ~ (Len(p) % 2 = 0)
    BY <1>4, <2>1
  <2>3. WaitedOn(B, wb, p) = 1 => Len(p) % 2 = 0
    BY <1>5, <2>1
  <2>4. QED
    BY <1>1, <1>4, <1>5, <1>6, <2>2, <2>3, Zenon DEF TurnsFollow
<1>7. CASE turn = FALSE
  <2>1. a = 0 /\ b = 1
    BY <1>7 DEF a, b
  <2>2. WaitedOn(A, wa, p) = 1 => Len(p) % 2 = 0
    BY <1>4, <2>1
  <2>3. WaitedOn(B, wb, p) = 1 => ~ (Len(p) % 2 = 0)
    BY <1>5, <2>1
  <2>4. QED
    BY <1>1, <1>4, <1>5, <1>7, <2>2, <2>3, Zenon DEF TurnsFollow
<1>8. QED
  BY <1>6, <1>7, Zenon

-----------------------------------------------------------------------------
(* Lists.                                                                  *)

LEMMA Concatenated ==
  ASSUME NEW T, NEW s \in Seq(T), NEW t \in Seq(T)
  PROVE  /\ s \o t \in Seq(T) /\ Len(s \o t) = Len(s) + Len(t)
         /\ Range(s \o t) = Range(s) \cup Range(t)
         /\ Distinct(s) /\ Distinct(t) /\ Range(s) \cap Range(t) = {} => Distinct(s \o t)
<1> DEFINE u == s \o t
           n == Len(s)
           m == Len(t)
<1>1. /\ u \in Seq(T) /\ Len(u) = n + m /\ n \in Nat /\ m \in Nat
      /\ DOMAIN u = 1 .. n + m /\ DOMAIN s = 1 .. n /\ DOMAIN t = 1 .. m
  OBVIOUS
<1>2. /\ \A i \in 1 .. n : u[i] = s[i] /\ s[i] \in Range(s)
      /\ \A i \in 1 .. m : u[n + i] = t[i] /\ t[i] \in Range(t)
  BY DEF Range
<1> HIDE DEF u, n, m
<1>3. \A i \in DOMAIN u : i \in 1 .. n \/ \E j \in 1 .. m : i = n + j
  <2>1. SUFFICES ASSUME NEW i \in DOMAIN u, i \notin 1 .. n
                 PROVE  \E j \in 1 .. m : i = n + j
    OBVIOUS
  <2>2. i - n \in 1 .. m /\ i = n + (i - n)
    BY <1>1, <2>1
  <2>3. QED
    BY <2>2
<1>4. Range(u) = Range(s) \cup Range(t)
  <2>1. ASSUME NEW x \in Range(u) PROVE x \in Range(s) \cup Range(t)
    BY <1>2, <1>3 DEF Range
  <2>2. ASSUME NEW x \in Range(s) PROVE x \in Range(u)
    <3>1. PICK i \in 1 .. n : x = s[i]
      BY <1>1 DEF Range
    <3>2. x = u[i] /\ i \in DOMAIN u
      BY <1>1, <1>2, <3>1
    <3>3. QED
      BY <3>2 DEF Range
  <2>3. ASSUME NEW x \in Range(t) PROVE x \in Range(u)
    <3>1. PICK i \in 1 .. m : x = t[i]
      BY <1>1 DEF Range
    <3>2. x = u[n + i] /\ n + i \in DOMAIN u
      BY <1>1, <1>2, <3>1
    <3>3. QED
      BY <3>2 DEF Range
  <2>4. QED
    BY <2>1, <2>2, <2>3
<1>5. ASSUME Distinct(s), Distinct(t), Range(s) \cap Range(t) = {} PROVE Distinct(u)
  <2>1. SUFFICES ASSUME NEW i \in DOMAIN u, NEW j \in DOMAIN u, u[i] = u[j] PROVE i = j
    BY DEF Distinct
  <2>2. CASE i \in 1 .. n /\ j \in 1 .. n
    BY <1>1, <1>2, <1>5, <2>1, <2>2 DEF Distinct
  <2>3. CASE (\E a \in 1 .. m : i = n + a) /\ (\E b \in 1 .. m : j = n + b)
    <3>1. PICK a \in 1 .. m, b \in 1 .. m : i = n + a /\ j = n + b
      BY <2>3
    <3>2. t[a] = t[b]
      BY <1>2, <2>1, <3>1
    <3>3. a = b
      BY <1>1, <1>5, <3>2, Zenon DEF Distinct
    <3>4. QED
      BY <3>1, <3>3
  <2>4. CASE i \in 1 .. n /\ \E b \in 1 .. m : j = n + b
    BY <1>2, <1>5, <2>1, <2>4
  <2>5. CASE (\E a \in 1 .. m : i = n + a) /\ j \in 1 .. n
    BY <1>2, <1>5, <2>1, <2>5
  <2>6. QED
    BY <1>3, <2>2, <2>3, <2>4, <2>5
<1>6. QED
  BY <1>4, <1>5 DEF u, n, m

LEMMA Appended ==
  ASSUME NEW T, NEW s \in Seq(T), NEW x \in T
  PROVE  /\ Append(s, x) \in Seq(T) /\ Len(Append(s, x)) = Len(s) + 1
         /\ Range(Append(s, x)) = Range(s) \cup {x}
         /\ Distinct(s) /\ x \notin Range(s) => Distinct(Append(s, x))
         /\ Head(Append(s, x)) \in Range(Append(s, x))
         /\ s # <<>> => Head(Append(s, x)) \in Range(s)
<1> DEFINE u == Append(s, x)
           n == Len(s)
<1>1. /\ u \in Seq(T) /\ Len(u) = n + 1 /\ n \in Nat
      /\ DOMAIN u = 1 .. n + 1 /\ DOMAIN s = 1 .. n
      /\ u[n + 1] = x /\ \A i \in 1 .. n : u[i] = s[i]
      /\ Head(u) = u[1] /\ (s # <<>> => n >= 1)
  OBVIOUS
<1> HIDE DEF u, n
<1>2. Range(u) = Range(s) \cup {x}
  BY <1>1 DEF Range
<1>3. ASSUME Distinct(s), x \notin Range(s) PROVE Distinct(u)
  BY <1>1, <1>3 DEF Range, Distinct
<1>4. u[1] \in Range(u)
  BY <1>1 DEF Range
<1>5. s # <<>> => u[1] \in Range(s)
  BY <1>1 DEF Range
<1>6. QED
  BY <1>2, <1>3, <1>4, <1>5 DEF u, n

LEMMA WithoutHead ==
  ASSUME NEW T, NEW s \in Seq(T), s # <<>>
  PROVE  /\ Tail(s) \in Seq(T) /\ Len(Tail(s)) = Len(s) - 1
         /\ Range(Tail(s)) \subseteq Range(s) /\ Range(s) \subseteq Range(Tail(s)) \cup {Head(s)}
         /\ Distinct(s) => Distinct(Tail(s))
<1> DEFINE u == Tail(s)
           n == Len(s)
<1>1. /\ u \in Seq(T) /\ Len(u) = n - 1 /\ n \in Nat /\ n >= 1
      /\ DOMAIN u = 1 .. n - 1 /\ DOMAIN s = 1 .. n
      /\ \A i \in 1 .. n - 1 : u[i] = s[i + 1]
      /\ Head(s) = s[1]
  OBVIOUS
<1> HIDE DEF u, n
<1>2. Range(u) \subseteq Range(s)
  <2>1. SUFFICES ASSUME NEW i \in 1 .. n - 1 PROVE s[i + 1] \in Range(s)
    BY <1>1 DEF Range
  <2>2. i + 1 \in DOMAIN s
    BY <1>1
  <2>3. QED
    BY <2>2 DEF Range
<1>3. ASSUME NEW i \in 1 .. n PROVE s[i] \in Range(u) \cup {s[1]}
  <2>1. CASE i = 1
    BY <2>1
  <2>2. CASE i # 1
    <3>1. i - 1 \in 1 .. n - 1 /\ (i - 1) + 1 = i
      BY <1>1, <2>2
    <3>2. u[i - 1] = s[i]
      BY <1>1, <3>1
    <3>3. QED
      BY <1>1, <3>1, <3>2 DEF Range
  <2>3. QED
    BY <2>2
<1>4. ASSUME Distinct(s) PROVE Distinct(u)
  <2>1. \A i \in 1 .. n - 1 : i + 1 \in 1 .. n
    BY <1>1
  <2>2. SUFFICES ASSUME NEW i \in 1 .. n - 1, NEW j \in 1 .. n - 1, u[i] = u[j] PROVE i = j
    BY <1>1 DEF Distinct
  <2>3. s[i + 1] = s[j + 1] /\ i + 1 \in DOMAIN s /\ j + 1 \in DOMAIN s
    BY <1>1, <2>1, <2>2
  <2>4. i + 1 = j + 1
    BY <1>4, <2>3 DEF Distinct
  <2>5. QED
    BY <2>4
<1>5. Range(s) \subseteq Range(u) \cup {Head(s)}
  BY <1>1, <1>3 DEF Range
<1>6. QED
  BY <1>2, <1>4, <1>5 DEF u, n

LEMMA DistinctLength ==
  ASSUME NEW T, NEW s \in Seq(T), Distinct(s)
  PROVE  Cardinality(Range(s)) = Len(s)
<1>1. Len(s) \in Nat /\ DOMAIN s = 1 .. Len(s)
  OBVIOUS
<1>2. s \in Bijection(1 .. Len(s), Range(s))
  <2>1. s \in [1 .. Len(s) -> Range(s)]
    BY <1>1 DEF Range
  <2>2. \A y \in Range(s) : \E i \in 1 .. Len(s) : s[i] = y
    BY <1>1 DEF Range
  <2>3. QED
    BY <1>1, <2>1, <2>2 DEF Distinct, Bijection, Injection, Surjection, IsInjective
<1>3. IsFiniteSet(1 .. Len(s)) /\ Cardinality(1 .. Len(s)) = Len(s)
  BY <1>1, Counting, Zenon
<1>4. QED
  BY <1>2, <1>3, FS_Bijection DEF ExistsBijection

\* As many as there is room for.
LEMMA FirstRanks ==
  ASSUME NEW S \in SUBSET Int, IsFiniteSet(S), NEW r \in Nat, r <= Cardinality(S),
         NEW first, first = {x \in S : Rank(x, S) <= r}
  PROVE  IsFiniteSet(first) /\ Cardinality(first) = r
<1> DEFINE g == [x \in first |-> Rank(x, S)]
<1>1. /\ \A x \in S : Rank(x, S) \in 1 .. Cardinality(S)
      /\ \A x, y \in S : x < y => Rank(x, S) < Rank(y, S)
      /\ \A k \in 1 .. Cardinality(S) : \E x \in S : Rank(x, S) = k
  BY Ranks
<1>2. Cardinality(S) \in Nat
  BY FS_CardinalityType
<1>3. IsFiniteSet(first)
  BY FS_Subset
<1>4. g \in [first -> 1 .. r]
  <2>1. \A x \in first : Rank(x, S) \in 1 .. r
    BY <1>1, <1>2
  <2>2. QED
    BY <2>1, Zenon
<1>5. ASSUME NEW x \in first, NEW y \in first, g[x] = g[y] PROVE x = y
  BY <1>1, <1>5
<1>6. ASSUME NEW k \in 1 .. r PROVE \E x \in first : g[x] = k
  BY <1>1, <1>2
<1>7. g \in Bijection(first, 1 .. r)
  <2> HIDE DEF g
  <2>1. QED
    BY <1>4, <1>5, <1>6 DEF Bijection, Injection, Surjection, IsInjective
<1>8. Cardinality(1 .. r) = Cardinality(first)
  BY <1>3, <1>7, FS_Bijection DEF ExistsBijection
<1>9. QED
  BY <1>3, <1>8, FS_Interval

=============================================================================
