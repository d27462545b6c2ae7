------------------------- MODULE BudgetLedgerProofs -------------------------
(***************************************************************************)
(* Proofs about BudgetLedger for every policy, every number of attempts    *)
(* and every set of instants.                                              *)
(***************************************************************************)
EXTENDS BudgetLedger, FiniteSetTheorems, TLAPS

-----------------------------------------------------------------------------
(* Facts about Total.  Induction is carried by sets of naturals: a         *)
(* non-empty set of counterexamples would have a least member.             *)

NatOrder == {ss \in Nat \X Nat : ss[1] < ss[2]}

\* The order of the naturals, as a set of pairs, is well-founded.
LEMMA NatOrderWellFounded == IsWellFoundedOn(NatOrder, Nat)
  BY NatLessThanWellFounded DEF OpToRel, NatOrder

\* A set of naturals that holds 0 and is closed under successor is all of Nat.
LEMMA SetInduction ==
  ASSUME NEW S \in SUBSET Nat, 0 \in S, \A n \in S : n + 1 \in S
  PROVE  S = Nat
<1>1. SUFFICES ASSUME Nat \ S # {} PROVE FALSE
  BY Zenon
<1>2. PICK x \in Nat \ S : \A y \in Nat \ S : ~ (<<y, x>> \in NatOrder)
  BY <1>1, NatOrderWellFounded, WFMin, Zenon
<1>3. x \in Nat /\ x # 0 /\ x - 1 \in Nat
  BY <1>2
<1>4. <<x - 1, x>> \in NatOrder
  BY <1>3 DEF NatOrder
<1>5. x - 1 \in S
  BY <1>2, <1>3, <1>4
<1>6. (x - 1) + 1 \in S
  BY <1>5
<1> QED
  BY <1>2, <1>3, <1>6

-----------------------------------------------------------------------------

\* p holds the partial sums of f up to n.
PartialSums(p, f, n) ==
  p = [i \in 0..n |-> IF i = 0 THEN 0 ELSE p[i - 1] + f[i]]

\* The partial sums of every function exist.
LEMMA PartialSumsExist ==
  ASSUME NEW n \in Nat, NEW f
  PROVE  \E p : PartialSums(p, f, n)
<1> DEFINE S == {m \in Nat : \E p : PartialSums(p, f, m)}
<1>1. 0 \in S
  <2>1. PartialSums([i \in 0..0 |-> 0], f, 0)
    BY DEF PartialSums
  <2> QED
    BY <2>1
<1>2. ASSUME NEW m \in S PROVE m + 1 \in S
  <2>1. PICK p : PartialSums(p, f, m)
    BY <1>2
  <2> DEFINE q == [i \in 0..(m + 1) |-> IF i = m + 1 THEN p[m] + f[m + 1] ELSE p[i]]
  <2>2. ASSUME NEW i \in 0..(m + 1)
        PROVE  q[i] = IF i = 0 THEN 0 ELSE q[i - 1] + f[i]
    BY <2>1 DEF PartialSums
  <2>3. PartialSums(q, f, m + 1)
    BY <2>2 DEF PartialSums
  <2> QED
    BY <2>3
<1> HIDE DEF S
<1>3. S = Nat
  BY <1>1, <1>2, SetInduction, Zenon DEF S
<1> QED
  BY <1>3 DEF S

\* Total reads the last partial sum.
LEMMA TotalIsPartialSum ==
  ASSUME NEW n \in Nat, NEW f
  PROVE  \E p : PartialSums(p, f, n) /\ Total(f, n) = p[n]
<1> DEFINE p == CHOOSE p : PartialSums(p, f, n)
<1>1. PartialSums(p, f, n)
  BY PartialSumsExist
<1>2. Total(f, n) = p[n]
  BY DEF Total, PartialSums
<1> QED
  BY <1>1, <1>2, Zenon

\* Amounts are naturals, so their total is one.
LEMMA TotalType ==
  ASSUME NEW n \in Nat, NEW f \in [1..n -> Nat]
  PROVE  Total(f, n) \in Nat
<1>1. PICK p : PartialSums(p, f, n) /\ Total(f, n) = p[n]
  BY TotalIsPartialSum
<1> DEFINE S == {i \in Nat : i <= n => p[i] \in Nat}
<1>2. 0 \in S
  BY <1>1 DEF PartialSums
<1>3. ASSUME NEW i \in S PROVE i + 1 \in S
  <2>1. CASE i + 1 <= n
    BY <1>1, <2>1 DEF PartialSums
  <2>2. CASE ~(i + 1 <= n)
    BY <2>2
  <2> QED
    BY <2>1, <2>2
<1> HIDE DEF S
<1>4. S = Nat
  <2>1. S \in SUBSET Nat
    BY DEF S
  <2> QED
    BY <1>2, <1>3, <2>1, SetInduction, SMTT(30)
<1> QED
  BY <1>1, <1>4 DEF S

\* A pointwise smaller function has a smaller total.
LEMMA TotalMonotone ==
  ASSUME NEW n \in Nat, NEW f \in [1..n -> Nat], NEW g \in [1..n -> Nat],
         \A i \in 1..n : f[i] <= g[i]
  PROVE  Total(f, n) <= Total(g, n)
<1>1. PICK p : PartialSums(p, f, n) /\ Total(f, n) = p[n]
  BY TotalIsPartialSum
<1>2. PICK q : PartialSums(q, g, n) /\ Total(g, n) = q[n]
  BY TotalIsPartialSum
<1> DEFINE S == {i \in Nat : i <= n => p[i] \in Nat /\ q[i] \in Nat /\ p[i] <= q[i]}
<1>3. 0 \in S
  BY <1>1, <1>2 DEF PartialSums
<1>4. ASSUME NEW i \in S PROVE i + 1 \in S
  <2>1. CASE i + 1 <= n
    <3>1. p[i + 1] = p[i] + f[i + 1]
      BY <1>1, <2>1 DEF PartialSums
    <3>2. q[i + 1] = q[i] + g[i + 1]
      BY <1>2, <2>1 DEF PartialSums
    <3>3. f[i + 1] \in Nat /\ g[i + 1] \in Nat /\ f[i + 1] <= g[i + 1]
      BY <2>1
    <3> QED
      BY <2>1, <3>1, <3>2, <3>3, SMTT(30)
  <2>2. CASE ~(i + 1 <= n)
    BY <2>2
  <2> QED
    BY <2>1, <2>2
<1> HIDE DEF S
<1>5. S = Nat
  BY <1>3, <1>4, SetInduction, Zenon DEF S
<1> QED
  BY <1>1, <1>2, <1>5 DEF S

\* Changing one summand changes the total by the difference.
LEMMA TotalUpdate ==
  ASSUME NEW n \in Nat, NEW f \in [1..n -> Nat], NEW g \in [1..n -> Nat],
         NEW k \in 1..n, \A i \in 1..n : i # k => g[i] = f[i]
  PROVE  Total(g, n) = (Total(f, n) - f[k]) + g[k]
<1>1. PICK p : PartialSums(p, f, n) /\ Total(f, n) = p[n]
  BY TotalIsPartialSum
<1>2. PICK q : PartialSums(q, g, n) /\ Total(g, n) = q[n]
  BY TotalIsPartialSum
<1> DEFINE Shifted(i) == /\ p[i] \in Nat
                         /\ i < k => q[i] = p[i]
                         /\ k <= i => q[i] = (p[i] - f[k]) + g[k]
<1> DEFINE S == {i \in Nat : i <= n => Shifted(i)}
<1>3. Shifted(0)
  BY <1>1, <1>2 DEF PartialSums
<1>4. ASSUME NEW i \in Nat, i + 1 <= n, Shifted(i) PROVE Shifted(i + 1)
  <2>1. p[i + 1] = p[i] + f[i + 1]
    BY <1>1, <1>4 DEF PartialSums
  <2>2. q[i + 1] = q[i] + g[i + 1]
    BY <1>2, <1>4 DEF PartialSums
  <2>3. f[i + 1] \in Nat /\ f[k] \in Nat /\ g[k] \in Nat /\ p[i] \in Nat
    BY <1>4
  <2>4. p[i + 1] \in Nat
    BY <2>1, <2>3
  <2>5. CASE i + 1 = k
    <3>1. i < k
      BY <2>5
    <3>2. q[i] = p[i]
      BY <1>4, <3>1
    <3>3. f[i + 1] = f[k] /\ g[i + 1] = g[k]
      BY <2>5
    <3>4. q[i + 1] = p[i] + g[k] /\ p[i + 1] = p[i] + f[k]
      BY <2>1, <2>2, <3>2, <3>3
    <3>5. q[i + 1] = (p[i + 1] - f[k]) + g[k]
      BY <2>3, <3>4
    <3> QED
      BY <2>4, <2>5, <3>5
  <2>6. CASE i + 1 < k
    BY <1>4, <2>1, <2>2, <2>4, <2>6
  <2>7. CASE k < i + 1
    <3>1. g[i + 1] = f[i + 1]
      BY <1>4, <2>7
    <3>2. q[i] = (p[i] - f[k]) + g[k]
      BY <1>4, <2>7
    <3>3. q[i + 1] = (p[i + 1] - f[k]) + g[k]
      BY <2>1, <2>2, <2>3, <3>1, <3>2, SMTT(30)
    <3> QED
      BY <2>4, <2>7, <3>3
  <2> QED
    BY <2>5, <2>6, <2>7
<1> HIDE DEF Shifted
<1>5. S = Nat
  <2>1. 0 \in S
    BY <1>3
  <2>2. ASSUME NEW i \in S PROVE i + 1 \in S
    BY <1>4, <2>2
  <2> HIDE DEF S
  <2>3. S \in SUBSET Nat
    BY DEF S
  <2> QED
    BY <2>1, <2>2, <2>3, SetInduction, Zenon
<1>6. Shifted(n)
  BY <1>5
<1> QED
  BY <1>1, <1>2, <1>6 DEF Shifted

-----------------------------------------------------------------------------

USE CountAssumption DEF Attempts

Books == [Attempts -> Reservation]

-----------------------------------------------------------------------------
(* The totals of a book.                                                   *)

\* Totals of a well-typed book are naturals.
LEMMA TotalsType ==
  ASSUME NEW b \in Books, NEW S
  PROVE  /\ Reserved(b, S) \in Nat
         /\ \A from \in Int : SpentSince(b, S, from) \in Nat
BY TotalType, Zenon DEF HeldAmount, Books, Reservation, SpentAmount, Reserved, SpentSince

\* A later window start leaves out more.
LEMMA SpentAntitone ==
  ASSUME NEW b \in Books, NEW S, NEW from \in Int, NEW later \in Int, from <= later
  PROVE  SpentSince(b, S, later) <= SpentSince(b, S, from)
<1> DEFINE f == [a \in Attempts |-> SpentAmount(b, S, later, a)]
           g == [a \in Attempts |-> SpentAmount(b, S, from, a)]
<1>1. f \in [1..AttemptCount -> Nat] /\ g \in [1..AttemptCount -> Nat]
  BY DEF SpentAmount, Books, Reservation
<1>2. \A i \in 1..AttemptCount : f[i] <= g[i]
  <2>1. \A i \in Attempts : b[i].updatedAt \in Nat /\ b[i].actual \in Nat
    BY DEF Books, Reservation, Instants
  <2> QED
    BY <2>1 DEF SpentAmount
<1> HIDE DEF f, g
<1>3. Total(f, AttemptCount) <= Total(g, AttemptCount)
  BY <1>1, <1>2, TotalMonotone, Zenon
<1> QED
  BY <1>3 DEF SpentSince, f, g

\* A change of one reservation changes each total by that reservation's share.
LEMMA TotalsUpdate ==
  ASSUME NEW b \in Books, NEW c \in Books, NEW S, NEW a \in Attempts,
         \A i \in Attempts : i # a => c[i] = b[i]
  PROVE  /\ Reserved(c, S) = (Reserved(b, S) - HeldAmount(b, S, a)) + HeldAmount(c, S, a)
         /\ \A from \in Int :
              SpentSince(c, S, from) =
                (SpentSince(b, S, from) - SpentAmount(b, S, from, a))
                  + SpentAmount(c, S, from, a)
<1>1. Reserved(c, S) = (Reserved(b, S) - HeldAmount(b, S, a)) + HeldAmount(c, S, a)
  <2> DEFINE f == [i \in Attempts |-> HeldAmount(b, S, i)]
             g == [i \in Attempts |-> HeldAmount(c, S, i)]
  <2>1. f \in [1..AttemptCount -> Nat] /\ g \in [1..AttemptCount -> Nat]
    BY DEF HeldAmount, Books, Reservation
  <2>2. \A i \in 1..AttemptCount : i # a => g[i] = f[i]
    BY DEF HeldAmount
  <2>3. f[a] = HeldAmount(b, S, a) /\ g[a] = HeldAmount(c, S, a)
    OBVIOUS
  <2> HIDE DEF f, g
  <2>4. Total(g, AttemptCount) = (Total(f, AttemptCount) - f[a]) + g[a]
    BY <2>1, <2>2, TotalUpdate
  <2> QED
    BY <2>3, <2>4 DEF Reserved, f, g
<1>2. ASSUME NEW from \in Int
      PROVE  SpentSince(c, S, from) =
               (SpentSince(b, S, from) - SpentAmount(b, S, from, a))
                 + SpentAmount(c, S, from, a)
  <2> DEFINE f == [i \in Attempts |-> SpentAmount(b, S, from, i)]
             g == [i \in Attempts |-> SpentAmount(c, S, from, i)]
  <2>1. f \in [1..AttemptCount -> Nat] /\ g \in [1..AttemptCount -> Nat]
    BY DEF SpentAmount, Books, Reservation
  <2>2. \A i \in 1..AttemptCount : i # a => g[i] = f[i]
    BY DEF SpentAmount
  <2>3. f[a] = SpentAmount(b, S, from, a) /\ g[a] = SpentAmount(c, S, from, a)
    OBVIOUS
  <2> HIDE DEF f, g
  <2>4. Total(g, AttemptCount) = (Total(f, AttemptCount) - f[a]) + g[a]
    BY <2>1, <2>2, TotalUpdate, SMTT(30)
  <2> QED
    BY <2>3, <2>4 DEF SpentSince, f, g
<1> QED
  BY <1>1, <1>2

-----------------------------------------------------------------------------
(* A scope stays within its limits.                                        *)

ScopeOK(limits, b, S, now) == ScopeWithinLimits(limits, Usage(b, S, now))

\* ScopeOK spelled out over the totals.
LEMMA ScopeOKMeans ==
  ASSUME NEW limits, NEW b, NEW S, NEW now
  PROVE  ScopeOK(limits, b, S, now) <=>
           \/ FeeOverrun(b, S)
           \/ /\ SpentSince(b, S, now - Hour) + Reserved(b, S) + 0 <= limits.perHour
              /\ SpentSince(b, S, now - Day) + Reserved(b, S) + 0 <= limits.perDay
              /\ SpentSince(b, S, 0) + Reserved(b, S) + 0 <= limits.cumulative
  BY DEF ScopeOK, ScopeWithinLimits, Usage, HasCapacity

\* Time alone never breaks a limit.
LEMMA ScopeLater ==
  ASSUME NEW limits \in Limits, NEW b \in Books, NEW S,
         NEW now \in Nat, NEW later \in Nat, now <= later,
         ScopeOK(limits, b, S, now)
  PROVE  ScopeOK(limits, b, S, later)
<1>1. /\ now - Hour \in Int /\ later - Hour \in Int /\ now - Hour <= later - Hour
      /\ now - Day \in Int /\ later - Day \in Int /\ now - Day <= later - Day
  BY ClockAssumption
<1>2. /\ SpentSince(b, S, later - Hour) <= SpentSince(b, S, now - Hour)
      /\ SpentSince(b, S, later - Day) <= SpentSince(b, S, now - Day)
  BY <1>1, SpentAntitone
<1>3. /\ Reserved(b, S) \in Nat
      /\ SpentSince(b, S, now - Hour) \in Nat /\ SpentSince(b, S, later - Hour) \in Nat
      /\ SpentSince(b, S, now - Day) \in Nat /\ SpentSince(b, S, later - Day) \in Nat
  BY <1>1, TotalsType
<1>4. limits.perHour \in Nat /\ limits.perDay \in Nat
  BY DEF Limits
<1> QED
  BY <1>2, <1>3, <1>4, ScopeOKMeans

\* An overrun stays on record when one reservation changes into an overrun or
\* was none before.
LEMMA OverrunStays ==
  ASSUME NEW b, NEW c, NEW S, NEW a \in Attempts,
         \A i \in Attempts : i # a => c[i] = b[i],
         Overran(b[a]) => Overran(c[a]),
         FeeOverrun(b, S)
  PROVE  FeeOverrun(c, S)
  BY DEF FeeOverrun

\* A reservation that claims no more than before keeps its scope within limits.
LEMMA ScopeShrink ==
  ASSUME NEW limits \in Limits, NEW b \in Books, NEW c \in Books, NEW S,
         NEW a \in Attempts, NEW now \in Nat,
         \A i \in Attempts : i # a => c[i] = b[i],
         Overran(b[a]) => Overran(c[a]),
         \/ InScope(a, S) /\ Overran(c[a])
         \/ \A from \in Int : HeldAmount(c, S, a) + SpentAmount(c, S, from, a)
                               <= HeldAmount(b, S, a) + SpentAmount(b, S, from, a),
         ScopeOK(limits, b, S, now)
  PROVE  ScopeOK(limits, c, S, now)
<1>1. CASE FeeOverrun(b, S)
  BY <1>1, OverrunStays, ScopeOKMeans
<1>2. CASE InScope(a, S) /\ Overran(c[a])
  BY <1>2, ScopeOKMeans DEF FeeOverrun
<1>3. ASSUME ~FeeOverrun(b, S),
             \A from \in Int : HeldAmount(c, S, a) + SpentAmount(c, S, from, a)
                               <= HeldAmount(b, S, a) + SpentAmount(b, S, from, a)
      PROVE  ScopeOK(limits, c, S, now)
  <2>1. ASSUME NEW from \in Int
        PROVE  SpentSince(c, S, from) + Reserved(c, S) + 0
                 <= SpentSince(b, S, from) + Reserved(b, S) + 0
    <3>1. /\ Reserved(c, S) = (Reserved(b, S) - HeldAmount(b, S, a)) + HeldAmount(c, S, a)
          /\ SpentSince(c, S, from) =
               (SpentSince(b, S, from) - SpentAmount(b, S, from, a))
                 + SpentAmount(c, S, from, a)
      BY TotalsUpdate
    <3>2. /\ Reserved(b, S) \in Nat /\ SpentSince(b, S, from) \in Nat
      BY TotalsType, Zenon
    <3>3. /\ HeldAmount(b, S, a) \in Nat /\ HeldAmount(c, S, a) \in Nat
          /\ SpentAmount(b, S, from, a) \in Nat /\ SpentAmount(c, S, from, a) \in Nat
      BY Zenon DEF HeldAmount, SpentAmount, Books, Reservation
    <3> QED
      BY <1>3, <3>1, <3>2, <3>3
  <2>2. ASSUME NEW from \in Int
        PROVE  /\ SpentSince(c, S, from) + Reserved(c, S) + 0 \in Nat
               /\ SpentSince(b, S, from) + Reserved(b, S) + 0 \in Nat
    BY TotalsType
  <2>3. now - Hour \in Int /\ now - Day \in Int /\ 0 \in Int
    BY ClockAssumption
  <2>4. limits.perHour \in Nat /\ limits.perDay \in Nat /\ limits.cumulative \in Nat
    BY DEF Limits
  <2>5. /\ SpentSince(b, S, now - Hour) + Reserved(b, S) + 0 <= limits.perHour
        /\ SpentSince(b, S, now - Day) + Reserved(b, S) + 0 <= limits.perDay
        /\ SpentSince(b, S, 0) + Reserved(b, S) + 0 <= limits.cumulative
    BY <1>3, ScopeOKMeans
  <2>6. /\ SpentSince(c, S, now - Hour) + Reserved(c, S) + 0 <= limits.perHour
        /\ SpentSince(c, S, now - Day) + Reserved(c, S) + 0 <= limits.perDay
        /\ SpentSince(c, S, 0) + Reserved(c, S) + 0 <= limits.cumulative
    BY <2>1, <2>2, <2>3, <2>4, <2>5
  <2> QED
    BY <2>6, ScopeOKMeans
<1> QED
  BY <1>1, <1>2, <1>3

\* A new hold that passed checkScopeBudget keeps its scope within limits; a
\* hold outside the scope does not touch it.
LEMMA ScopeHold ==
  ASSUME NEW limits \in Limits, NEW b \in Books, NEW c \in Books, NEW S,
         NEW a \in Attempts, NEW now \in Nat,
         \A i \in Attempts : i # a => c[i] = b[i],
         b[a].state \in {"absent", "released"},
         c[a].state = "held",
         InScope(a, S) => CheckScopeBudget(limits, Usage(b, S, now), c[a].maximum),
         ScopeOK(limits, b, S, now)
  PROVE  ScopeOK(limits, c, S, now)
<1>1. CASE ~InScope(a, S)
  BY <1>1, ScopeShrink DEF HeldAmount, SpentAmount, Overran
<1>2. CASE InScope(a, S)
  <2>1. /\ HeldAmount(b, S, a) = 0 /\ HeldAmount(c, S, a) = c[a].maximum
        /\ \A from \in Int : SpentAmount(b, S, from, a) = 0 /\ SpentAmount(c, S, from, a) = 0
    BY <1>2 DEF HeldAmount, SpentAmount, Holding
  <2>2. c[a].maximum \in Nat
    BY DEF Books, Reservation
  <2>3. Reserved(b, S) \in Nat /\ \A from \in Int : SpentSince(b, S, from) \in Nat
    BY TotalsType, Zenon
  <2>4. Reserved(c, S) = Reserved(b, S) + c[a].maximum
    BY <2>1, <2>2, <2>3, TotalsUpdate
  <2>5. \A from \in Int : SpentSince(c, S, from) = SpentSince(b, S, from)
    BY <2>1, <2>3, TotalsUpdate
  <2>6. now - Hour \in Int /\ now - Day \in Int /\ 0 \in Int
    BY ClockAssumption
  <2>7. limits.perHour \in Nat /\ limits.perDay \in Nat /\ limits.cumulative \in Nat
    BY DEF Limits
  <2>8. /\ SpentSince(b, S, now - Hour) + Reserved(b, S) + c[a].maximum <= limits.perHour
        /\ SpentSince(b, S, now - Day) + Reserved(b, S) + c[a].maximum <= limits.perDay
        /\ SpentSince(b, S, 0) + Reserved(b, S) + c[a].maximum <= limits.cumulative
    BY <1>2 DEF CheckScopeBudget, Usage, HasCapacity
  <2>9. /\ SpentSince(c, S, now - Hour) + Reserved(c, S) + 0 <= limits.perHour
        /\ SpentSince(c, S, now - Day) + Reserved(c, S) + 0 <= limits.perDay
        /\ SpentSince(c, S, 0) + Reserved(c, S) + 0 <= limits.cumulative
    BY <2>2, <2>3, <2>4, <2>5, <2>6, <2>7, <2>8, SMTT(30)
  <2> QED
    BY <2>9, ScopeOKMeans
<1> QED
  BY <1>1, <1>2

\* Deleting a released reservation changes no usage, so a usage collected
\* before the purge is the usage after it.
LEMMA PurgeNeutral ==
  ASSUME NEW b \in Books, NEW c \in Books, NEW S, NEW x \in Attempts, NEW now \in Nat,
         \A i \in Attempts : i # x => c[i] = b[i],
         b[x].state = "released", c[x].state = "absent"
  PROVE  Usage(c, S, now) = Usage(b, S, now)
<1>1. /\ HeldAmount(b, S, x) = 0 /\ HeldAmount(c, S, x) = 0
      /\ \A from \in Int : SpentAmount(b, S, from, x) = 0 /\ SpentAmount(c, S, from, x) = 0
  BY DEF HeldAmount, SpentAmount, Holding
<1>2. Reserved(b, S) \in Nat /\ \A from \in Int : SpentSince(b, S, from) \in Nat
  BY TotalsType
<1>3. Reserved(c, S) = Reserved(b, S)
  BY <1>1, <1>2, TotalsUpdate
<1>4. \A from \in Int : SpentSince(c, S, from) = SpentSince(b, S, from)
  BY <1>1, <1>2, TotalsUpdate
<1>5. FeeOverrun(c, S) = FeeOverrun(b, S)
  BY DEF Overran, FeeOverrun
<1>6. now - Hour \in Int /\ now - Day \in Int /\ 0 \in Int
  BY ClockAssumption
<1> QED
  BY <1>3, <1>4, <1>5, <1>6 DEF Usage

-----------------------------------------------------------------------------
(* Past windows stay bounded.                                              *)

\* A reservation may only become committed at the current instant.
CommitsNow(r, s, now) == s.state = "committed" => s = r \/ s.updatedAt = now

\* One window of the given length: either it ends before now and lost nothing
\* but old charges, or it lies within the window that ends now.
LEMMA WindowStep ==
  ASSUME NEW b \in Books, NEW c \in Books, NEW S, NEW a \in Attempts,
         NEW now \in Nat, NEW from \in Nat, NEW length \in Nat, NEW limit \in Nat,
         \A i \in Attempts : i # a => c[i] = b[i],
         CommitsNow(b[a], c[a], now),
         SpentSince(c, S, now - length) <= limit,
         SpentBetween(b, S, from, length) <= limit
  PROVE  SpentBetween(c, S, from, length) <= limit
<1> DEFINE f == [i \in Attempts |-> WindowAmount(c, S, from, length, i)]
           g == [i \in Attempts |-> WindowAmount(b, S, from, length, i)]
           h == [i \in Attempts |-> SpentAmount(c, S, now - length, i)]
<1>1. \A i \in Attempts :
        /\ b[i].updatedAt \in Nat /\ b[i].actual \in Nat
        /\ c[i].updatedAt \in Nat /\ c[i].actual \in Nat
  BY Zenon DEF Books, Reservation, Instants
<1>2. /\ f \in [1..AttemptCount -> Nat] /\ g \in [1..AttemptCount -> Nat]
      /\ h \in [1..AttemptCount -> Nat]
  BY <1>1 DEF WindowAmount, SpentAmount
<1>3. /\ Total(f, AttemptCount) \in Nat /\ Total(g, AttemptCount) \in Nat
      /\ Total(h, AttemptCount) \in Nat
  <2> HIDE DEF f, g, h
  <2> QED
    BY <1>2, TotalType, Zenon
<1>4. CASE from <= now /\ now <= from + length
  <2>1. \A i \in 1..AttemptCount : f[i] <= h[i]
    BY <1>1, <1>4 DEF WindowAmount, SpentAmount
  <2> HIDE DEF f, g, h
  <2>2. Total(f, AttemptCount) <= Total(h, AttemptCount)
    BY <1>2, <2>1, TotalMonotone, Zenon
  <2>3. Total(h, AttemptCount) <= limit
    BY DEF h, SpentSince
  <2>4. Total(f, AttemptCount) <= limit
    BY <1>3, <2>2, <2>3
  <2> QED
    BY <2>4 DEF SpentBetween, f
<1>5. CASE ~(from <= now /\ now <= from + length)
  <2>1. \A i \in 1..AttemptCount : f[i] <= g[i]
    BY <1>1, <1>2, <1>5 DEF WindowAmount, SpentAmount, CommitsNow
  <2> HIDE DEF f, g, h
  <2>2. Total(f, AttemptCount) <= Total(g, AttemptCount)
    BY <1>2, <2>1, TotalMonotone, Zenon
  <2>3. Total(g, AttemptCount) <= limit
    BY DEF g, SpentBetween
  <2>4. Total(f, AttemptCount) <= limit
    BY <1>3, <2>2, <2>3
  <2> QED
    BY <2>4 DEF SpentBetween, f
<1> QED
  BY <1>4, <1>5

\* All windows of a scope.
LEMMA WindowsStep ==
  ASSUME NEW limits \in Limits, NEW b \in Books, NEW c \in Books, NEW S,
         NEW a \in Attempts, NEW now \in Nat,
         \A i \in Attempts : i # a => c[i] = b[i],
         CommitsNow(b[a], c[a], now),
         Overran(b[a]) => Overran(c[a]),
         ScopeOK(limits, c, S, now),
         WindowsBounded(limits, b, S)
  PROVE  WindowsBounded(limits, c, S)
<1>1. CASE FeeOverrun(c, S)
  BY <1>1 DEF WindowsBounded
<1>2. CASE ~FeeOverrun(c, S)
  <2>1. ~FeeOverrun(b, S)
    BY <1>2, OverrunStays
  <2>2. limits.perHour \in Nat /\ limits.perDay \in Nat /\ limits.cumulative \in Nat
    BY DEF Limits
  <2>3. Hour \in Nat /\ Day \in Nat /\ now - Hour \in Int /\ now - Day \in Int
    BY ClockAssumption
  <2>4. Reserved(c, S) \in Nat /\ \A from \in Int : SpentSince(c, S, from) \in Nat
    BY TotalsType
  <2>5. /\ SpentSince(c, S, now - Hour) + Reserved(c, S) + 0 <= limits.perHour
        /\ SpentSince(c, S, now - Day) + Reserved(c, S) + 0 <= limits.perDay
        /\ SpentSince(c, S, 0) + Reserved(c, S) + 0 <= limits.cumulative
    BY <1>2, ScopeOKMeans
  <2>6. /\ SpentSince(c, S, now - Hour) <= limits.perHour
        /\ SpentSince(c, S, now - Day) <= limits.perDay
        /\ SpentSince(c, S, 0) <= limits.cumulative
    BY <2>2, <2>3, <2>4, <2>5
  <2>7. ASSUME NEW from \in Times
        PROVE  /\ SpentBetween(c, S, from, Hour) <= limits.perHour
               /\ SpentBetween(c, S, from, Day) <= limits.perDay
    BY <2>1, <2>2, <2>3, <2>6, InputAssumption, WindowStep DEF WindowsBounded
  <2> QED
    BY <2>6, <2>7 DEF WindowsBounded
<1> QED
  BY <1>1, <1>2

-----------------------------------------------------------------------------
(* The inductive invariant.                                                *)

\* The limits of the two kinds of scopes are well-typed.
LEMMA ScopeLimits == GlobalLimits \in Limits /\ \A n \in Networks : NetworkLimits[n] \in Limits
  BY PolicyAssumption

\* The initial ledger is empty.
\* The invariant in the terms the steps are argued in.
LEMMA LedgerFacts ==
  ASSUME LedgerInv
  PROVE  /\ book \in Books /\ lastSeen \in Nat /\ 0 < lastSeen
         /\ \A i \in Attempts : book[i].updatedAt \in Nat /\ book[i].updatedAt <= lastSeen
         /\ \A i \in Present(book) : ValidReservation(overrunNets, NetworkOf[i], book[i])
         /\ Cardinality(Present(book)) <= MaxRecords
         /\ ScopeOK(GlobalLimits, book, Networks, lastSeen)
         /\ WindowsBounded(GlobalLimits, book, Networks)
         /\ \A n \in Networks : /\ ScopeOK(NetworkLimits[n], book, {n}, lastSeen)
                                /\ WindowsBounded(NetworkLimits[n], book, {n})
<1>1. book \in Books /\ lastSeen \in Nat
  BY DEF LedgerInv, TypeOK, Books, Instants
<1>2. \A i \in Attempts : book[i].updatedAt \in Nat
  BY <1>1 DEF Books, Reservation, Instants
<1>3. 0 < lastSeen /\ \A i \in Attempts : book[i].updatedAt <= lastSeen
  BY Zenon DEF LedgerInv
<1>4. /\ \A i \in Present(book) : ValidReservation(overrunNets, NetworkOf[i], book[i])
      /\ Cardinality(Present(book)) <= MaxRecords
      /\ ScopeOK(GlobalLimits, book, Networks, lastSeen)
      /\ \A n \in Networks : ScopeOK(NetworkLimits[n], book, {n}, lastSeen)
  BY Zenon DEF LedgerInv, Collectable, ScopeOK
<1>5. /\ WindowsBounded(GlobalLimits, book, Networks)
      /\ \A n \in Networks : WindowsBounded(NetworkLimits[n], book, {n})
  BY Zenon DEF LedgerInv, RollingLimits
<1> QED
  BY <1>1, <1>2, <1>3, <1>4, <1>5, Zenon

\* What a step has to establish for the invariant to hold after it.
LEMMA LedgerInvAfter ==
  ASSUME TypeOK', 0 < lastSeen',
         \A i \in Attempts : book'[i].updatedAt <= lastSeen',
         \A i \in Present(book') : ValidReservation(overrunNets', NetworkOf[i], book'[i]),
         Cardinality(Present(book')) <= MaxRecords,
         ScopeOK(GlobalLimits, book', Networks, lastSeen'),
         WindowsBounded(GlobalLimits, book', Networks),
         \A n \in Networks : /\ ScopeOK(NetworkLimits[n], book', {n}, lastSeen')
                             /\ WindowsBounded(NetworkLimits[n], book', {n})
  PROVE  LedgerInv'
BY Zenon DEF Collectable, ScopeOK, RollingLimits, LedgerInv

\* A new hold within the limits per transaction is a valid record.
LEMMA HoldIsValid ==
  ASSUME NEW allowed, NEW n, NEW r, NEW now \in Nat, 0 < now,
         r.state = "held", r.tx = NoHash, r.actual = 0, r.exposedAt = 0,
         r.createdAt = now, r.updatedAt = now,
         r.maximum <= GlobalLimits.perTransaction, r.maximum <= NetworkLimits[n].perTransaction
  PROVE  ValidReservation(allowed, n, r)
BY DEF ValidReservation

\* A wider permission to overrun keeps records valid.
LEMMA ValidForMore ==
  ASSUME NEW allowed, NEW more, allowed \subseteq more, NEW n, NEW r,
         ValidReservation(allowed, n, r)
  PROVE  ValidReservation(more, n, r)
BY Zenon DEF ValidReservation

\* A hold neither overran nor is it a commitment.
LEMMA HoldCommitsNothing ==
  ASSUME NEW r, NEW s, NEW now, r.state \in {"absent", "released"}, s.state = "held"
  PROVE  ~Overran(r) /\ CommitsNow(r, s, now)
BY DEF Overran, CommitsNow

\* A reservation outside a scope counts for nothing in it.
LEMMA OutsideCountsNothing ==
  ASSUME NEW a, NEW S, ~InScope(a, S)
  PROVE  \A b : HeldAmount(b, S, a) = 0 /\ \A from \in Int : SpentAmount(b, S, from, a) = 0
BY DEF HeldAmount, SpentAmount

LEMMA InitInv == Init => LedgerInv
<1> SUFFICES ASSUME Init PROVE LedgerInv
  OBVIOUS
<1>1. TypeOK
  BY Zenon DEF Init, TypeOK, Absent, Reservation, States, Instants, Epoch
<1>2. book \in Books /\ \A a \in Attempts : book[a] = Absent
  BY <1>1 DEF Init, TypeOK, Books
<1>3. 0 < lastSeen /\ \A a \in Attempts : book[a].updatedAt <= lastSeen
  BY <1>2 DEF Init, Epoch, Absent
<1>4. Present(book) = {}
  BY <1>2 DEF Present, Absent
<1>5. Cardinality(Present(book)) <= MaxRecords
  BY <1>4, FS_EmptySet
<1> DEFINE zero == [a \in Attempts |-> 0]
<1>6. zero \in [1..AttemptCount -> Nat] /\ Total(zero, AttemptCount) = 0
  <2>1. zero \in [1..AttemptCount -> Nat]
    OBVIOUS
  <2>2. PICK p : PartialSums(p, zero, AttemptCount) /\ Total(zero, AttemptCount) = p[AttemptCount]
    BY TotalIsPartialSum
  <2> DEFINE Z == {i \in Nat : i <= AttemptCount => p[i] = 0}
  <2>3. 0 \in Z
    BY <2>2 DEF PartialSums
  <2>4. ASSUME NEW i \in Z PROVE i + 1 \in Z
    BY <2>2 DEF PartialSums
  <2> HIDE DEF Z
  <2>5. Z = Nat
    BY <2>3, <2>4, SetInduction, Zenon DEF Z
  <2> QED
    BY <2>1, <2>2, <2>5 DEF Z
<1>7. ASSUME NEW S
      PROVE  /\ Reserved(book, S) = 0
             /\ \A from : SpentSince(book, S, from) = 0
             /\ \A from, length : SpentBetween(book, S, from, length) = 0
  BY <1>2, <1>6 DEF HeldAmount, Holding, Absent, SpentAmount, WindowAmount, Reserved,
     SpentSince, SpentBetween
<1>8. ASSUME NEW limits \in Limits, NEW S
      PROVE  ScopeOK(limits, book, S, lastSeen) /\ WindowsBounded(limits, book, S)
  BY <1>7, ScopeOKMeans DEF Limits, WindowsBounded
<1>9. Collectable(book, overrunNets, lastSeen)
  BY <1>4, <1>5, <1>8, ScopeLimits DEF Collectable, ScopeOK
<1>10. RollingLimits
  BY <1>8, ScopeLimits DEF RollingLimits
<1> QED
  BY <1>1, <1>3, <1>9, <1>10 DEF LedgerInv

\* A step that changes one stored reservation, valid afterwards and claiming no
\* more than before, preserves the invariant.
LEMMA ShrinkStep ==
  ASSUME LedgerInv, NEW a \in Attempts,
         book' \in Books, lastSeen' \in Nat, lastSeen <= lastSeen',
         overrunNets' = overrunNets, TypeOK',
         \A i \in Attempts : i # a => book'[i] = book[i],
         book[a].state # "absent", book'[a].state # "absent",
         ValidReservation(overrunNets, NetworkOf[a], book'[a]),
         book'[a].updatedAt <= lastSeen',
         Overran(book[a]) => Overran(book'[a]),
         CommitsNow(book[a], book'[a], lastSeen'),
         \A S : \/ InScope(a, S) /\ Overran(book'[a])
                \/ \A from \in Int :
                     HeldAmount(book', S, a) + SpentAmount(book', S, from, a)
                       <= HeldAmount(book, S, a) + SpentAmount(book, S, from, a)
  PROVE  LedgerInv'
<1>1. book \in Books /\ lastSeen \in Nat /\ 0 < lastSeen
  BY LedgerFacts, Zenon
<1>2. Present(book') = Present(book)
  BY DEF Present
<1>3. \A i \in Present(book') : ValidReservation(overrunNets', NetworkOf[i], book'[i])
  BY <1>2, LedgerFacts, Zenon DEF Present
<1>4. ASSUME NEW limits \in Limits, NEW S, ScopeOK(limits, book, S, lastSeen),
             WindowsBounded(limits, book, S)
      PROVE  ScopeOK(limits, book', S, lastSeen') /\ WindowsBounded(limits, book', S)
  <2>1. ScopeOK(limits, book, S, lastSeen')
    BY <1>1, <1>4, ScopeLater, Zenon
  <2>2. ScopeOK(limits, book', S, lastSeen')
    BY <1>1, <2>1, ScopeShrink, ZenonT(60)
  <2> QED
    BY <1>1, <1>4, <2>2, WindowsStep, ZenonT(60)
<1>5. /\ ScopeOK(GlobalLimits, book', Networks, lastSeen')
      /\ WindowsBounded(GlobalLimits, book', Networks)
      /\ \A n \in Networks : /\ ScopeOK(NetworkLimits[n], book', {n}, lastSeen')
                             /\ WindowsBounded(NetworkLimits[n], book', {n})
  BY <1>4, LedgerFacts, ScopeLimits, Zenon
<1>6. Cardinality(Present(book')) <= MaxRecords
  BY <1>2, LedgerFacts, Zenon
<1>7. 0 < lastSeen' /\ \A i \in Attempts : book'[i].updatedAt <= lastSeen'
  BY <1>1, LedgerFacts
<1> QED
  BY <1>3, <1>5, <1>6, <1>7, LedgerInvAfter, Zenon

\* The book b is the book c less records that count for nothing at now.
Purged(b, c, now) ==
  /\ \A i \in Attempts : b[i] = c[i] \/ b[i] = Absent
  /\ \A S : Usage(b, S, now) = Usage(c, S, now)
  /\ \A limits \in Limits : \A S :
       ScopeOK(limits, c, S, now) /\ WindowsBounded(limits, c, S)
         => WindowsBounded(limits, b, S)

\* A hold that passed all checks of Reserve on a book b that is the stored one,
\* possibly with a released reservation purged, preserves the invariant.
LEMMA HoldStep ==
  ASSUME LedgerInv, NEW a \in Attempts, NEW b \in Books, NEW max \in Nat, NEW balance \in Nat,
         book' \in Books, lastSeen' \in Nat, lastSeen <= lastSeen',
         overrunNets' = overrunNets, TypeOK',
         b[a].state \in {"absent", "released"},
         Purged(b, book, lastSeen'),
         \A i \in Attempts : i # a => book'[i] = b[i],
         book'[a] = HeldReservation(max, balance, lastSeen'),
         Affordable(NetworkOf[a], max, balance, lastSeen'),
         Cardinality(Present(book')) <= MaxRecords
  PROVE  LedgerInv'
<1>1. book \in Books /\ lastSeen \in Nat /\ 0 < lastSeen
  BY LedgerFacts, Zenon
<1>2. /\ book'[a].state = "held" /\ book'[a].maximum = max /\ book'[a].actual = 0
      /\ book'[a].tx = NoHash /\ book'[a].exposedAt = 0
      /\ book'[a].createdAt = lastSeen' /\ book'[a].updatedAt = lastSeen'
  BY Zenon DEF HeldReservation, Absent
<1>3. ValidReservation(overrunNets', NetworkOf[a], book'[a])
  <2>1. max <= GlobalLimits.perTransaction /\ max <= NetworkLimits[NetworkOf[a]].perTransaction
    <3>1. /\ CheckScopeBudget(GlobalLimits, Usage(book, Networks, lastSeen'), max)
          /\ CheckScopeBudget(NetworkLimits[NetworkOf[a]], Usage(book, {NetworkOf[a]}, lastSeen'), max)
      BY ZenonT(60) DEF Affordable
    <3> QED
      BY <3>1, ZenonT(60) DEF CheckScopeBudget
  <2>2. 0 < lastSeen'
    BY <1>1
  <2> QED
    BY <1>2, <2>1, <2>2, HoldIsValid, Zenon
<1>4. \A i \in Present(book') : ValidReservation(overrunNets', NetworkOf[i], book'[i])
  <2>1. ASSUME NEW i \in Present(book'), i # a
        PROVE  ValidReservation(overrunNets', NetworkOf[i], book'[i])
    <3>1. i \in Attempts /\ book'[i].state # "absent" /\ book'[i] = b[i]
      BY <2>1, ZenonT(60) DEF Present
    <3>2. b[i] = book[i] \/ b[i] = Absent
      BY <3>1, ZenonT(60) DEF Purged
    <3>3. Absent.state = "absent"
      BY DEF Absent
    <3>4. book'[i] = book[i] /\ i \in Present(book)
      BY <3>1, <3>2, <3>3, ZenonT(60) DEF Present
    <3>5. ValidReservation(overrunNets, NetworkOf[i], book[i])
      BY <3>4, LedgerFacts, Zenon
    <3> QED
      BY <3>4, <3>5, ZenonT(60)
  <2> QED
    BY <1>3, <2>1, ZenonT(60)
<1>5. ASSUME NEW limits \in Limits, NEW S, ScopeOK(limits, book, S, lastSeen),
             WindowsBounded(limits, book, S),
             InScope(a, S) => CheckScopeBudget(limits, Usage(book, S, lastSeen'), max)
      PROVE  ScopeOK(limits, book', S, lastSeen') /\ WindowsBounded(limits, book', S)
  <2>1. ScopeOK(limits, book, S, lastSeen')
    BY <1>1, <1>5, ScopeLater, ZenonT(60)
  <2>2. WindowsBounded(limits, b, S)
    BY <1>5, <2>1, ZenonT(60) DEF Purged
  <2>3. ScopeOK(limits, b, S, lastSeen')
    BY <2>1, ZenonT(60) DEF ScopeOK, Purged
  <2>4. InScope(a, S) => CheckScopeBudget(limits, Usage(b, S, lastSeen'), book'[a].maximum)
    BY <1>2, <1>5, ZenonT(60) DEF Purged
  <2>5. ScopeOK(limits, book', S, lastSeen')
    BY <1>2, <2>3, <2>4, ScopeHold, ZenonT(60)
  <2>6. ~Overran(b[a]) /\ CommitsNow(b[a], book'[a], lastSeen')
    BY <1>2, HoldCommitsNothing
  <2> QED
    BY <2>2, <2>5, <2>6, WindowsStep, ZenonT(60)
<1>6. /\ ScopeOK(GlobalLimits, book', Networks, lastSeen')
      /\ WindowsBounded(GlobalLimits, book', Networks)
  <2>1. /\ ScopeOK(GlobalLimits, book, Networks, lastSeen)
        /\ WindowsBounded(GlobalLimits, book, Networks)
    BY LedgerFacts, Zenon
  <2>2. CheckScopeBudget(GlobalLimits, Usage(book, Networks, lastSeen'), max)
    BY ZenonT(60) DEF Affordable
  <2>3. GlobalLimits \in Limits
    BY ScopeLimits
  <2> QED
    BY <1>5, <2>1, <2>2, <2>3, ZenonT(60)
<1>7. ASSUME NEW n \in Networks
      PROVE  /\ ScopeOK(NetworkLimits[n], book', {n}, lastSeen')
             /\ WindowsBounded(NetworkLimits[n], book', {n})
  <2>1. /\ ScopeOK(NetworkLimits[n], book, {n}, lastSeen)
        /\ WindowsBounded(NetworkLimits[n], book, {n})
    BY LedgerFacts, Zenon
  <2>2. InScope(a, {n}) => CheckScopeBudget(NetworkLimits[n], Usage(book, {n}, lastSeen'), max)
    BY Zenon DEF Affordable, InScope
  <2>3. NetworkLimits[n] \in Limits
    BY ScopeLimits
  <2> QED
    BY <1>5, <2>1, <2>2, <2>3, ZenonT(60)
<1>8. 0 < lastSeen' /\ \A i \in Attempts : book'[i].updatedAt <= lastSeen'
  <2>1. \A i \in Attempts : book[i].updatedAt \in Nat /\ book[i].updatedAt <= lastSeen
    BY LedgerFacts, Zenon
  <2>2. Absent.updatedAt = 0
    BY DEF Absent
  <2>3. \A i \in Attempts : i # a => book'[i].updatedAt = book[i].updatedAt \/ book'[i].updatedAt = 0
    BY <2>2, ZenonT(60) DEF Purged
  <2> HIDE DEF Purged
  <2> QED
    BY <1>1, <1>2, <2>1, <2>3
<1> QED
  BY <1>4, <1>6, <1>7, <1>8, LedgerInvAfter, Zenon

\* The records MarkExposed, CommitFinalized, ReleaseProvenUnused and
\* CheckSponsorCapacity write are reservations.
LEMMA WrittenRecords ==
  ASSUME NEW r \in Reservation, NEW now \in Nat, NEW amount \in Nat
  PROVE  /\ \A hash \in Hashes :
              [r EXCEPT !.state = "exposed", !.tx = hash,
                        !.exposedAt = now, !.updatedAt = now] \in Reservation
         /\ [r EXCEPT !.state = "committed", !.actual = amount, !.updatedAt = now] \in Reservation
         /\ [r EXCEPT !.state = "released", !.updatedAt = now] \in Reservation
         /\ [r EXCEPT !.balance = amount] \in Reservation
<1> USE DEF Reservation, States, Instants
<1>1. ASSUME NEW hash \in Hashes
      PROVE  [r EXCEPT !.state = "exposed", !.tx = hash,
                       !.exposedAt = now, !.updatedAt = now] \in Reservation
  BY ZenonT(30)
<1>2. [r EXCEPT !.state = "committed", !.actual = amount, !.updatedAt = now] \in Reservation
  BY ZenonT(30)
<1>3. [r EXCEPT !.state = "released", !.updatedAt = now] \in Reservation
  BY ZenonT(30)
<1>4. [r EXCEPT !.balance = amount] \in Reservation
  BY ZenonT(30)
<1> QED
  BY <1>1, <1>2, <1>3, <1>4, ZenonT(30)

\* Type correctness is inductive on its own.
LEMMA TypeStep == TypeOK /\ [Next]_vars => TypeOK'
<1> SUFFICES ASSUME TypeOK, [Next]_vars PROVE TypeOK'
  OBVIOUS
<1> USE InputAssumption DEF TypeOK, Instants
<1>1. \A t \in Times : EffectiveNow(t) \in Nat
  BY DEF EffectiveNow
<1>2. ASSUME NEW a \in Attempts, NEW quote \in Quotes, NEW balance \in Balances, NEW now \in Nat
      PROVE  HeldReservation(Maximum(NetworkOf[a], quote), balance, now) \in Reservation
  <2>1. Maximum(NetworkOf[a], quote) \in Nat
    BY PolicyAssumption, NetworkAssumption DEF Maximum
  <2> QED
    BY <2>1, Zenon DEF HeldReservation, Absent, Reservation, States
<1>3. Absent \in Reservation
  BY DEF Absent, Reservation, States
<1>4. ASSUME NEW a \in Attempts, NEW quote \in Quotes, NEW balance \in Balances, NEW t \in Times,
             Reserve(a, quote, balance, t)
      PROVE  TypeOK'
  <2>1. CASE ReserveExisting(a, quote, balance, t)
    BY <1>1, <2>1 DEF ReserveExisting
  <2>2. CASE ReserveReleased(a, quote, balance, t)
    BY <1>1, <1>2, <2>2 DEF ReserveReleased
  <2>3. CASE ReserveNew(a, quote, balance, t)
    <3>1. \A b \in RoomMade : b \in [Attempts -> Reservation]
      BY <1>3, SMTT(30) DEF RoomMade
    <3> QED
      BY <1>1, <1>2, <2>3, <3>1, SMTT(30) DEF ReserveNew
  <2> QED
    BY <1>4, <2>1, <2>2, <2>3 DEF Reserve
<1>5. ASSUME NEW a \in Attempts, NEW hash \in Hashes, MarkExposed(a, hash) PROVE TypeOK'
  <2>1. [book[a] EXCEPT !.state = "exposed", !.tx = hash,
                        !.exposedAt = lastSeen, !.updatedAt = lastSeen] \in Reservation
    BY WrittenRecords, ZenonT(30)
  <2> QED
    BY <1>5, <2>1 DEF MarkExposed
<1>6. ASSUME NEW a \in Attempts, NEW hash \in Hashes, NEW actual \in Charges, NEW t \in Times,
             CommitFinalized(a, hash, actual, t)
      PROVE  TypeOK'
  <2>1. \A now \in Nat : [book[a] EXCEPT !.state = "committed", !.actual = actual,
                                         !.updatedAt = now] \in Reservation
    BY WrittenRecords, ZenonT(30)
  <2> QED
    BY <1>1, <1>6, <2>1, ZenonT(60) DEF CommitFinalized
<1>7. ASSUME NEW a \in Attempts, ReleaseProvenUnused(a) PROVE TypeOK'
  <2>1. [book[a] EXCEPT !.state = "released", !.updatedAt = lastSeen] \in Reservation
    BY WrittenRecords, ZenonT(30)
  <2> QED
    BY <1>7, <2>1 DEF ReleaseProvenUnused
<1>8. ASSUME NEW a \in Attempts, NEW balance \in Balances, CheckSponsorCapacity(a, balance)
      PROVE  TypeOK'
  <2>1. [book[a] EXCEPT !.balance = balance] \in Reservation
    BY WrittenRecords, ZenonT(30)
  <2> QED
    BY <1>8, <2>1 DEF CheckSponsorCapacity
<1>9. ASSUME NEW estimated \in SUBSET EstimatedNetworks, Open(estimated) PROVE TypeOK'
  BY <1>9 DEF Open
<1>10. CASE Close
  BY <1>10, ZenonT(60) DEF Close
<1>11. CASE UNCHANGED vars
  BY <1>11 DEF vars
<1> QED
  BY <1>4, <1>5, <1>6, <1>7, <1>8, <1>9, <1>10, <1>11, SMTT(30) DEF Next

\* A step that only lets time pass, opens or closes the ledger or widens the
\* overrun permission preserves the invariant.
LEMMA IdleStep ==
  ASSUME LedgerInv, TypeOK', book' = book, lastSeen' \in Nat, lastSeen <= lastSeen',
         overrunNets \subseteq overrunNets'
  PROVE  LedgerInv'
<1>1. book \in Books /\ lastSeen \in Nat /\ 0 < lastSeen
  BY LedgerFacts, Zenon
<1>2. /\ ScopeOK(GlobalLimits, book, Networks, lastSeen')
      /\ \A n \in Networks : ScopeOK(NetworkLimits[n], book, {n}, lastSeen')
  <2>1. /\ ScopeOK(GlobalLimits, book, Networks, lastSeen)
        /\ \A n \in Networks : ScopeOK(NetworkLimits[n], book, {n}, lastSeen)
    BY LedgerFacts, Zenon
  <2> QED
    BY <1>1, <2>1, ScopeLimits, ScopeLater, ZenonT(60)
<1>3. \A i \in Present(book) : ValidReservation(overrunNets', NetworkOf[i], book[i])
  BY LedgerFacts, ValidForMore, Zenon
<1>4. /\ Cardinality(Present(book)) <= MaxRecords
      /\ WindowsBounded(GlobalLimits, book, Networks)
      /\ \A n \in Networks : WindowsBounded(NetworkLimits[n], book, {n})
  BY LedgerFacts, Zenon
<1>5. 0 < lastSeen' /\ \A i \in Attempts : book'[i].updatedAt <= lastSeen'
  BY <1>1, LedgerFacts
<1> QED
  BY <1>2, <1>3, <1>4, <1>5, LedgerInvAfter, Zenon

\* What making room leaves: one released reservation may be gone, nothing that
\* counts has changed, and one more record fits.
LEMMA RoomFacts ==
  ASSUME LedgerInv, NEW b \in RoomMade, NEW now \in Nat
  PROVE  /\ b \in Books
         /\ Purged(b, book, now)
         /\ IsFiniteSet(Present(b)) /\ Cardinality(Present(b)) + 1 <= MaxRecords
<1>1. book \in Books
  BY DEF LedgerInv, TypeOK, Books
<1>2. IsFiniteSet(Attempts)
  BY FS_Interval
<1>3. \A c : Present(c) \in SUBSET Attempts
  BY DEF Present
<1>4. \A c : IsFiniteSet(Present(c))
  BY <1>2, <1>3, FS_Subset, SMTT(30)
<1>5. Cardinality(Present(book)) \in Nat /\ Cardinality(Present(book)) <= MaxRecords
  BY <1>4, FS_CardinalityType DEF LedgerInv, Collectable
<1>6. CASE Cardinality(Present(book)) < MaxRecords
  <2>1. b = book
    BY <1>6, SMTT(30) DEF RoomMade
  <2>2. Purged(book, book, now)
    BY ZenonT(60) DEF Purged
  <2>3. Cardinality(Present(book)) + 1 <= MaxRecords
    BY <1>5, <1>6, CountAssumption
  <2> QED
    BY <1>1, <1>4, <2>1, <2>2, <2>3, ZenonT(60)
<1>7. CASE ~(Cardinality(Present(book)) < MaxRecords)
  <2>1. PICK x \in Attempts : OldestReleased(x) /\ b = [book EXCEPT ![x] = Absent]
    BY <1>7 DEF RoomMade
  <2>2. b \in Books
    BY <1>1, <2>1, SMTT(30) DEF Books, Absent, Reservation, States, Instants
  <2>3. /\ \A i \in Attempts : i # x => b[i] = book[i]
        /\ b[x] = Absent /\ b[x].state = "absent" /\ book[x].state = "released"
    BY <1>1, <2>1, SMTT(30) DEF Books, OldestReleased, Absent
  <2>4. \A S : Usage(b, S, now) = Usage(book, S, now)
    BY <1>1, <2>2, <2>3, PurgeNeutral, SMTT(30)
  <2>5. ASSUME NEW limits \in Limits, NEW S, ScopeOK(limits, book, S, now),
               WindowsBounded(limits, book, S)
        PROVE  WindowsBounded(limits, b, S)
    BY <1>1, <2>2, <2>3, <2>4, <2>5, WindowsStep DEF ScopeOK, Overran, CommitsNow
  <2>6. Present(b) = Present(book) \ {x} /\ x \in Present(book)
    BY <2>3 DEF Present
  <2>7. Cardinality(Present(b)) = Cardinality(Present(book)) - 1
    <3>1. IsFiniteSet(Present(book))
      BY <1>4
    <3>2. Cardinality(Present(book) \ {x}) =
            IF x \in Present(book) THEN Cardinality(Present(book)) - 1
                                  ELSE Cardinality(Present(book))
      BY <3>1, FS_RemoveElement
    <3> QED
      BY <2>6, <3>2
  <2>8. Purged(b, book, now)
    <3>1. \A i \in Attempts : b[i] = book[i] \/ b[i] = Absent
      BY <2>3, ZenonT(60)
    <3> QED
      BY <2>4, <2>5, <3>1, ZenonT(60) DEF Purged
  <2>9. Cardinality(Present(b)) + 1 <= MaxRecords
    BY <1>5, <2>7, CountAssumption
  <2> QED
    BY <1>4, <2>2, <2>8, <2>9, ZenonT(60)
<1> QED
  BY <1>6, <1>7

\* Every operation preserves the invariant.
LEMMA InvStep == LedgerInv /\ [Next]_vars => LedgerInv'
<1> SUFFICES ASSUME LedgerInv, [Next]_vars PROVE LedgerInv'
  OBVIOUS
<1>1. TypeOK' /\ TypeOK
  BY TypeStep DEF LedgerInv
<1>2. book \in Books /\ book' \in Books /\ lastSeen \in Nat /\ lastSeen' \in Nat /\ 0 < lastSeen
  BY <1>1 DEF LedgerInv, TypeOK, Books, Instants
<1>3. \A t \in Times : EffectiveNow(t) \in Nat /\ lastSeen <= EffectiveNow(t)
  BY <1>2, InputAssumption DEF EffectiveNow
<1>4. ASSUME NEW a \in Attempts, NEW quote \in Quotes, NEW balance \in Balances, NEW t \in Times,
             Reserve(a, quote, balance, t)
      PROVE  LedgerInv'
  <2> DEFINE max == Maximum(NetworkOf[a], quote)
  <2>1. max \in Nat /\ balance \in Nat
    BY PolicyAssumption, NetworkAssumption, InputAssumption DEF Maximum
  <2> HIDE DEF max
  <2>2. CASE ReserveExisting(a, quote, balance, t)
    <3>1. book' = book /\ lastSeen <= lastSeen' /\ overrunNets' = overrunNets
      BY <1>3, <2>2, SMTT(30) DEF ReserveExisting
    <3> QED
      BY <1>1, <1>2, <3>1, IdleStep, SMTT(30)
  <2>3. CASE ReserveReleased(a, quote, balance, t)
    <3>1. /\ lastSeen' = EffectiveNow(t) /\ lastSeen <= lastSeen' /\ overrunNets' = overrunNets
          /\ book[a].state = "released"
          /\ Affordable(NetworkOf[a], max, balance, lastSeen')
      BY <1>3, <2>3, SMTT(30) DEF ReserveReleased, max
    <3>2. /\ \A i \in Attempts : i # a => book'[i] = book[i]
          /\ book'[a] = HeldReservation(max, balance, lastSeen')
      BY <1>2, <2>3, <3>1 DEF ReserveReleased, max, Books
    <3>3. Present(book') = Present(book)
      BY <3>1, <3>2, ZenonT(60) DEF Present, HeldReservation, Absent
    <3>4. Cardinality(Present(book')) <= MaxRecords
      <4>1. Cardinality(Present(book)) <= MaxRecords
        BY DEF LedgerInv, Collectable
      <4> QED
        BY <3>3, <4>1, ZenonT(60)
    <3>5. Purged(book, book, lastSeen')
      BY ZenonT(60) DEF Purged
    <3> QED
      BY <1>1, <1>2, <2>1, <3>1, <3>2, <3>4, <3>5, HoldStep, SMTT(30)
  <2>4. CASE ReserveNew(a, quote, balance, t)
    <3>1. /\ lastSeen' = EffectiveNow(t) /\ lastSeen <= lastSeen' /\ overrunNets' = overrunNets
          /\ book[a].state = "absent"
          /\ Affordable(NetworkOf[a], max, balance, lastSeen')
      BY <1>3, <2>4, ZenonT(60) DEF ReserveNew, max
    <3>2. PICK b \in RoomMade : book' = [b EXCEPT ![a] = HeldReservation(max, balance, lastSeen')]
      BY <2>4, <3>1, ZenonT(60) DEF ReserveNew, max
    <3>3. /\ b \in Books
          /\ Purged(b, book, lastSeen')
          /\ IsFiniteSet(Present(b)) /\ Cardinality(Present(b)) + 1 <= MaxRecords
      <4>1. lastSeen' \in Nat
        BY <1>2
      <4> QED
        BY <4>1, RoomFacts, ZenonT(60)
    <3>4. /\ b[a].state = "absent"
          /\ \A i \in Attempts : i # a => book'[i] = b[i]
          /\ book'[a] = HeldReservation(max, balance, lastSeen')
      <4>1. b[a] = book[a] \/ b[a] = Absent
        BY <3>3, ZenonT(60) DEF Purged
      <4>2. Absent.state = "absent" /\ book[a].state = "absent"
        BY <3>1 DEF Absent
      <4>3. b[a].state = "absent"
        BY <4>1, <4>2, ZenonT(60)
      <4> QED
        BY <3>2, <3>3, <4>3 DEF Books
    <3>5. Present(book') = Present(b) \cup {a} /\ a \notin Present(b)
      <4>1. book'[a].state = "held"
        BY <3>4, SMTT(30) DEF HeldReservation, Absent
      <4> QED
        BY <3>4, <4>1 DEF Present
    <3>6. Cardinality(Present(book')) = Cardinality(Present(b)) + 1
      BY <3>3, <3>5, FS_AddElement, Zenon
    <3>7. Cardinality(Present(book')) <= MaxRecords
      BY <3>3, <3>6
    <3> QED
      BY <1>1, <1>2, <2>1, <3>1, <3>3, <3>4, <3>7, HoldStep
  <2> QED
    BY <1>4, <2>2, <2>3, <2>4 DEF Reserve
<1>5. ASSUME NEW a \in Attempts, NEW hash \in Hashes, MarkExposed(a, hash) PROVE LedgerInv'
  <2>1. /\ lastSeen' = lastSeen /\ overrunNets' = overrunNets /\ book[a].state = "held"
        /\ book'[a] = [book[a] EXCEPT !.state = "exposed", !.tx = hash,
                                     !.exposedAt = lastSeen, !.updatedAt = lastSeen]
        /\ \A i \in Attempts : i # a => book'[i] = book[i]
    BY <1>2, <1>5 DEF MarkExposed, Books
  <2>2. /\ book'[a].state = "exposed" /\ book'[a].maximum = book[a].maximum
        /\ book'[a].actual = book[a].actual /\ book'[a].tx = hash
        /\ book'[a].createdAt = book[a].createdAt
        /\ book'[a].exposedAt = lastSeen /\ book'[a].updatedAt = lastSeen
    BY <1>2, <2>1 DEF Books, Reservation
  <2>3. /\ ValidReservation(overrunNets, NetworkOf[a], book[a])
        /\ book[a].updatedAt <= lastSeen
        /\ book[a].updatedAt \in Nat /\ book[a].createdAt \in Nat /\ book[a].maximum \in Nat
    BY <1>2, <2>1, SMTT(30) DEF LedgerInv, Collectable, Present, Books, Reservation, Instants
  <2>4. ValidReservation(overrunNets, NetworkOf[a], book'[a])
    BY <1>2, <2>1, <2>2, <2>3, InputAssumption DEF ValidReservation
  <2>5. \A S : \A from \in Int :
          HeldAmount(book', S, a) + SpentAmount(book', S, from, a)
            <= HeldAmount(book, S, a) + SpentAmount(book, S, from, a)
    BY <2>1, <2>2, <2>3 DEF HeldAmount, SpentAmount, Holding
  <2>6. ~Overran(book[a]) /\ CommitsNow(book[a], book'[a], lastSeen')
    BY <2>1, <2>2 DEF Overran, CommitsNow
  <2>7. /\ lastSeen <= lastSeen' /\ book'[a].updatedAt <= lastSeen'
        /\ book[a].state # "absent" /\ book'[a].state # "absent"
        /\ Overran(book[a]) => Overran(book'[a])
        /\ \A S : \/ InScope(a, S) /\ Overran(book'[a])
                  \/ \A from \in Int :
                       HeldAmount(book', S, a) + SpentAmount(book', S, from, a)
                         <= HeldAmount(book, S, a) + SpentAmount(book, S, from, a)
    BY <1>2, <2>1, <2>2, <2>3, <2>5, <2>6
  <2> QED
    BY <1>1, <1>2, <2>1, <2>4, <2>6, <2>7, ShrinkStep, Zenon
<1>6. ASSUME NEW a \in Attempts, NEW hash \in Hashes, NEW actual \in Charges, NEW t \in Times,
             CommitFinalized(a, hash, actual, t)
      PROVE  LedgerInv'
  <2>1. lastSeen' = EffectiveNow(t) /\ lastSeen <= lastSeen' /\ overrunNets' = overrunNets
    BY <1>3, <1>6 DEF CommitFinalized
  <2>2. CASE book' = book
    BY <1>1, <1>2, <2>1, <2>2, IdleStep
  <2>3. CASE /\ book[a].state = "exposed"
             /\ actual <= book[a].maximum \/ NetworkOf[a] \in overrunNets
             /\ book' = [book EXCEPT ![a] =
                          [@ EXCEPT !.state = "committed",
                                    !.actual = actual, !.updatedAt = lastSeen']]
    <3>1. /\ book'[a] = [book[a] EXCEPT !.state = "committed",
                                       !.actual = actual, !.updatedAt = lastSeen']
          /\ \A i \in Attempts : i # a => book'[i] = book[i]
      BY <1>2, <2>3 DEF Books
    <3>2. /\ book'[a].state = "committed" /\ book'[a].maximum = book[a].maximum
          /\ book'[a].actual = actual /\ book'[a].tx = book[a].tx
          /\ book'[a].createdAt = book[a].createdAt
          /\ book'[a].exposedAt = book[a].exposedAt /\ book'[a].updatedAt = lastSeen'
      BY <1>2, <3>1 DEF Books, Reservation
    <3>3. /\ ValidReservation(overrunNets, NetworkOf[a], book[a])
          /\ book[a].updatedAt <= lastSeen
          /\ book[a].updatedAt \in Nat /\ book[a].createdAt \in Nat
          /\ book[a].exposedAt \in Nat /\ book[a].maximum \in Nat
      BY <1>2, <2>3, SMTT(30) DEF LedgerInv, Collectable, Present, Books, Reservation, Instants
    <3>4. actual \in Nat /\ actual > 0
      BY InputAssumption
    <3>5. ValidReservation(overrunNets, NetworkOf[a], book'[a])
      BY <1>2, <2>1, <2>3, <3>2, <3>3, <3>4 DEF ValidReservation
    <3>6. ASSUME NEW S
          PROVE  \/ InScope(a, S) /\ Overran(book'[a])
                 \/ \A from \in Int :
                      HeldAmount(book', S, a) + SpentAmount(book', S, from, a)
                        <= HeldAmount(book, S, a) + SpentAmount(book, S, from, a)
      <4>1. CASE actual > book[a].maximum /\ InScope(a, S)
        BY <3>2, <4>1, SMTT(30) DEF Overran
      <4>2. CASE ~InScope(a, S)
        BY <4>2, OutsideCountsNothing
      <4>3. CASE actual <= book[a].maximum /\ InScope(a, S)
        <5>1. HeldAmount(book', S, a) = 0 /\ HeldAmount(book, S, a) = book[a].maximum
          BY <2>3, <3>2, <4>3 DEF HeldAmount, Holding
        <5>2. ASSUME NEW from \in Int
              PROVE  HeldAmount(book', S, a) + SpentAmount(book', S, from, a)
                       <= HeldAmount(book, S, a) + SpentAmount(book, S, from, a)
          <6>1. /\ SpentAmount(book, S, from, a) = 0
                /\ SpentAmount(book', S, from, a) \in {0, actual}
            BY <2>3, <3>2 DEF SpentAmount
          <6> QED
            BY <3>3, <3>4, <4>3, <5>1, <6>1, SMTT(30)
        <5> QED
          BY <5>2, ZenonT(60)
      <4>4. actual > book[a].maximum \/ actual <= book[a].maximum
        BY <3>3, <3>4
      <4> QED
        BY <4>1, <4>2, <4>3, <4>4, ZenonT(60)
    <3>7. ~Overran(book[a]) /\ CommitsNow(book[a], book'[a], lastSeen')
      BY <2>3, <3>2 DEF Overran, CommitsNow
    <3>8. /\ book'[a].updatedAt <= lastSeen'
          /\ book[a].state # "absent" /\ book'[a].state # "absent"
          /\ Overran(book[a]) => Overran(book'[a])
      BY <1>2, <2>3, <3>2, <3>7
    <3> QED
      BY <1>1, <1>2, <2>1, <3>1, <3>5, <3>6, <3>7, <3>8, ShrinkStep, Zenon
  <2> QED
    BY <1>6, <2>1, <2>2, <2>3 DEF CommitFinalized
<1>7. ASSUME NEW a \in Attempts, ReleaseProvenUnused(a) PROVE LedgerInv'
  <2>1. /\ lastSeen' = lastSeen /\ overrunNets' = overrunNets /\ book[a].state = "held"
        /\ book'[a] = [book[a] EXCEPT !.state = "released", !.updatedAt = lastSeen]
        /\ \A i \in Attempts : i # a => book'[i] = book[i]
    BY <1>2, <1>7 DEF ReleaseProvenUnused, Books
  <2>2. /\ book'[a].state = "released" /\ book'[a].maximum = book[a].maximum
        /\ book'[a].actual = book[a].actual /\ book'[a].tx = book[a].tx
        /\ book'[a].createdAt = book[a].createdAt
        /\ book'[a].exposedAt = book[a].exposedAt /\ book'[a].updatedAt = lastSeen
    BY <1>2, <2>1 DEF Books, Reservation
  <2>3. /\ ValidReservation(overrunNets, NetworkOf[a], book[a])
        /\ book[a].updatedAt <= lastSeen
        /\ book[a].updatedAt \in Nat /\ book[a].createdAt \in Nat /\ book[a].maximum \in Nat
    BY <1>2, <2>1, SMTT(30) DEF LedgerInv, Collectable, Present, Books, Reservation, Instants
  <2>4. ValidReservation(overrunNets, NetworkOf[a], book'[a])
    BY <1>2, <2>1, <2>2, <2>3 DEF ValidReservation
  <2>5. \A S : \A from \in Int :
          HeldAmount(book', S, a) + SpentAmount(book', S, from, a)
            <= HeldAmount(book, S, a) + SpentAmount(book, S, from, a)
    BY <2>1, <2>2, <2>3 DEF HeldAmount, SpentAmount, Holding
  <2>6. ~Overran(book[a]) /\ CommitsNow(book[a], book'[a], lastSeen')
    BY <2>1, <2>2 DEF Overran, CommitsNow
  <2>7. /\ lastSeen <= lastSeen' /\ book'[a].updatedAt <= lastSeen'
        /\ book[a].state # "absent" /\ book'[a].state # "absent"
        /\ Overran(book[a]) => Overran(book'[a])
        /\ \A S : \/ InScope(a, S) /\ Overran(book'[a])
                  \/ \A from \in Int :
                       HeldAmount(book', S, a) + SpentAmount(book', S, from, a)
                         <= HeldAmount(book, S, a) + SpentAmount(book, S, from, a)
    BY <1>2, <2>1, <2>2, <2>3, <2>5, <2>6
  <2> QED
    BY <1>1, <1>2, <2>1, <2>4, <2>6, <2>7, ShrinkStep, Zenon
<1>8. ASSUME NEW a \in Attempts, NEW balance \in Balances, CheckSponsorCapacity(a, balance)
      PROVE  LedgerInv'
  <2>1. /\ lastSeen' = lastSeen /\ overrunNets' = overrunNets /\ book[a].state = "held"
        /\ book'[a] = [book[a] EXCEPT !.balance = balance]
        /\ \A i \in Attempts : i # a => book'[i] = book[i]
    BY <1>2, <1>8 DEF CheckSponsorCapacity, Books
  <2>2. /\ book'[a].state = "held" /\ book'[a].maximum = book[a].maximum
        /\ book'[a].actual = book[a].actual /\ book'[a].tx = book[a].tx
        /\ book'[a].createdAt = book[a].createdAt
        /\ book'[a].exposedAt = book[a].exposedAt /\ book'[a].updatedAt = book[a].updatedAt
    BY <1>2, <2>1 DEF Books, Reservation
  <2>3. /\ ValidReservation(overrunNets, NetworkOf[a], book[a])
        /\ book[a].updatedAt <= lastSeen /\ book[a].maximum \in Nat
    BY <1>2, <2>1 DEF LedgerInv, Collectable, Present, Books, Reservation
  <2>4. ValidReservation(overrunNets, NetworkOf[a], book'[a])
    BY <2>1, <2>2, <2>3 DEF ValidReservation
  <2>5. \A S : \A from \in Int :
          HeldAmount(book', S, a) + SpentAmount(book', S, from, a)
            <= HeldAmount(book, S, a) + SpentAmount(book, S, from, a)
    BY <2>1, <2>2, <2>3 DEF HeldAmount, SpentAmount, Holding
  <2>6. ~Overran(book[a]) /\ CommitsNow(book[a], book'[a], lastSeen')
    BY <2>1, <2>2 DEF Overran, CommitsNow
  <2>7. /\ lastSeen <= lastSeen' /\ book'[a].updatedAt <= lastSeen'
        /\ book[a].state # "absent" /\ book'[a].state # "absent"
        /\ Overran(book[a]) => Overran(book'[a])
        /\ \A S : \/ InScope(a, S) /\ Overran(book'[a])
                  \/ \A from \in Int :
                       HeldAmount(book', S, a) + SpentAmount(book', S, from, a)
                         <= HeldAmount(book, S, a) + SpentAmount(book, S, from, a)
    BY <1>2, <2>1, <2>2, <2>3, <2>5, <2>6
  <2> QED
    BY <1>1, <1>2, <2>1, <2>4, <2>6, <2>7, ShrinkStep, Zenon
<1>9. ASSUME NEW estimated \in SUBSET EstimatedNetworks, Open(estimated) PROVE LedgerInv'
  BY <1>1, <1>2, <1>9, IdleStep DEF Open
<1>10. CASE Close \/ UNCHANGED vars
  BY <1>1, <1>2, <1>10, IdleStep DEF Close, vars
<1> QED
  BY <1>4, <1>5, <1>6, <1>7, <1>8, <1>9, <1>10, SMTT(30) DEF Next

\* Every reachable state satisfies the inductive invariant.
THEOREM Invariance == Spec => []LedgerInv
  BY InitInv, InvStep, PTL DEF Spec

\* Every record and instant the ledger stores is well-typed (TypeOK).
THEOREM TypeCorrect == Spec => []TypeOK
<1>1. LedgerInv => TypeOK
  BY SMTT(30) DEF LedgerInv
<1> QED
  BY <1>1, Invariance, PTL

\* Whatever the policy, the attempts and the clock readings, the ledger never
\* writes a file that collectUsage calls corrupt, at lastSeen or later.
THEOREM NeverCorrupt == Spec => []AlwaysCollectable
<1>1. LedgerInv => AlwaysCollectable
  <2> SUFFICES ASSUME LedgerInv, NEW now \in Times \cup {lastSeen}, now >= lastSeen
               PROVE  Collectable(book, overrunNets, now)
    BY DEF AlwaysCollectable
  <2>1. book \in Books /\ lastSeen \in Nat /\ now \in Nat /\ lastSeen <= now
    BY InputAssumption, SMTT(30) DEF LedgerInv, TypeOK, Books, Instants
  <2>2. /\ ScopeOK(GlobalLimits, book, Networks, lastSeen)
        /\ \A n \in Networks : ScopeOK(NetworkLimits[n], book, {n}, lastSeen)
    BY DEF LedgerInv, Collectable, ScopeOK
  <2>3. /\ ScopeOK(GlobalLimits, book, Networks, now)
        /\ \A n \in Networks : ScopeOK(NetworkLimits[n], book, {n}, now)
    BY <2>1, <2>2, ScopeLimits, ScopeLater
  <2> QED
    BY <2>3 DEF LedgerInv, Collectable, ScopeOK
<1> QED
  BY <1>1, Invariance, PTL

\* Every rolling hour, every rolling day and the whole history stay within the
\* limits of every scope without a recorded overrun.
THEOREM RollingLimitsHold == Spec => []RollingLimits
<1>1. LedgerInv => RollingLimits
  BY DEF LedgerInv
<1> QED
  BY <1>1, Invariance, PTL

\* What a step does to one reservation: it appears as held after passing the
\* budget check, is purged when released, advances along its life, or stays.
StepOf(a) ==
  \/ book'[a] = book[a]
  \/ /\ book[a].state \in {"absent", "released"} /\ book'[a].state = "held"
     /\ ~FeeOverrun(book, Networks)
  \/ book[a].state = "released" /\ book'[a].state = "absent"
  \/ book[a].state = "held" /\ book'[a].state \in {"held", "exposed", "released"}
  \/ /\ book[a].state = "exposed" /\ book'[a].state = "committed"
     /\ book'[a].tx = book[a].tx /\ book'[a].maximum = book[a].maximum

\* Every step of the ledger is such a step for every reservation.
LEMMA StepShape == LedgerInv /\ [Next]_vars => \A i \in Attempts : StepOf(i)
<1> SUFFICES ASSUME LedgerInv, [Next]_vars, NEW i \in Attempts PROVE StepOf(i)
  OBVIOUS
<1>1. book \in Books
  BY DEF LedgerInv, TypeOK, Books
<1>2. ASSUME NEW n, NEW max, NEW balance, NEW now, Affordable(n, max, balance, now)
      PROVE  ~FeeOverrun(book, Networks)
  <2>1. CheckScopeBudget(GlobalLimits, Usage(book, Networks, now), max)
    BY <1>2, SMTT(30) DEF Affordable
  <2>2. ~Usage(book, Networks, now).feeOverrun
    BY <2>1 DEF CheckScopeBudget
  <2>3. Usage(book, Networks, now).feeOverrun = FeeOverrun(book, Networks)
    BY DEF Usage
  <2> QED
    BY <2>2, <2>3, Zenon
<1>3. Absent.state = "absent" /\ Absent \in Reservation
  BY DEF Absent, Reservation, States, Instants
<1>4. ASSUME NEW a \in Attempts, NEW quote \in Quotes, NEW balance \in Balances, NEW t \in Times,
             Reserve(a, quote, balance, t)
      PROVE  StepOf(i)
  <2> DEFINE r == HeldReservation(Maximum(NetworkOf[a], quote), balance, EffectiveNow(t))
  <2>0. r.state = "held"
    BY SMTT(30) DEF HeldReservation, Absent
  <2> HIDE DEF r
  <2>1. CASE ReserveExisting(a, quote, balance, t)
    BY <2>1, Zenon DEF ReserveExisting, StepOf
  <2>2. CASE ReserveReleased(a, quote, balance, t)
    <3>1. ~FeeOverrun(book, Networks) /\ book[a].state = "released"
      BY <1>2, <2>2 DEF ReserveReleased
    <3>2. book' = [book EXCEPT ![a] = r]
      BY <2>2 DEF ReserveReleased, r
    <3>3. book'[a] = r /\ \A j \in Attempts : j # a => book'[j] = book[j]
      BY <1>1, <3>2, SMTT(30) DEF Books
    <3> QED
      BY <2>0, <3>1, <3>3 DEF StepOf
  <2>3. CASE ReserveNew(a, quote, balance, t)
    <3>1. ~FeeOverrun(book, Networks) /\ book[a].state = "absent"
      BY <1>2, <2>3, ZenonT(60) DEF ReserveNew
    <3>2. PICK b \in RoomMade : book' = [b EXCEPT ![a] = r]
      BY <2>3, Zenon DEF ReserveNew, r
    <3>3. /\ b \in Books
          /\ \A j \in Attempts :
               b[j] = book[j] \/ (book[j].state = "released" /\ b[j].state = "absent")
      <4>1. CASE b = book
        BY <1>1, <4>1
      <4>2. CASE \E x \in Attempts : OldestReleased(x) /\ b = [book EXCEPT ![x] = Absent]
        <5>1. PICK x \in Attempts : book[x].state = "released" /\ b = [book EXCEPT ![x] = Absent]
          BY <4>2, Zenon DEF OldestReleased
        <5>2. b \in Books /\ b[x] = Absent /\ \A j \in Attempts : j # x => b[j] = book[j]
          BY <1>1, <1>3, <5>1 DEF Books
        <5> QED
          BY <1>3, <5>1, <5>2
      <4>3. CASE Cardinality(Present(book)) < MaxRecords
        BY <4>1, <4>3 DEF RoomMade
      <4>4. CASE ~(Cardinality(Present(book)) < MaxRecords)
        BY <4>2, <4>4 DEF RoomMade
      <4> QED
        BY <4>3, <4>4
    <3>4. book'[a] = r /\ \A j \in Attempts : j # a => book'[j] = b[j]
      BY <3>2, <3>3 DEF Books
    <3> QED
      BY <2>0, <3>1, <3>3, <3>4 DEF StepOf
  <2> QED
    BY <1>4, <2>1, <2>2, <2>3 DEF Reserve
<1>5. ASSUME NEW a \in Attempts, NEW hash \in Hashes, MarkExposed(a, hash) PROVE StepOf(i)
  BY <1>1, <1>5 DEF MarkExposed, StepOf, Books, Reservation
<1>6. ASSUME NEW a \in Attempts, NEW hash \in Hashes, NEW actual \in Charges, NEW t \in Times,
             CommitFinalized(a, hash, actual, t)
      PROVE  StepOf(i)
  <2>1. CASE book' = book
    BY <2>1 DEF StepOf
  <2>2. CASE /\ book[a].state = "exposed"
             /\ book' = [book EXCEPT ![a] = [@ EXCEPT !.state = "committed", !.actual = actual,
                                                      !.updatedAt = EffectiveNow(t)]]
    BY <1>1, <2>2 DEF StepOf, Books, Reservation
  <2> QED
    BY <1>6, <2>1, <2>2, SMTT(30) DEF CommitFinalized
<1>7. ASSUME NEW a \in Attempts, ReleaseProvenUnused(a) PROVE StepOf(i)
  BY <1>1, <1>7 DEF ReleaseProvenUnused, StepOf, Books, Reservation
<1>8. ASSUME NEW a \in Attempts, NEW balance \in Balances, CheckSponsorCapacity(a, balance)
      PROVE  StepOf(i)
  BY <1>1, <1>8, SMTT(30) DEF CheckSponsorCapacity, StepOf, Books, Reservation
<1>9. ASSUME NEW estimated \in SUBSET EstimatedNetworks, Open(estimated) PROVE StepOf(i)
  BY <1>9 DEF Open, StepOf
<1>10. CASE Close \/ UNCHANGED vars
  BY <1>10 DEF Close, vars, StepOf
<1> QED
  BY <1>4, <1>5, <1>6, <1>7, <1>8, <1>9, <1>10 DEF Next

\* Exposed reservations are never released, purged or rewritten, and committed
\* charges are permanent.
THEOREM IrrevocableHolds == Spec => Irrevocable
<1>1. LedgerInv /\ [Next]_vars =>
        [\A a \in Attempts :
           /\ book[a].state = "exposed" =>
                \/ book'[a] = book[a]
                \/ /\ book'[a].state = "committed"
                   /\ book'[a].tx = book[a].tx
                   /\ book'[a].maximum = book[a].maximum
           /\ book[a].state = "committed" => book'[a] = book[a]]_vars
  BY StepShape DEF StepOf
<1> QED
  BY <1>1, Invariance, PTL DEF Spec, Irrevocable

\* After a recorded fee overrun the open reservations only drain.
THEOREM OverrunDrainsHolds == Spec => OverrunDrains
<1>1. LedgerInv /\ [Next]_vars =>
        [FeeOverrun(book, Networks) => OpenAttempts' \subseteq OpenAttempts]_vars
  BY StepShape DEF StepOf, OpenAttempts, Holding
<1> QED
  BY <1>1, Invariance, PTL DEF Spec, OverrunDrains

=============================================================================
