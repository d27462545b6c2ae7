---------------------------- MODULE BudgetLedger ----------------------------
(***************************************************************************)
(* The persistent spending ledger of internal/budget/ledger.go.            *)
(*                                                                         *)
(* One bbolt file holds one reservation per paid attempt.  Every operation *)
(* is one db.Update transaction, so every operation is one action here and *)
(* a refused operation changes nothing.  The local clock is an input that  *)
(* may read any instant (it may even run backwards); the ledger defends    *)
(* itself with the persisted instant lastSeen.                             *)
(*                                                                         *)
(* Abstractions.  An attempt (incident, number) is its rank in key order,  *)
(* 1..AttemptCount, and belongs to one network because an incident does.   *)
(* Every network has one sponsor (validateRequest requires it), so the     *)
(* sponsor total of a network is its reserved total.  The chain timestamp  *)
(* of a request only decides whether the request is refused.               *)
(***************************************************************************)
EXTENDS Integers, FiniteSets, IndexedSums

CONSTANTS
  Networks,                 \* the configured networks
  AttemptCount,             \* how many attempts are ever made
  NetworkOf,                \* the network of an attempt
  MaxRecords,               \* capacity of the reservations bucket
  GlobalLimits,             \* Policy.Global
  NetworkLimits,            \* NetworkPolicy.Limits of every network
  TransactionOverhead,      \* NetworkPolicy.TransactionOverhead
  EmergencySponsorReserve,  \* NetworkPolicy.EmergencySponsorReserve
  EstimatedNetworks,        \* networks whose fee mode may become "estimated"
  Quotes,                   \* execution costs quoted before signing
  Charges,                  \* actual costs reported by finalized receipts
  Balances,                 \* sponsor balances the quorum may report
  Hashes,                   \* transaction hashes
  NoHash,                   \* the zero hash
  Times,                    \* instants the local clock may read
  Hour, Day                 \* lengths of the two rolling windows

Attempts == 1..AttemptCount

Limits == [perTransaction : Nat, perHour : Nat, perDay : Nat, cumulative : Nat]

\* validateLimits: the four limits are positive and nested.
ValidLimits(limits) ==
  /\ 0 < limits.perTransaction
  /\ limits.perTransaction <= limits.perHour
  /\ limits.perHour <= limits.perDay
  /\ limits.perDay <= limits.cumulative

ASSUME CountAssumption == AttemptCount \in Nat /\ MaxRecords \in Nat \ {0}

ASSUME NetworkAssumption ==
  /\ NetworkOf \in [Attempts -> Networks]
  /\ EstimatedNetworks \subseteq Networks

ASSUME PolicyAssumption ==
  /\ GlobalLimits \in Limits /\ ValidLimits(GlobalLimits)
  /\ NetworkLimits \in [Networks -> Limits]
  /\ \A n \in Networks : ValidLimits(NetworkLimits[n])
  /\ TransactionOverhead \in [Networks -> Nat]
  /\ EmergencySponsorReserve \in [Networks -> Nat \ {0}]

ASSUME InputAssumption ==
  /\ Quotes \subseteq Nat \ {0}
  /\ Charges \subseteq Nat \ {0}
  /\ Balances \subseteq Nat \ {0}
  /\ NoHash \notin Hashes
  /\ Times \subseteq Nat \ {0}

\* 0 is the zero time.Time; a fresh ledger stores the instant Epoch.
ASSUME ClockAssumption == Hour \in Nat /\ Day \in Nat /\ Hour <= Day

VARIABLES
  book,         \* the reservations and attempts buckets, by attempt
  lastSeen,     \* the latest instant any operation has used
  overrunNets,  \* networks with AllowFeeOverrun in the stored policy
  open          \* whether a process has the file open

vars == <<book, lastSeen, overrunNets, open>>

-----------------------------------------------------------------------------
(* Reservations.                                                           *)

Epoch == 1

Instants == Nat

States == {"absent", "held", "exposed", "committed", "released"}

Reservation ==
  [state : States, maximum : Nat, balance : Nat, tx : Hashes \cup {NoHash},
   actual : Nat, createdAt : Instants, exposedAt : Instants,
   updatedAt : Instants]

Absent ==
  [state |-> "absent", maximum |-> 0, balance |-> 0, tx |-> NoHash,
   actual |-> 0, createdAt |-> 0, exposedAt |-> 0, updatedAt |-> 0]

\* CostQuote.Maximum.
Maximum(n, quote) == quote + TransactionOverhead[n]

Present(b) == {a \in Attempts : b[a].state # "absent"}

Holding(r) == r.state \in {"held", "exposed"}

Overran(r) == r.state = "committed" /\ r.actual > r.maximum

\* validateReservation; allowed are the networks with AllowFeeOverrun.
ValidReservation(allowed, n, r) ==
  /\ r.maximum <= GlobalLimits.perTransaction
  /\ r.maximum <= NetworkLimits[n].perTransaction
  /\ r.createdAt > 0
  /\ r.createdAt <= r.updatedAt
  /\ r.state \in {"held", "released"} =>
       r.tx = NoHash /\ r.actual = 0 /\ r.exposedAt = 0
  /\ r.state \in {"exposed", "committed"} =>
       r.tx # NoHash /\ r.createdAt <= r.exposedAt /\ r.exposedAt <= r.updatedAt
  /\ r.state = "exposed" => r.actual = 0
  /\ r.state = "committed" =>
       r.actual > 0 /\ (r.actual <= r.maximum \/ n \in allowed)

-----------------------------------------------------------------------------
(* Usage of a scope: a set of networks, all of them or a single one.       *)

InScope(a, S) == NetworkOf[a] \in S

\* What attempt a adds to the reserved and to the spent total of a scope.
HeldAmount(b, S, a) ==
  IF InScope(a, S) /\ Holding(b[a]) THEN b[a].maximum ELSE 0

SpentAmount(b, S, from, a) ==
  IF InScope(a, S) /\ b[a].state = "committed" /\ b[a].updatedAt >= from
  THEN b[a].actual ELSE 0

Reserved(b, S) == Total([a \in Attempts |-> HeldAmount(b, S, a)], AttemptCount)

\* What the committed reservations not older than from have cost.
SpentSince(b, S, from) ==
  Total([a \in Attempts |-> SpentAmount(b, S, from, a)], AttemptCount)

FeeOverrun(b, S) == \E a \in Attempts : InScope(a, S) /\ Overran(b[a])

\* Mutant of Usage: a charge exactly an hour or a day old no longer counts.
UsageAfter(b, S, now) ==
  [reserved   |-> Reserved(b, S),
   hourSpent  |-> SpentSince(b, S, now - Hour + 1),
   daySpent   |-> SpentSince(b, S, now - Day + 1),
   allSpent   |-> SpentSince(b, S, 0),
   feeOverrun |-> FeeOverrun(b, S)]

\* collectUsage for one scope: the accumulated scopeUsage.
Usage(b, S, now) ==
  [reserved   |-> Reserved(b, S),
   hourSpent  |-> SpentSince(b, S, now - Hour),
   daySpent   |-> SpentSince(b, S, now - Day),
   allSpent   |-> SpentSince(b, S, 0),
   feeOverrun |-> FeeOverrun(b, S)]

\* fitsExisting and hasCapacity subtract step by step and never go below zero.
HasCapacity(limit, spent, reserved, requested) ==
  spent + reserved + requested <= limit

ScopeWithinLimits(limits, u) ==
  \/ u.feeOverrun
  \/ /\ HasCapacity(limits.perHour, u.hourSpent, u.reserved, 0)
     /\ HasCapacity(limits.perDay, u.daySpent, u.reserved, 0)
     /\ HasCapacity(limits.cumulative, u.allSpent, u.reserved, 0)

\* Mutant of CheckScopeBudget: open reservations do not count.
CheckSpentOnly(limits, u, maximum) ==
  /\ ~u.feeOverrun
  /\ maximum <= limits.perTransaction
  /\ HasCapacity(limits.perHour, u.hourSpent, 0, maximum)
  /\ HasCapacity(limits.perDay, u.daySpent, 0, maximum)
  /\ HasCapacity(limits.cumulative, u.allSpent, 0, maximum)

\* Mutant of CheckScopeBudget: a fee overrun blocks nothing.
CheckDespiteOverrun(limits, u, maximum) ==
  /\ maximum <= limits.perTransaction
  /\ HasCapacity(limits.perHour, u.hourSpent, u.reserved, maximum)
  /\ HasCapacity(limits.perDay, u.daySpent, u.reserved, maximum)
  /\ HasCapacity(limits.cumulative, u.allSpent, u.reserved, maximum)

CheckScopeBudget(limits, u, maximum) ==
  /\ ~u.feeOverrun
  /\ maximum <= limits.perTransaction
  /\ HasCapacity(limits.perHour, u.hourSpent, u.reserved, maximum)
  /\ HasCapacity(limits.perDay, u.daySpent, u.reserved, maximum)
  /\ HasCapacity(limits.cumulative, u.allSpent, u.reserved, maximum)

SponsorHasCapacity(n, balance, reserved, requested) ==
  EmergencySponsorReserve[n] + reserved + requested <= balance

\* collectUsage succeeds: nothing in the file looks corrupt at instant now.
Collectable(b, allowed, now) ==
  /\ \A a \in Present(b) : ValidReservation(allowed, NetworkOf[a], b[a])
  /\ Cardinality(Present(b)) <= MaxRecords
  /\ ScopeWithinLimits(GlobalLimits, Usage(b, Networks, now))
  /\ \A n \in Networks :
       ScopeWithinLimits(NetworkLimits[n], Usage(b, {n}, now))

\* The budget and sponsor checks both paths of Reserve make.
Affordable(n, maximum, balance, now) ==
  /\ CheckScopeBudget(GlobalLimits, Usage(book, Networks, now), maximum)
  /\ CheckScopeBudget(NetworkLimits[n], Usage(book, {n}, now), maximum)
  /\ SponsorHasCapacity(n, balance, Reserved(book, {n}), maximum)

-----------------------------------------------------------------------------
(* Operations.                                                             *)

Init ==
  /\ book = [a \in Attempts |-> Absent]
  /\ lastSeen = Epoch
  /\ overrunNets = {}
  /\ open = FALSE

\* Mutant of EffectiveNow: the observed time is taken as it is.
ObservedNow(observed) == observed

\* effectiveNow: time as the ledger sees it never runs backwards.
EffectiveNow(observed) == IF observed > lastSeen THEN observed ELSE lastSeen

HeldReservation(maximum, balance, now) ==
  [Absent EXCEPT !.state = "held", !.maximum = maximum, !.balance = balance,
                 !.createdAt = now, !.updatedAt = now]

\* The released reservation purgeOldestReleased deletes.
OldestReleased(a) ==
  /\ book[a].state = "released"
  /\ \A c \in Attempts :
       book[c].state = "released" =>
         \/ book[a].updatedAt < book[c].updatedAt
         \/ book[a].updatedAt = book[c].updatedAt /\ a <= c

\* The attempt is known and not released: the stored reservation is returned.
ReserveExisting(a, quote, balance, observed) ==
  LET now == EffectiveNow(observed)
  IN  /\ open
      /\ book[a].state \in {"held", "exposed", "committed"}
      /\ book[a].maximum = Maximum(NetworkOf[a], quote)
      /\ Collectable(book, overrunNets, now)
      /\ lastSeen' = now
      /\ UNCHANGED <<book, overrunNets, open>>

\* The attempt was released: it is held again after all checks.
ReserveReleased(a, quote, balance, observed) ==
  LET now == EffectiveNow(observed)
      n   == NetworkOf[a]
      max == Maximum(n, quote)
  IN  /\ open
      /\ book[a].state = "released"
      /\ book[a].maximum = max
      /\ Collectable(book, overrunNets, now)
      /\ Affordable(n, max, balance, now)
      /\ book' = [book EXCEPT ![a] = HeldReservation(max, balance, now)]
      /\ lastSeen' = now
      /\ UNCHANGED <<overrunNets, open>>

\* The book once there is room for one more record: at capacity the oldest
\* released reservation goes, and with none to go the set is empty (ErrCapacity).
RoomMade ==
  IF Cardinality(Present(book)) < MaxRecords
  THEN {book}
  ELSE {[book EXCEPT ![c] = Absent] : c \in {c \in Attempts : OldestReleased(c)}}

\* The usage is collected before the purge, which removes nothing it counts.
ReserveNew(a, quote, balance, observed) ==
  LET now == EffectiveNow(observed)
      n   == NetworkOf[a]
      max == Maximum(n, quote)
  IN  /\ open
      /\ book[a].state = "absent"
      /\ Collectable(book, overrunNets, now)
      /\ Affordable(n, max, balance, now)
      /\ \E b \in RoomMade :
           book' = [b EXCEPT ![a] = HeldReservation(max, balance, now)]
      /\ lastSeen' = now
      /\ UNCHANGED <<overrunNets, open>>

Reserve(a, quote, balance, observed) ==
  \/ ReserveExisting(a, quote, balance, observed)
  \/ ReserveReleased(a, quote, balance, observed)
  \/ ReserveNew(a, quote, balance, observed)

\* transition with a zero chain time works at lastSeen.  A repeated call with
\* the same hash changes nothing.
MarkExposed(a, hash) ==
  /\ open
  /\ book[a].state = "held"
  /\ Collectable(book, overrunNets, lastSeen)
  /\ book' = [book EXCEPT ![a] =
                [@ EXCEPT !.state = "exposed", !.tx = hash,
                          !.exposedAt = lastSeen, !.updatedAt = lastSeen]]
  /\ UNCHANGED <<lastSeen, overrunNets, open>>

\* Mutant of CommitFinalized: the difference to the maximum is recorded.
CommitRefund(a, hash, actual, observed) ==
  /\ open
  /\ book[a].tx = hash
  /\ book[a].state = "exposed"
  /\ actual <= book[a].maximum \/ NetworkOf[a] \in overrunNets
  /\ book' = [book EXCEPT ![a] =
                [@ EXCEPT !.state = "committed", !.actual = book[a].maximum - actual]]
  /\ lastSeen' = EffectiveNow(observed)
  /\ UNCHANGED <<overrunNets, open>>

\* A charge above the maximum is recorded only where the policy allows it.
CommitFinalized(a, hash, actual, observed) ==
  LET now == EffectiveNow(observed)
  IN  /\ open
      /\ book[a].tx = hash
      /\ Collectable(book, overrunNets, now)
      /\ \/ /\ book[a].state = "exposed"
            /\ actual <= book[a].maximum \/ NetworkOf[a] \in overrunNets
            /\ book' = [book EXCEPT ![a] =
                          [@ EXCEPT !.state = "committed",
                                    !.actual = actual, !.updatedAt = now]]
         \/ /\ book[a].state = "committed"
            /\ book[a].actual = actual
            /\ book' = book
      /\ lastSeen' = now
      /\ UNCHANGED <<overrunNets, open>>

\* Mutant of ReleaseProvenUnused: an exposed reservation is released as well.
ReleaseHolding(a) ==
  /\ open
  /\ Holding(book[a])
  /\ Collectable(book, overrunNets, lastSeen)
  /\ book' = [book EXCEPT ![a] =
                [@ EXCEPT !.state = "released", !.tx = NoHash, !.exposedAt = 0,
                          !.updatedAt = lastSeen]]
  /\ UNCHANGED <<lastSeen, overrunNets, open>>

ReleaseProvenUnused(a) ==
  /\ open
  /\ book[a].state = "held"
  /\ Collectable(book, overrunNets, lastSeen)
  /\ book' = [book EXCEPT ![a] =
                [@ EXCEPT !.state = "released", !.updatedAt = lastSeen]]
  /\ UNCHANGED <<lastSeen, overrunNets, open>>

\* The last check before a paid action; the verdict is Covered and only the
\* balance of a held reservation is rewritten.
Covered(a, balance) ==
  /\ Holding(book[a])
  /\ ~FeeOverrun(book, Networks)
  /\ SponsorHasCapacity(NetworkOf[a], balance, Reserved(book, {NetworkOf[a]}), 0)

CheckSponsorCapacity(a, balance) ==
  /\ open
  /\ Collectable(book, overrunNets, lastSeen)
  /\ Covered(a, balance)
  /\ book[a].state = "held"
  /\ book' = [book EXCEPT ![a] = [@ EXCEPT !.balance = balance]]
  /\ UNCHANGED <<lastSeen, overrunNets, open>>

\* Open validates the whole file at lastSeen.  The only policy change it accepts
\* turns the estimated fee mode of a network on.
Open(estimated) ==
  /\ ~open
  /\ overrunNets \subseteq estimated
  /\ Collectable(book, estimated, lastSeen)
  /\ overrunNets' = estimated
  /\ open' = TRUE
  /\ UNCHANGED <<book, lastSeen>>

\* Close, or the death of the process: every transaction is already durable.
Close ==
  /\ open
  /\ open' = FALSE
  /\ UNCHANGED <<book, lastSeen, overrunNets>>

Next ==
  \/ \E a \in Attempts, quote \in Quotes, balance \in Balances, t \in Times :
       Reserve(a, quote, balance, t)
  \/ \E a \in Attempts, hash \in Hashes : MarkExposed(a, hash)
  \/ \E a \in Attempts, hash \in Hashes, actual \in Charges, t \in Times :
       CommitFinalized(a, hash, actual, t)
  \/ \E a \in Attempts : ReleaseProvenUnused(a)
  \/ \E a \in Attempts, balance \in Balances : CheckSponsorCapacity(a, balance)
  \/ \E estimated \in SUBSET EstimatedNetworks : Open(estimated)
  \/ Close

Spec == Init /\ [][Next]_vars

-----------------------------------------------------------------------------
(* Properties.                                                             *)

\* Every stored record and instant has its type.
TypeOK ==
  /\ book \in [Attempts -> Reservation]
  /\ lastSeen \in Instants
  /\ overrunNets \subseteq EstimatedNetworks
  /\ open \in BOOLEAN

\* The ledger never writes a file that collectUsage would call corrupt, now or
\* at any later instant: no sequence of operations locks the daemon out of its
\* own ledger (every operation and Open return ErrCorrupt otherwise).
AlwaysCollectable == \A now \in Times \cup {lastSeen} :
                       now >= lastSeen => Collectable(book, overrunNets, now)

\* What a scope spent in the closed window of the given length that starts at
\* instant from.
WindowAmount(b, S, from, length, a) ==
  IF b[a].updatedAt <= from + length THEN SpentAmount(b, S, from, a) ELSE 0

SpentBetween(b, S, from, length) ==
  Total([a \in Attempts |-> WindowAmount(b, S, from, length, a)], AttemptCount)

\* The limits bound every rolling hour and day of the past, not only the
\* window that ends now, and the whole history, as long as no fee overrun was
\* recorded in the scope: restarts, purges and a clock that runs backwards
\* never let more be spent.
WindowsBounded(limits, b, S) ==
  \/ FeeOverrun(b, S)
  \/ /\ \A from \in Times : SpentBetween(b, S, from, Hour) <= limits.perHour
     /\ \A from \in Times : SpentBetween(b, S, from, Day) <= limits.perDay
     /\ SpentSince(b, S, 0) <= limits.cumulative

RollingLimits ==
  /\ WindowsBounded(GlobalLimits, book, Networks)
  /\ \A n \in Networks : WindowsBounded(NetworkLimits[n], book, {n})

\* The inductive invariant: no record is newer than lastSeen, the file is
\* collectable at lastSeen, and the past windows are bounded.
LedgerInv ==
  /\ TypeOK
  /\ 0 < lastSeen
  /\ \A a \in Attempts : book[a].updatedAt <= lastSeen
  /\ Collectable(book, overrunNets, lastSeen)
  /\ RollingLimits

OpenAttempts == {a \in Attempts : Holding(book[a])}

\* After a recorded fee overrun on any network nothing new is ever reserved on
\* any network: the open reservations only drain.
OverrunDrains ==
  [][FeeOverrun(book, Networks) => OpenAttempts' \subseteq OpenAttempts]_vars

\* A reservation whose transaction may be public is never released, purged or
\* rewritten: it keeps its hash and maximum until its charge is committed, and
\* a committed charge is permanent, whatever the capacity pressure.
Irrevocable ==
  [][\A a \in Attempts :
       /\ book[a].state = "exposed" =>
            \/ book'[a] = book[a]
            \/ /\ book'[a].state = "committed"
               /\ book'[a].tx = book[a].tx
               /\ book'[a].maximum = book[a].maximum
       /\ book[a].state = "committed" => book'[a] = book[a]]_vars

=============================================================================
