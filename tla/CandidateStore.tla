---- MODULE CandidateStore ----
(***************************************************************************)
(* The durable work queue and scan journal of one network: the buckets     *)
(* candidates, pending, ready-order, candidate-blocks, incidents, blocks,  *)
(* tombstones, discovered and the scan keys of meta in the bbolt file      *)
(* that internal/store owns.                                               *)
(*                                                                         *)
(* Every operation of the store is one bbolt transaction, so the file is   *)
(* one variable, db, and an operation is one action on it; a transaction   *)
(* that returns an error rolls back and is a step that does not happen.    *)
(* The bucket candidate-blocks is the set of candidates c with a record    *)
(* and Indexed(c): every insert and delete of a record in the code updates *)
(* it in the same transaction.  pending is the inverse of ready-order.     *)
(***************************************************************************)
EXTENDS Integers, Sequences, FiniteSets, FiniteSetsExt

CONSTANTS
    Candidates,             \* candidate IDs, integers in the byte order of the IDs
    Info,                   \* what the ID commits to: kind, block, token (an address,
                            \* also a number in byte order)
    Blocks,                 \* block hashes, on every branch the providers may show
    Number, Parent,         \* height of a block, parent hash of a block
    NoBlock,                \* the zero block hash; also "no scan cursor"
    NoToken,                \* the token of a candidate that is not a token transfer
    MaxPending,             \* options.MaxPending
    JournalCapacity,        \* deriveJournalCapacity(MaxPending)
    MaxDiscovered,          \* options.MaxDiscoveredTokens
    TombstoneLimit, CanonicalBlockLimit, UnconfirmedBlockLimit,
    RetryTimes,             \* retry times a caller of Nack may ask for
    MaxTime                 \* bound on the clock

ASSUME StoreConstants ==
    /\ Candidates \subseteq Nat /\ IsFiniteSet(Candidates)
    /\ NoBlock \notin Blocks
    /\ Number \in [Blocks -> Nat \ {0}]
    /\ Parent \in [Blocks -> Blocks \cup {NoBlock}]
    /\ \A c \in Candidates :
          /\ Info[c].kind \in {"block", "fast", "periodic"}
          /\ (Info[c].kind = "periodic") <=> (Info[c].block = NoBlock)
          /\ Info[c].block \in Blocks \cup {NoBlock}
          /\ Info[c].token \in Nat
    /\ {MaxPending, JournalCapacity, MaxDiscovered, TombstoneLimit, CanonicalBlockLimit,
        UnconfirmedBlockLimit} \subseteq Nat \ {0}
    /\ MaxTime \in Nat /\ RetryTimes \subseteq 1 .. MaxTime

VARIABLES
    db,                     \* the committed content of the file, and the history waited
    now                     \* store.clock

storeVars == <<db, now>>

----------------------------------------------------------------------------
(* Reading the file *)

Unfinished == {"staged", "ready", "delayed"}

\* The candidate has an entry in candidate-blocks: it belongs to a block and is
\* not a fast, latest-state, sighting of that block.
Indexed(c) == Info[c].kind = "block"

Height(c) == IF Info[c].block = NoBlock THEN 0 ELSE Number[Info[c].block]

\* Mutant of Members: the block is looked up by height alone.
MembersAtHeight(b) == {c \in Candidates : Indexed(c) /\ Height(c) = Number[b]}

\* The complete set of candidates the scanner finds in a block.
Members(b) == {c \in Candidates : Indexed(c) /\ Info[c].block = b}

WithStatus(d, S) == {c \in Candidates : d.status[c] \in S}

JournalCount(d) == Cardinality(WithStatus(d, Unfinished))

ReserveJournal(d, additional) == JournalCount(d) + additional <= JournalCapacity

CandidateAlreadyScanned(d, c) ==
    /\ Info[c].block # NoBlock
    /\ d.cursor # NoBlock
    /\ Height(c) <= Number[d.cursor]

StoredAt(d, n) == {b \in d.blocks : Number[b] = n}

\* Mutant of BlockComplete: postponed work counts as confirmed.
BlockResolved(d, b) == \A c \in Members(b) : d.status[c] \in {"acked", "delayed"}

BlockComplete(d, b) == \A c \in Members(b) : d.status[c] = "acked"

----------------------------------------------------------------------------
(* Parts of transactions *)

\* The place of x in the order of S, as a cursor over a bucket meets its keys.
Rank(x, S) == Cardinality({y \in S : y <= x})

\* What is left of a list when the members of S are deleted from it.
Without(list, S) ==
    LET kept == {i \in DOMAIN list : list[i] \notin S}
    IN  [k \in 1 .. Cardinality(kept) |-> list[CHOOSE i \in kept : Rank(i, kept) = k]]

\* History: the places other work got since the last one of S, while some of S waits.
WaitedOn(S, before, promotions) ==
    LET own == {k \in DOMAIN promotions : promotions[k] \in S}
    IN  IF S \subseteq Range(promotions) THEN 0
        ELSE IF own = {} THEN before + Len(promotions) ELSE Len(promotions) - Max(own)

\* The staged and the delayed candidates, each in ID order, take turns; turn says
\* that a delayed one is next.
Slot(c, staged, delayed, turn) ==
    IF c \in delayed
    THEN 2 * Rank(c, delayed) + IF turn THEN 0 ELSE 1
    ELSE 2 * Rank(c, staged) + IF turn THEN 1 ELSE 0

\* Those that fill the free places of the ready list, in the order of their slots.
Promotions(free, staged, delayed, turn) ==
    LET waiting == staged \cup delayed
        place(c) == Cardinality({x \in waiting :
                       Slot(x, staged, delayed, turn) <= Slot(c, staged, delayed, turn)})
    IN  [k \in 1 .. Min({free, Cardinality(waiting)}) |-> CHOOSE c \in waiting : place(c) = k]

\* The turn is persisted.
Promote(d, staged, delayed) ==
    LET promotions == Promotions(MaxPending - Len(d.ready), staged, delayed, d.turn)
        picked == Range(promotions)
    IN  [d EXCEPT !.status  = [c \in Candidates |-> IF c \in picked THEN "ready" ELSE @[c]],
                  !.retryAt = [c \in Candidates |-> IF c \in picked THEN 0 ELSE @[c]],
                  !.ready   = @ \o promotions,
                  !.turn    = (@ <=> Len(promotions) % 2 = 0),
                  !.waited  = [staged  |-> WaitedOn(staged, @.staged, promotions),
                               delayed |-> WaitedOn(delayed, @.delayed, promotions)]]

Due(d, t) == {c \in WithStatus(d, {"delayed"}) : d.retryAt[c] <= t}

\* Mutant of PromoteCandidates: postponed candidates are not promoted.
PromoteStaged(d, t) == Promote(d, WithStatus(d, {"staged"}), {})

\* Mutant of PromoteCandidates: the turn is not remembered, staged work goes first.
PromoteStagedFirst(d, t) ==
    Promote([d EXCEPT !.turn = FALSE], WithStatus(d, {"staged"}), Due(d, t))

PromoteCandidates(d, t) == Promote(d, WithStatus(d, {"staged"}), Due(d, t))

\* Deleting records with their index entry, incident link and tombstone.
Forget(d, S) ==
    [d EXCEPT !.status     = [c \in Candidates |-> IF c \in S THEN "none" ELSE @[c]],
              !.incidents  = @ \ S,
              !.tombstones = Without(@, S)]

\* Only the last CanonicalBlockLimit confirmed blocks stay, the older ones go
\* with their acknowledged members.
TrimCanonicalBlocks(d) ==
    LET retainedFrom == d.checkpoint - CanonicalBlockLimit + 1
        dropped == {b \in d.blocks : Number[b] < retainedFrom}
    IN  IF retainedFrom <= d.baseline
        THEN d
        ELSE [Forget(d, UNION {Members(b) : b \in dropped})
                 EXCEPT !.blocks = @ \ dropped, !.baseline = retainedFrom]

\* The checkpoint moves over the stored blocks that follow it as long as all
\* their members are acknowledged.
AdvanceCheckpoint(d) ==
    LET next == IF d.checkpoint = 0 THEN d.baseline ELSE d.checkpoint + 1
        stored == {Number[b] : b \in d.blocks}
        reach == {n \in stored : n >= next /\
                     \A m \in next .. n : \E b \in StoredAt(d, m) : BlockComplete(d, b)}
    IN  IF reach = {} THEN d ELSE TrimCanonicalBlocks([d EXCEPT !.checkpoint = Max(reach)])

\* Mutant of AddTombstone: the record goes with its tombstone.
AddTombstoneAndForget(d, c) ==
    LET longer == [d EXCEPT !.tombstones = Append(@, c)]
    IN  IF Len(longer.tombstones) <= TombstoneLimit
        THEN longer
        ELSE Forget(longer, {Head(longer.tombstones)})

\* An acknowledged record outlives its tombstone only while its block is kept.
AddTombstone(d, c) ==
    LET longer == [d EXCEPT !.tombstones = Append(@, c)]
        expired == Head(longer.tombstones)
    IN  IF Len(longer.tombstones) <= TombstoneLimit
        THEN longer
        ELSE IF Indexed(expired) /\ StoredAt(d, Height(expired)) # {}
        THEN [longer EXCEPT !.tombstones = Tail(@)]
        ELSE Forget(longer, {expired})

----------------------------------------------------------------------------
(* Operations *)

Init ==
    /\ db = [status     |-> [c \in Candidates |-> "none"],
             retryAt    |-> [c \in Candidates |-> 0],
             ready      |-> <<>>,
             incidents  |-> {},
             blocks     |-> {},
             baseline   |-> 0,
             cursor     |-> NoBlock,
             checkpoint |-> 0,
             turn       |-> FALSE,
             waited     |-> [staged |-> 0, delayed |-> 0],
             tombstones |-> <<>>,
             discovered |-> {},
             overflow   |-> FALSE]
    /\ now = 0

\* Put of a periodic, claim or fast candidate.  A known one, and one of a block the
\* scan has passed, is merged; a full journal makes the caller wait.
Put(c) ==
    /\ Info[c].kind # "block"
    /\ db.status[c] = "none"
    /\ ~CandidateAlreadyScanned(db, c)
    /\ ReserveJournal(db, 1)
    /\ db' = PromoteCandidates([db EXCEPT !.status[c] = "staged"], now)
    /\ UNCHANGED now

\* A preliminary sighting from the log subscription: kept aside, bounded, dropped
\* when there are too many.
PutObserved(c) ==
    /\ Info[c].kind = "block"
    /\ db.status[c] = "none"
    /\ ~CandidateAlreadyScanned(db, c)
    /\ Cardinality(WithStatus(db, {"observed"})) < MaxPending
    /\ db' = [db EXCEPT !.status[c] = "observed"]
    /\ UNCHANGED now

\* The provider took the sighting back.
MarkRemoved(c) ==
    /\ db.status[c] = "observed"
    /\ db' = AdvanceCheckpoint(Forget(db, {c}))
    /\ UNCHANGED now

\* The first block may be anywhere, the next one must extend the cursor.
ExtendsCursor(d, b) ==
    d.cursor # NoBlock => Number[b] = Number[d.cursor] + 1 /\ Parent[b] = d.cursor

\* Sightings at this height on other branches are dropped; work already accepted
\* there is a conflict.
ForeignAt(d, b) ==
    {c \in Candidates : Indexed(c) /\ d.status[c] # "none" /\ Height(c) = Number[b]} \ Members(b)

ReserveUnconfirmedBlock(d, b) ==
    \/ d.cursor = NoBlock
    \/ d.checkpoint # 0 /\ Number[b] - d.checkpoint <= UnconfirmedBlockLimit
    \/ d.checkpoint = 0 /\ Number[b] - d.baseline + 1 <= UnconfirmedBlockLimit

\* New token addresses are remembered, in address order, up to the limit; one that
\* finds no place leaves the overflow mark.
ConfirmDiscoveredTokens(d, b) ==
    LET fresh == {Info[c].token : c \in Members(b)} \ (d.discovered \cup {NoToken})
        room == MaxDiscovered - Cardinality(d.discovered)
        kept == IF Cardinality(fresh) <= room
                THEN fresh
                ELSE {x \in fresh : Rank(x, fresh) <= room}
    IN  [d EXCEPT !.discovered = @ \cup kept, !.overflow = @ \/ kept # fresh]

\* Mutant of CommittedBlock: a member that was sighted before is not staged.
CommittedUnseen(d, b) ==
    LET added == {c \in Members(b) : d.status[c] = "none"}
    IN  [d EXCEPT !.status = [c \in Candidates |-> IF c \in added THEN "staged" ELSE @[c]],
                  !.blocks = @ \cup {b},
                  !.baseline = IF d.cursor = NoBlock THEN Number[b] ELSE @,
                  !.cursor = b]

CommittedBlock(d, b) ==
    LET added == {c \in Members(b) : d.status[c] \in {"none", "observed"}}
        kept == ConfirmDiscoveredTokens(Forget(d, ForeignAt(d, b)), b)
    IN  [kept EXCEPT !.status = [c \in Candidates |-> IF c \in added THEN "staged" ELSE @[c]],
                     !.blocks = @ \cup {b},
                     !.baseline = IF d.cursor = NoBlock THEN Number[b] ELSE @,
                     !.cursor = b]

\* The block, its members and the cursor are saved together; without room in the
\* journal, or too far ahead of the checkpoint, the scanner waits.
CommitCanonicalBlock(b) ==
    /\ StoredAt(db, Number[b]) = {}
    /\ ExtendsCursor(db, b)
    /\ \A c \in ForeignAt(db, b) : db.status[c] = "observed"
    /\ ReserveUnconfirmedBlock(db, b)
    /\ ReserveJournal(db, Cardinality({c \in Members(b) : db.status[c] \in {"none", "observed"}}))
    /\ \E saved \in {CommittedBlock(db, b)} :
       \E promoted \in {PromoteCandidates(saved, now)} :
          db' = AdvanceCheckpoint(promoted)
    /\ UNCHANGED now

\* Next promotes what is due; the candidate it hands out stays at the head of the
\* ready list until it is resolved.
NextCandidate ==
    /\ db' = PromoteCandidates(db, now)
    /\ UNCHANGED now

PutIncident(c) ==
    /\ db.status[c] \in {"ready", "delayed", "acked"}
    /\ db' = [db EXCEPT !.incidents = @ \cup {c}]
    /\ UNCHANGED now

Resolvable(c) == c \in db.incidents /\ db.status[c] = "ready"

Nack(c, t) ==
    /\ Resolvable(c)
    /\ db' = PromoteCandidates([db EXCEPT !.status[c] = "delayed",
                                          !.retryAt[c] = t,
                                          !.ready = Without(@, {c})], now)
    /\ UNCHANGED now

\* Mutant of Ack: the checkpoint is left to the scanner.
AckWithoutCheckpoint(c) ==
    /\ Resolvable(c)
    /\ db' = PromoteCandidates(AddTombstone([db EXCEPT !.status[c] = "acked",
                                                       !.ready = Without(@, {c})], c), now)
    /\ UNCHANGED now

Ack(c) ==
    /\ Resolvable(c)
    /\ \E acked \in {[db EXCEPT !.status[c] = "acked",
                                !.ready = Without(@, {c})]} :
       \E buried \in {AddTombstone(acked, c)} :
       \E advanced \in {AdvanceCheckpoint(buried)} :
          db' = PromoteCandidates(advanced, now)
    /\ UNCHANGED now

Tick ==
    /\ now < MaxTime
    /\ now' = now + 1
    /\ UNCHANGED db

----------------------------------------------------------------------------
(* Properties *)

NoDuplicates(s) == Cardinality(Range(s)) = Len(s)

ValidateCandidateIndexes(d) ==
    /\ Len(d.ready) <= MaxPending /\ NoDuplicates(d.ready)
    /\ Range(d.ready) = WithStatus(d, {"ready"})
    /\ JournalCount(d) <= JournalCapacity
    /\ Cardinality(WithStatus(d, {"observed"})) <= MaxPending

RetainedCanonicalMember(d, c) == Indexed(c) /\ Info[c].block \in d.blocks

ValidateTombstones(d) ==
    /\ Len(d.tombstones) <= TombstoneLimit /\ NoDuplicates(d.tombstones)
    /\ Range(d.tombstones) \subseteq WithStatus(d, {"acked"})
    /\ \A c \in WithStatus(d, {"acked"}) \ Range(d.tombstones) : RetainedCanonicalMember(d, c)

\* The confirmed prefix of the stored chain.
ExpectedCheckpoint(d) ==
    LET done == {n \in d.baseline .. Number[d.cursor] :
                    \A m \in d.baseline .. n : \E b \in StoredAt(d, m) : BlockComplete(d, b)}
    IN  IF done = {} THEN 0 ELSE Max(done)

ValidateChain(d) ==
    /\ d.baseline <= Number[d.cursor]
    /\ {Number[b] : b \in d.blocks} = d.baseline .. Number[d.cursor]
    /\ Cardinality(d.blocks) = Number[d.cursor] - d.baseline + 1
    /\ d.cursor \in d.blocks
    /\ \A b \in d.blocks :
          /\ Number[b] # d.baseline => Parent[b] \in d.blocks
          /\ ForeignAt(d, b) = {}
          /\ \A c \in Members(b) : d.status[c] \notin {"none", "observed"}
    /\ d.checkpoint = ExpectedCheckpoint(d)
    /\ IF d.checkpoint = 0
       THEN Number[d.cursor] - d.baseline + 1 <= UnconfirmedBlockLimit
       ELSE /\ d.checkpoint - d.baseline + 1 <= CanonicalBlockLimit
            /\ Number[d.cursor] - d.checkpoint <= UnconfirmedBlockLimit

ValidateDatabase(d) ==
    /\ ValidateCandidateIndexes(d)
    /\ ValidateTombstones(d)
    /\ \A c \in d.incidents : d.status[c] # "none"
    /\ Cardinality(d.discovered) <= MaxDiscovered
    /\ d.overflow => Cardinality(d.discovered) = MaxDiscovered
    /\ IF d.cursor = NoBlock
       THEN d.baseline = 0 /\ d.checkpoint = 0 /\ d.blocks = {}
       ELSE ValidateChain(d)
    /\ WithStatus(d, {"delayed", "acked"}) \subseteq d.incidents

\* No sequence of operations writes a file that the validation at the next start
\* would call corrupt: bolt_store.go Open refuses a file validateDatabase rejects, so
\* a violation is a daemon that cannot restart.  Ties together the trimming of blocks,
\* the expiry of tombstones, the checkpoint and the late sightings of other branches.
ReopenAccepts == ValidateDatabase(db)

\* Free ready places go to staged work and to due retries in turns, over any number
\* of transactions and restarts: while work of one kind waits, the other kind never
\* gets two places in a row (promoteCandidates and its persisted turn; docs: a broken
\* token contract does not block the other assets).
PromotionTakesTurns == db.waited.staged <= 1 /\ db.waited.delayed <= 1
====
