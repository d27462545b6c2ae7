------------------------ MODULE CandidateStoreProofs ------------------------
(***************************************************************************)
(* The invariant of the file of the candidate store, what promoting,       *)
(* deleting and confirming do to it, and that Open accepts a file with it, *)
(* for any chain, candidates and limits.                                   *)
(*                                                                         *)
(* The operations of the store are operators on the record that is the     *)
(* file, so the lemmas are about such a record d, with com for the blocks  *)
(* ever committed and ack for the candidates ever acknowledged.            *)
(***************************************************************************)
EXTENDS CandidateOrderProofs

-----------------------------------------------------------------------------
(* The invariant.                                                          *)

Statuses == {"none", "observed"} \cup Unfinished \cup {"acked"}

DbFields == {"status", "retryAt", "ready", "incidents", "blocks", "baseline", "cursor",
             "checkpoint", "turn", "waited", "tombstones", "discovered", "overflow"}

TypesOK(d) ==
  /\ DOMAIN d = DbFields
  /\ d.status \in [Candidates -> Statuses]
  /\ d.ready \in Seq(Candidates) /\ d.tombstones \in Seq(Candidates)
  /\ d.blocks \subseteq Blocks /\ d.cursor \in Blocks \cup {NoBlock}
  /\ d.baseline \in Nat /\ d.checkpoint \in Nat
  /\ d.turn \in BOOLEAN /\ d.incidents \subseteq Candidates

\* The ready list is what its records say, and within its bounds.
QueueOK(d) ==
  /\ Distinct(d.ready) /\ Len(d.ready) <= MaxPending
  /\ Range(d.ready) = WithStatus(d, {"ready"})
  /\ JournalCount(d) <= JournalCapacity
  /\ Cardinality(WithStatus(d, {"observed"})) <= MaxPending

\* A record that was resolved once has an incident, an incident has a record.
IncidentsOK(d) ==
  /\ \A c \in d.incidents : d.status[c] # "none"
  /\ WithStatus(d, {"delayed", "acked"}) \subseteq d.incidents

\* What is acknowledged has a tombstone or belongs to a block.
TombstonesOK(d) ==
  /\ Distinct(d.tombstones)
  /\ Range(d.tombstones) \subseteq WithStatus(d, {"acked"})
  /\ \A c \in WithStatus(d, {"acked"}) : Indexed(c) \/ c \in Range(d.tombstones)

TokensOK(d) ==
  /\ d.discovered \subseteq Nat /\ IsFiniteSet(d.discovered)
  /\ Cardinality(d.discovered) <= MaxDiscovered
  /\ d.overflow \in BOOLEAN
  /\ d.overflow => Cardinality(d.discovered) = MaxDiscovered

\* Work of a block is accepted with the block and is gone with it; sightings of other
\* branches are gone at the heights that are stored.
MembersOK(d) ==
  \A c \in Candidates : Indexed(c) =>
    /\ d.status[c] \in {"none", "observed"} <=> Info[c].block \notin d.blocks
    /\ \A b \in d.blocks : Number[b] = Height(c) /\ d.status[c] # "none" => Info[c].block = b

\* The stored blocks are a chain from the baseline to the cursor.
ChainOK(d) ==
  IF d.cursor = NoBlock
  THEN d.baseline = 0 /\ d.checkpoint = 0 /\ d.blocks = {}
  ELSE /\ d.cursor \in d.blocks /\ d.baseline > 0
       /\ \A b \in d.blocks : Number[b] \in d.baseline .. Number[d.cursor]
       /\ \A n \in d.baseline .. Number[d.cursor] : \E b \in d.blocks : Number[b] = n
       /\ \A a, b \in d.blocks : Number[a] = Number[b] => a = b
       /\ \A b \in d.blocks : Number[b] # d.baseline =>
            Parent[b] \in d.blocks /\ Number[Parent[b]] = Number[b] - 1

\* All up to the checkpoint is complete.
CompleteOK(d) == \A b \in d.blocks : Number[b] <= d.checkpoint => BlockComplete(d, b)

\* The checkpoint is within the chain.
InChain(d) ==
  /\ d.cursor # NoBlock
  /\ d.checkpoint \in d.baseline .. Number[d.cursor]
  /\ Number[d.cursor] - d.checkpoint <= UnconfirmedBlockLimit

CheckpointOK(d) ==
  d.cursor # NoBlock =>
    \/ d.checkpoint = 0 /\ Number[d.cursor] - d.baseline < UnconfirmedBlockLimit
    \/ InChain(d) /\ d.checkpoint - d.baseline < CanonicalBlockLimit

NextHeight(d) == IF d.checkpoint = 0 THEN d.baseline ELSE d.checkpoint + 1

\* The checkpoint cannot move.
Exact(d) == \A b \in d.blocks : Number[b] = NextHeight(d) => ~BlockComplete(d, b)

\* Whoever has waited for one place is next.
TurnsOK(d) ==
  /\ d.waited.staged \in 0 .. 1 /\ d.waited.delayed \in 0 .. 1
  /\ d.waited.staged = 1 => ~d.turn
  /\ d.waited.delayed = 1 => d.turn

\* The file and the history: trimmed blocks were confirmed, and of the stored blocks
\* the records know what was acknowledged.
HistoryOK(d, com, ack) ==
  /\ d.blocks \subseteq com /\ com \subseteq Blocks
  /\ \A b \in com \ d.blocks :
       d.checkpoint # 0 /\ Number[b] < d.baseline /\ Members(b) \subseteq ack
  /\ \A c \in Candidates : Indexed(c) =>
       /\ c \in ack => Info[c].block \in com
       /\ Info[c].block \in d.blocks => (d.status[c] = "acked" <=> c \in ack)

RecordsOK(d) ==
  TypesOK(d) /\ QueueOK(d) /\ IncidentsOK(d) /\ TombstonesOK(d) /\ TokensOK(d) /\ TurnsOK(d)

ChainParts(d, com, ack) ==
  /\ MembersOK(d) /\ ChainOK(d) /\ CompleteOK(d) /\ CheckpointOK(d) /\ HistoryOK(d, com, ack)

StoreOK(d, com, ack) ==
  RecordsOK(d) /\ Len(d.tombstones) <= TombstoneLimit /\ ChainParts(d, com, ack)

-----------------------------------------------------------------------------
(* Frames.                                                                 *)

SameChain(d, e) ==
  /\ e.blocks = d.blocks /\ e.baseline = d.baseline /\ e.cursor = d.cursor
  /\ e.checkpoint = d.checkpoint

\* What belongs to blocks is as far as it was.
SameWork(d, e) ==
  \A c \in Candidates : Indexed(c) =>
    \/ e.status[c] = d.status[c]
    \/ d.status[c] \in Unfinished /\ e.status[c] \in Unfinished

SameDone(d, e) ==
  \A c \in Candidates : Indexed(c) => (e.status[c] = "acked" <=> d.status[c] = "acked")

LEMMA DoneFrame ==
  ASSUME NEW d, NEW e, NEW com, NEW ack,
         ChainParts(d, com, ack), SameChain(d, e), SameDone(d, e)
  PROVE  /\ ChainOK(e) /\ CompleteOK(e) /\ CheckpointOK(e) /\ HistoryOK(e, com, ack)
         /\ Exact(d) => Exact(e)
BY DEF SameDone, BlockComplete, Members, ChainOK, SameChain, ChainParts, CompleteOK,
   CheckpointOK, InChain, HistoryOK, Exact, NextHeight

LEMMA ChainFrame ==
  ASSUME NEW d, NEW e, NEW com, NEW ack,
         ChainParts(d, com, ack), SameChain(d, e), SameWork(d, e)
  PROVE  ChainParts(e, com, ack) /\ (Exact(d) => Exact(e))
BY DoneFrame DEF SameWork, Unfinished, SameDone, MembersOK, SameChain, ChainParts

-----------------------------------------------------------------------------
(* Fields.                                                                 *)

\* What Promote writes, when p is the list of promotions.
Promotes(d, e, S, D, p) ==
  /\ DOMAIN e = DbFields /\ SameChain(d, e)
  /\ e.incidents = d.incidents /\ e.tombstones = d.tombstones
  /\ e.discovered = d.discovered /\ e.overflow = d.overflow
  /\ e.status = [c \in Candidates |-> IF c \in Range(p) THEN "ready" ELSE d.status[c]]
  /\ e.ready = d.ready \o p
  /\ e.turn = (d.turn <=> Len(p) % 2 = 0)
  /\ e.waited = [staged |-> WaitedOn(S, d.waited.staged, p),
                 delayed |-> WaitedOn(D, d.waited.delayed, p)]

LEMMA PromoteFields ==
  ASSUME NEW d, DOMAIN d = DbFields, NEW S, NEW D,
         NEW p, p = Promotions(MaxPending - Len(d.ready), S, D, d.turn),
         NEW e, e = Promote(d, S, D)
  PROVE  Promotes(d, e, S, D, p)
BY DEF Promote, SameChain, DbFields, Promotes

LEMMA ForgetFields ==
  ASSUME NEW d, DOMAIN d = DbFields, NEW S, NEW e, e = Forget(d, S)
  PROVE  /\ DOMAIN e = DbFields /\ SameChain(d, e)
         /\ e.incidents = d.incidents \ S /\ e.tombstones = Without(d.tombstones, S)
         /\ e.discovered = d.discovered /\ e.overflow = d.overflow
         /\ e.ready = d.ready /\ e.turn = d.turn /\ e.waited = d.waited
         /\ e.status = [c \in Candidates |-> IF c \in S THEN "none" ELSE d.status[c]]
BY DEF Forget, SameChain, DbFields

-----------------------------------------------------------------------------
(* Promotion.                                                              *)

LEMMA StoreParts ==
  ASSUME NEW d, NEW com, NEW ack, StoreOK(d, com, ack)
  PROVE  /\ RecordsOK(d) /\ TypesOK(d) /\ QueueOK(d) /\ IncidentsOK(d) /\ TombstonesOK(d)
         /\ TokensOK(d) /\ TurnsOK(d)
         /\ ChainParts(d, com, ack) /\ MembersOK(d) /\ ChainOK(d) /\ CompleteOK(d)
         /\ CheckpointOK(d) /\ HistoryOK(d, com, ack)
         /\ Len(d.tombstones) <= TombstoneLimit
BY DEF StoreOK, RecordsOK, ChainParts

ReadyStays(d, e) == \A c \in Candidates : d.status[c] = "ready" => e.status[c] = "ready"

\* What a promotion does for the caller.
Promoted(d, e) ==
  /\ SameChain(d, e) /\ ReadyStays(d, e) /\ e.incidents = d.incidents
  /\ WithStatus(e, Unfinished) = WithStatus(d, Unfinished)
  /\ Exact(d) => Exact(e)

LEMMA PromoteKeeps ==
  ASSUME NEW d, NEW com, NEW ack, StoreOK(d, com, ack),
         NEW S, S = WithStatus(d, {"staged"}), NEW D \in SUBSET WithStatus(d, {"delayed"}),
         NEW e, e = Promote(d, S, D)
  PROVE  StoreOK(e, com, ack) /\ Promoted(d, e)
<1> DEFINE free == MaxPending - Len(d.ready)
           wa == d.waited.staged
           wb == d.waited.delayed
<1>0. PICK p : p = Promotions(free, S, D, d.turn)
  OBVIOUS
<1>1. /\ DOMAIN d = DbFields /\ d.status \in [Candidates -> Statuses]
      /\ d.ready \in Seq(Candidates) /\ d.tombstones \in Seq(Candidates)
      /\ d.turn \in BOOLEAN /\ d.incidents \subseteq Candidates
  BY StoreParts DEF TypesOK
<1>2. /\ Distinct(d.ready) /\ Len(d.ready) <= MaxPending
      /\ Range(d.ready) = WithStatus(d, {"ready"})
      /\ JournalCount(d) <= JournalCapacity
      /\ Cardinality(WithStatus(d, {"observed"})) <= MaxPending
  BY StoreParts DEF QueueOK
<1>3. /\ S \in SUBSET Candidates /\ D \in SUBSET Candidates /\ S \cap D = {}
      /\ \A c \in S : d.status[c] = "staged"
      /\ \A c \in D : d.status[c] = "delayed"
  BY DEF WithStatus
<1>4. free \in Nat
  BY <1>2, Limits
<1>5. wa \in 0 .. 1 /\ wb \in 0 .. 1 /\ (wa = 1 => ~d.turn) /\ (wb = 1 => d.turn)
  BY StoreParts DEF TurnsOK
<1>6. Promotes(d, e, S, D, p)
  BY <1>0, <1>1, PromoteFields DEF free
<1> HIDE DEF free
<1>7. /\ TurnsFollow(S, D, p, wa, wb, e.turn) /\ Len(p) <= free
  <2>1. e.turn = (d.turn <=> Len(p) % 2 = 0)
    BY <1>6 DEF Promotes
  <2>2. TurnsBefore(S, D, d.turn, wa, wb)
    BY <1>1, <1>3, <1>5 DEF TurnsBefore
  <2> HIDE DEF wa, wb
  <2>3. QED
    BY <1>0, <1>4, <2>1, <2>2, PromotionTurns
<1>8. /\ Range(p) \subseteq Candidates /\ p \in Seq(Candidates) /\ Len(p) \in Nat
      /\ \A c \in Range(p) : d.status[c] = "staged" \/ d.status[c] = "delayed"
  BY <1>3, <1>7 DEF TurnsFollow, Range
<1>9. /\ e.status = [c \in Candidates |-> IF c \in Range(p) THEN "ready" ELSE d.status[c]]
      /\ \A c \in Candidates : e.status[c] = IF c \in Range(p) THEN "ready" ELSE d.status[c]
      /\ DOMAIN e = DbFields /\ SameChain(d, e)
      /\ e.incidents = d.incidents /\ e.tombstones = d.tombstones
      /\ e.discovered = d.discovered /\ e.overflow = d.overflow
  BY <1>6 DEF Promotes
<1>10. /\ WithStatus(e, Unfinished) = WithStatus(d, Unfinished)
       /\ WithStatus(e, {"observed"}) = WithStatus(d, {"observed"})
       /\ WithStatus(e, {"acked"}) = WithStatus(d, {"acked"})
       /\ WithStatus(e, {"ready"}) = WithStatus(d, {"ready"}) \cup Range(p)
       /\ WithStatus(e, {"delayed", "acked"}) \subseteq WithStatus(d, {"delayed", "acked"})
  BY <1>8, <1>9 DEF WithStatus, Unfinished
<1>11. SameWork(d, e) /\ ReadyStays(d, e)
  BY <1>8, <1>9 DEF SameWork, ReadyStays, Unfinished
<1>12. ChainParts(e, com, ack) /\ (Exact(d) => Exact(e))
  BY <1>9, <1>11, ChainFrame, StoreParts, Zenon
<1>13. Range(d.ready) \cap Range(p) = {}
  BY <1>2, <1>8 DEF WithStatus
<1>14. /\ e.ready \in Seq(Candidates) /\ Len(e.ready) = Len(d.ready) + Len(p)
       /\ Range(e.ready) = Range(d.ready) \cup Range(p) /\ Distinct(e.ready)
  <2>1. e.ready = d.ready \o p /\ Distinct(p)
    BY <1>6, <1>7 DEF Promotes, TurnsFollow
  <2>2. /\ d.ready \o p \in Seq(Candidates) /\ Len(d.ready \o p) = Len(d.ready) + Len(p)
        /\ Range(d.ready \o p) = Range(d.ready) \cup Range(p)
        /\ Distinct(d.ready) /\ Distinct(p) /\ Range(d.ready) \cap Range(p) = {}
              => Distinct(d.ready \o p)
    BY <1>1, <1>8, Concatenated
  <2>3. QED
    BY <1>2, <1>13, <2>1, <2>2, Zenon
<1>15. e.turn \in BOOLEAN
  BY <1>6, Zenon DEF Promotes
<1>16. TypesOK(e)
  BY <1>1, <1>9, <1>14, <1>15, StoreParts DEF Statuses, Unfinished, TypesOK, SameChain
<1>17. QueueOK(e)
  <2>1. Len(e.ready) <= MaxPending
    BY <1>2, <1>7, <1>8, <1>14, Limits DEF free
  <2>2. QED
    BY <1>2, <1>10, <1>14, <2>1, Zenon DEF QueueOK, JournalCount
<1>18. IncidentsOK(e)
  BY <1>1, <1>9, <1>10, StoreParts DEF IncidentsOK
<1>19. TombstonesOK(e)
  BY <1>9, <1>10, StoreParts, Zenon DEF TombstonesOK
<1>20. TokensOK(e)
  BY <1>9, StoreParts, Zenon DEF TokensOK
<1>21. TurnsOK(e)
  BY <1>6, <1>7 DEF Promotes, TurnsOK, TurnsFollow
<1>22. Len(e.tombstones) <= TombstoneLimit
  BY <1>9, StoreParts, Zenon
<1>23. QED
  BY <1>9, <1>10, <1>11, <1>12, <1>16, <1>17, <1>18, <1>19, <1>20, <1>21, <1>22,
     Zenon DEF StoreOK, RecordsOK, Promoted

LEMMA PromoteCandidatesKeeps ==
  ASSUME NEW d, NEW com, NEW ack, StoreOK(d, com, ack), NEW t,
         NEW e, e = PromoteCandidates(d, t)
  PROVE  StoreOK(e, com, ack) /\ Promoted(d, e)
BY PromoteKeeps DEF Due, PromoteCandidates

-----------------------------------------------------------------------------
(* Records deleted, and the checkpoint.                                    *)

\* What deleting the records of S does.
Forgotten(d, e, S) ==
  /\ SameChain(d, e) /\ ReadyStays(d, e) /\ e.ready = d.ready
  /\ \A c \in Candidates : e.status[c] = IF c \in S THEN "none" ELSE d.status[c]
  /\ WithStatus(e, Unfinished) = WithStatus(d, Unfinished)
  /\ Len(e.tombstones) <= Len(d.tombstones)
  /\ Range(d.tombstones) \cap S # {} => Len(e.tombstones) < Len(d.tombstones)

LEMMA ForgetKeeps ==
  ASSUME NEW d, RecordsOK(d), NEW S, S \subseteq Candidates,
         \A c \in S : d.status[c] \notin Unfinished, NEW e, e = Forget(d, S)
  PROVE  RecordsOK(e) /\ Forgotten(d, e, S)
<1>1. /\ DOMAIN d = DbFields /\ d.status \in [Candidates -> Statuses]
      /\ d.ready \in Seq(Candidates) /\ d.tombstones \in Seq(Candidates)
      /\ d.turn \in BOOLEAN /\ d.incidents \subseteq Candidates
  BY DEF RecordsOK, TypesOK
<1>2. /\ DOMAIN e = DbFields /\ SameChain(d, e)
      /\ e.incidents = d.incidents \ S /\ e.tombstones = Without(d.tombstones, S)
      /\ e.discovered = d.discovered /\ e.overflow = d.overflow
      /\ e.ready = d.ready /\ e.turn = d.turn /\ e.waited = d.waited
      /\ e.status = [c \in Candidates |-> IF c \in S THEN "none" ELSE d.status[c]]
  BY <1>1, ForgetFields
<1>3. \A c \in Candidates : e.status[c] = IF c \in S THEN "none" ELSE d.status[c]
  BY <1>2
<1>4. /\ e.tombstones \in Seq(Candidates) /\ Len(e.tombstones) <= Len(d.tombstones)
      /\ Range(e.tombstones) = Range(d.tombstones) \ S
      /\ Distinct(d.tombstones) => Distinct(e.tombstones)
      /\ Range(d.tombstones) \cap S # {} => Len(e.tombstones) < Len(d.tombstones)
  BY <1>1, <1>2, WithoutFacts
<1>5. /\ WithStatus(e, Unfinished) = WithStatus(d, Unfinished)
      /\ WithStatus(e, {"ready"}) = WithStatus(d, {"ready"})
      /\ WithStatus(e, {"observed"}) \subseteq WithStatus(d, {"observed"})
      /\ WithStatus(e, {"acked"}) = WithStatus(d, {"acked"}) \ S
      /\ WithStatus(e, {"delayed", "acked"}) = WithStatus(d, {"delayed", "acked"}) \ S
  BY <1>3 DEF WithStatus, Unfinished
<1>6. TypesOK(e)
  BY <1>2, <1>4 DEF Statuses, RecordsOK, TypesOK, SameChain
<1>7. QueueOK(e)
  <2>1. WithStatus(d, {"observed"}) \in SUBSET Candidates
    BY DEF WithStatus
  <2>2. /\ Cardinality(WithStatus(e, {"observed"})) <= Cardinality(WithStatus(d, {"observed"}))
        /\ Cardinality(WithStatus(e, {"observed"})) \in Nat
        /\ Cardinality(WithStatus(d, {"observed"})) \in Nat
    BY <1>5, <2>1, FiniteCandidates, FS_Subset
  <2>3. Cardinality(WithStatus(d, {"observed"})) <= MaxPending
    BY DEF RecordsOK, QueueOK
  <2>4. Cardinality(WithStatus(e, {"observed"})) <= MaxPending
    BY <2>2, <2>3, Limits
  <2>5. QED
    BY <1>2, <1>5, <2>4, Zenon DEF RecordsOK, QueueOK, JournalCount
<1>8. IncidentsOK(e)
  BY <1>1, <1>2, <1>3, <1>5 DEF RecordsOK, IncidentsOK
<1>9. TombstonesOK(e)
  BY <1>4, <1>5, Zenon DEF RecordsOK, TombstonesOK
<1>10. TokensOK(e)
  BY <1>2 DEF RecordsOK, TokensOK
<1>11. TurnsOK(e)
  BY <1>2 DEF RecordsOK, TurnsOK
<1>12. ReadyStays(d, e)
  BY <1>3 DEF ReadyStays, Unfinished
<1>13. QED
  BY <1>2, <1>3, <1>4, <1>5, <1>6, <1>7, <1>8, <1>9, <1>10, <1>11, <1>12, Zenon DEF RecordsOK,
     Forgotten

\* The fields that trimming and the checkpoint leave alone.
SameRecords(d, e) ==
  /\ DOMAIN e = DbFields
  /\ e.incidents = d.incidents /\ e.tombstones = d.tombstones
  /\ e.discovered = d.discovered /\ e.overflow = d.overflow
  /\ e.ready = d.ready /\ e.turn = d.turn /\ e.waited = d.waited
  /\ e.status = d.status

LEMMA RecordsFrame ==
  ASSUME NEW d, NEW e, RecordsOK(d), SameRecords(d, e),
         e.blocks \subseteq Blocks, e.cursor \in Blocks \cup {NoBlock},
         e.baseline \in Nat, e.checkpoint \in Nat
  PROVE  /\ RecordsOK(e) /\ ReadyStays(d, e)
         /\ WithStatus(e, Unfinished) = WithStatus(d, Unfinished)
BY DEF SameRecords, WithStatus, RecordsOK, TypesOK, QueueOK, JournalCount, IncidentsOK,
   TombstonesOK, TokensOK, TurnsOK, ReadyStays

\* What moving the checkpoint does for the caller.
Advanced(d, e) ==
  /\ ReadyStays(d, e) /\ e.ready = d.ready
  /\ WithStatus(e, Unfinished) = WithStatus(d, Unfinished)

LEMMA TrimKeeps ==
  ASSUME NEW d, NEW com, NEW ack, RecordsOK(d), Len(d.tombstones) <= TombstoneLimit,
         MembersOK(d), ChainOK(d), CompleteOK(d), HistoryOK(d, com, ack), InChain(d), Exact(d),
         NEW e, e = TrimCanonicalBlocks(d)
  PROVE  StoreOK(e, com, ack) /\ Exact(e) /\ Advanced(d, e)
<1> DEFINE from == d.checkpoint - CanonicalBlockLimit + 1
           dropped == {b \in d.blocks : Number[b] < from}
           F == UNION {Members(b) : b \in dropped}
           k == Forget(d, F)
<1>1. /\ DOMAIN d = DbFields /\ d.blocks \subseteq Blocks /\ d.cursor \in Blocks
      /\ d.baseline \in Nat /\ d.checkpoint \in Nat /\ d.tombstones \in Seq(Candidates)
  BY Zenon DEF RecordsOK, TypesOK, InChain
<1>2. /\ \A b \in d.blocks : Number[b] \in Nat /\ Number[b] > 0
      /\ CanonicalBlockLimit \in Nat /\ CanonicalBlockLimit > 0
  BY <1>1, Given, Limits
<1>3. /\ d.cursor \in d.blocks /\ d.baseline > 0
      /\ \A b \in d.blocks : Number[b] \in d.baseline .. Number[d.cursor]
      /\ \A n \in d.baseline .. Number[d.cursor] : \E b \in d.blocks : Number[b] = n
      /\ \A a, b \in d.blocks : Number[a] = Number[b] => a = b
      /\ \A b \in d.blocks : Number[b] # d.baseline =>
           Parent[b] \in d.blocks /\ Number[Parent[b]] = Number[b] - 1
  BY Zenon DEF ChainOK, InChain
<1>4. /\ d.checkpoint \in d.baseline .. Number[d.cursor]
      /\ Number[d.cursor] - d.checkpoint <= UnconfirmedBlockLimit /\ d.cursor # NoBlock
  BY DEF InChain
<1>5. CASE from <= d.baseline
  BY <1>1, <1>2, <1>5 DEF TrimCanonicalBlocks, CheckpointOK, StoreOK, ChainParts, Advanced,
     ReadyStays
<1>6. CASE ~ (from <= d.baseline)
  <2>1. e = [k EXCEPT !.blocks = @ \ dropped, !.baseline = from]
    BY <1>6 DEF TrimCanonicalBlocks
  <2>2. from \in Nat /\ from > d.baseline /\ from <= d.checkpoint
    BY <1>1, <1>2, <1>6
  <2>3. \A b \in dropped : b \in d.blocks /\ Number[b] < from /\ BlockComplete(d, b)
    BY <1>1, <1>2, <2>2 DEF CompleteOK
  <2> HIDE DEF from
  <2>4. \A c \in Candidates : c \in F <=> Indexed(c) /\ Info[c].block \in dropped
    BY DEF Members
  <2>5. F \subseteq Candidates /\ \A c \in F : d.status[c] = "acked"
    BY <2>3 DEF BlockComplete, Members
  <2>6. \A b : b \in dropped <=> b \in d.blocks /\ Number[b] < from
    OBVIOUS
  <2> HIDE DEF F, dropped
  <2>7. \A c \in F : d.status[c] \notin Unfinished
    BY <2>5 DEF Unfinished
  <2>8. RecordsOK(k) /\ Forgotten(d, k, F)
    BY <2>5, <2>7, ForgetKeeps, Zenon
  <2>9. DOMAIN k = DbFields
    BY <2>8, Zenon DEF RecordsOK, TypesOK
  <2> HIDE DEF k
  <2>10. /\ SameRecords(k, e) /\ e.checkpoint = k.checkpoint
         /\ e.blocks = k.blocks \ dropped /\ e.baseline = from /\ e.cursor = k.cursor
    BY <2>1, <2>9, Zenon DEF SameRecords, DbFields
  <2>11. /\ e.checkpoint = d.checkpoint /\ e.cursor = d.cursor /\ e.baseline = from
         /\ e.blocks = d.blocks \ dropped
    BY <2>8, <2>10, Zenon DEF Forgotten, SameChain
  <2>12. /\ RecordsOK(e) /\ ReadyStays(k, e)
         /\ WithStatus(e, Unfinished) = WithStatus(k, Unfinished)
    BY <1>1, <2>2, <2>8, <2>10, <2>11, RecordsFrame
  <2>13. Advanced(d, e)
    BY <2>8, <2>10, <2>12, Zenon DEF Advanced, Forgotten, ReadyStays, SameRecords
  <2>14. Len(e.tombstones) <= TombstoneLimit
    BY <1>1, <2>8, <2>10, <2>12, Limits DEF Forgotten, SameRecords, RecordsOK, TypesOK
  <2>15. \A c \in Candidates : e.status[c] = IF c \in F THEN "none" ELSE d.status[c]
    BY <2>8, <2>10, Zenon DEF Forgotten, SameRecords
  <2>16. MembersOK(e)
    BY <2>4, <2>11, <2>15 DEF MembersOK
  <2>17. ChainOK(e)
    <3>1. \A b \in d.blocks : b \in e.blocks <=> Number[b] >= from
      BY <1>2, <2>2, <2>6, <2>11
    <3>2. e.blocks \subseteq d.blocks
      BY <2>11
    <3>3. d.cursor \in e.blocks
      BY <1>2, <1>3, <1>4, <2>2, <3>1
    <3>4. \A b \in e.blocks : Number[b] \in from .. Number[d.cursor]
      BY <1>2, <1>3, <2>2, <3>1, <3>2
    <3>5. ASSUME NEW n \in from .. Number[d.cursor] PROVE \E b \in e.blocks : Number[b] = n
      BY <1>1, <1>3, <2>2, <3>1
    <3>6. ASSUME NEW b \in e.blocks, Number[b] # from
          PROVE  Parent[b] \in e.blocks /\ Number[Parent[b]] = Number[b] - 1
      BY <1>2, <1>3, <2>2, <3>1, <3>2, <3>6
    <3>7. \A a, b \in e.blocks : Number[a] = Number[b] => a = b
      BY <1>3, <3>2
    <3>8. from > 0
      BY <1>1, <2>2
    <3>9. QED
      BY <2>11, <3>3, <3>4, <3>5, <3>6, <3>7, <3>8, Zenon DEF ChainOK
  <2>18. ASSUME NEW b \in e.blocks
         PROVE  b \in d.blocks /\ (BlockComplete(e, b) <=> BlockComplete(d, b))
    BY <2>4, <2>11, <2>15 DEF Members, BlockComplete
  <2>19. CompleteOK(e)
    BY <2>11, <2>18 DEF CompleteOK
  <2>20. CheckpointOK(e)
    BY <1>1, <1>2, <1>3, <1>4, <2>2, <2>11 DEF InChain, from, CheckpointOK
  <2>21. HistoryOK(e, com, ack)
    <3>1. /\ d.blocks \subseteq com /\ com \subseteq Blocks
          /\ \A b \in com \ d.blocks :
               d.checkpoint # 0 /\ Number[b] < d.baseline /\ Members(b) \subseteq ack
          /\ \A c \in Candidates : Indexed(c) =>
               /\ c \in ack => Info[c].block \in com
               /\ Info[c].block \in d.blocks => (d.status[c] = "acked" <=> c \in ack)
      BY DEF HistoryOK
    <3>2. ASSUME NEW b \in com \ e.blocks
          PROVE  e.checkpoint # 0 /\ Number[b] < e.baseline /\ Members(b) \subseteq ack
      <4>1. CASE b \in dropped
        BY <1>1, <2>2, <2>3, <2>6, <2>11, <3>1, <4>1 DEF BlockComplete, Members
      <4>2. CASE b \notin dropped
        BY <1>1, <2>2, <2>11, <3>1, <3>2, <4>2, Given
      <4>3. QED
        BY <4>1, <4>2, Zenon
    <3>3. ASSUME NEW c \in Candidates, Indexed(c), Info[c].block \in e.blocks
          PROVE  e.status[c] = "acked" <=> c \in ack
      BY <2>4, <2>11, <2>15, <3>1, <3>3
    <3>4. e.blocks \subseteq com
      BY <2>11, <3>1
    <3>5. QED
      BY <3>2, <3>3, <3>4, Zenon DEF HistoryOK
  <2>22. Exact(e)
    BY <1>1, <2>2, <2>11, <2>18 DEF NextHeight, Exact
  <2>23. QED
    BY <2>12, <2>13, <2>14, <2>16, <2>17, <2>19, <2>20, <2>21, <2>22 DEF StoreOK, ChainParts
<1>7. QED
  BY <1>5, <1>6

LEMMA AdvanceKeeps ==
  ASSUME NEW d, NEW com, NEW ack, StoreOK(d, com, ack), NEW e, e = AdvanceCheckpoint(d)
  PROVE  StoreOK(e, com, ack) /\ Exact(e) /\ Advanced(d, e)
<1> DEFINE next == NextHeight(d)
           stored == {Number[b] : b \in d.blocks}
           reach == {n \in stored : n >= next /\
                       \A m \in next .. n : \E b \in StoredAt(d, m) : BlockComplete(d, b)}
           m == Max(reach)
           k == [d EXCEPT !.checkpoint = m]
<1>1. e = IF reach = {} THEN d ELSE TrimCanonicalBlocks(k)
  BY DEF AdvanceCheckpoint, NextHeight
<1>2. /\ DOMAIN d = DbFields /\ d.blocks \subseteq Blocks /\ d.cursor \in Blocks \cup {NoBlock}
      /\ d.baseline \in Nat /\ d.checkpoint \in Nat
  BY StoreParts, Zenon DEF TypesOK
<1>3. \A b \in d.blocks : Number[b] \in Nat /\ Number[b] > 0
  BY <1>2, Given
<1>4. next \in Nat
  BY <1>2 DEF NextHeight
<1>5. \A n : n \in reach <=>
        /\ \E b \in d.blocks : Number[b] = n
        /\ n >= next
        /\ \A i \in next .. n : \E b \in d.blocks : Number[b] = i /\ BlockComplete(d, b)
  BY DEF StoredAt
<1> HIDE DEF next, reach
<1>6. CASE reach = {}
  BY <1>1, <1>4, <1>5, <1>6 DEF Exact, next, Advanced, ReadyStays
<1>7. CASE reach # {}
  <2>1. d.cursor # NoBlock
    BY <1>5, <1>7, StoreParts DEF ChainOK
  <2>2. /\ d.cursor \in d.blocks /\ d.baseline > 0 /\ Number[d.cursor] \in Nat
        /\ \A b \in d.blocks : Number[b] \in d.baseline .. Number[d.cursor]
        /\ \A a, b \in d.blocks : Number[a] = Number[b] => a = b
    BY <1>3, <2>1, StoreParts, Zenon DEF ChainOK
  <2>3. reach \in SUBSET Int /\ IsFiniteSet(reach)
    <3>1. reach \in SUBSET (d.baseline .. Number[d.cursor])
      BY <1>5, <2>2
    <3>2. IsFiniteSet(d.baseline .. Number[d.cursor])
      <4>1. \A a, b \in Int : IsFiniteSet(a .. b)
        BY FS_Interval
      <4>2. d.baseline \in Int /\ Number[d.cursor] \in Int
        BY <1>2, <2>2
      <4>3. QED
        BY <4>1, <4>2
    <3>3. IsFiniteSet(reach)
      BY <3>1, <3>2, FS_Subset, Zenon
    <3>4. d.baseline .. Number[d.cursor] \subseteq Int
      OBVIOUS
    <3>5. QED
      BY <3>1, <3>3, <3>4
  <2>4. m \in reach /\ \A n \in reach : m >= n
    BY <1>7, <2>3, Maximum
  <2>5. e = TrimCanonicalBlocks(k)
    BY <1>1, <1>7
  <2> HIDE DEF m
  <2>6. /\ SameRecords(d, k) /\ k.checkpoint = m
        /\ k.blocks = d.blocks /\ k.baseline = d.baseline /\ k.cursor = d.cursor
    BY <1>2, Zenon DEF SameRecords, DbFields
  <2> HIDE DEF k
  <2>7. /\ m \in d.baseline .. Number[d.cursor] /\ m \in Nat /\ m >= next /\ m # 0
    BY <1>3, <1>5, <2>2, <2>4
  <2>8. \A b : BlockComplete(k, b) <=> BlockComplete(d, b)
    BY <2>6 DEF BlockComplete, SameRecords
  <2>9. CompleteOK(k)
    <3>1. SUFFICES ASSUME NEW b \in d.blocks, Number[b] <= m PROVE BlockComplete(d, b)
      BY <2>6, <2>8 DEF CompleteOK
    <3>2. CASE Number[b] >= next
      <4>1. Number[b] \in next .. m
        BY <1>3, <1>4, <2>7, <3>1, <3>2
      <4>2. PICK a \in d.blocks : Number[a] = Number[b] /\ BlockComplete(d, a)
        BY <1>5, <2>4, <4>1
      <4>3. QED
        BY <2>2, <4>2
    <3>3. CASE ~ (Number[b] >= next)
      <4>1. Number[b] <= d.checkpoint
        <5>1. Number[b] \in Nat /\ Number[b] >= d.baseline
          BY <1>2, <1>3, <2>2
        <5>2. QED
          BY <1>2, <3>3, <5>1 DEF next, NextHeight
      <4>2. QED
        BY <4>1, StoreParts, Zenon DEF CompleteOK
    <3>4. QED
      BY <3>2, <3>3
  <2>10. Exact(k)
    BY <1>4, <1>5, <2>4, <2>6, <2>7, <2>8 DEF NextHeight, Exact
  <2>11. InChain(k)
    <3>1. Number[d.cursor] - m <= UnconfirmedBlockLimit
      BY <1>2, <2>1, <2>2, <2>7, Limits, StoreParts DEF InChain, next, NextHeight, CheckpointOK
    <3>2. QED
      BY <2>1, <2>6, <2>7, <3>1 DEF InChain
  <2>12. MembersOK(k)
    BY <2>6, StoreParts DEF MembersOK, SameRecords
  <2>13. ChainOK(k)
    BY <2>1, <2>6, StoreParts DEF ChainOK
  <2>14. HistoryOK(k, com, ack)
    BY <2>6, <2>7, StoreParts DEF HistoryOK, SameRecords
  <2>15. RecordsOK(k) /\ Advanced(d, k) /\ Len(k.tombstones) <= TombstoneLimit
    BY <1>2, <2>6, <2>7, StoreParts, RecordsFrame, Zenon DEF Advanced, SameRecords
  <2>16. StoreOK(e, com, ack) /\ Exact(e) /\ Advanced(k, e)
    BY <2>5, <2>9, <2>10, <2>11, <2>12, <2>13, <2>14, <2>15, TrimKeeps
  <2>17. QED
    BY <2>15, <2>16 DEF Advanced, ReadyStays
<1>8. QED
  BY <1>6, <1>7

LEMMA AdvanceStays ==
  ASSUME NEW d, NEW com, NEW ack, StoreOK(d, com, ack), Exact(d)
  PROVE  AdvanceCheckpoint(d) = d
<1> DEFINE next == NextHeight(d)
           stored == {Number[b] : b \in d.blocks}
           reach == {n \in stored : n >= next /\
                       \A m \in next .. n : \E b \in StoredAt(d, m) : BlockComplete(d, b)}
<1>1. next \in Nat /\ \A b \in d.blocks : Number[b] \in Nat
  BY StoreParts, Given DEF TypesOK, NextHeight
<1>2. SUFFICES ASSUME NEW n \in reach PROVE FALSE
  BY DEF AdvanceCheckpoint, NextHeight
<1>3. n \in Nat /\ n >= next /\ \A m \in next .. n : \E b \in StoredAt(d, m) : BlockComplete(d, b)
  BY <1>1
<1> HIDE DEF next, reach
<1>4. next \in next .. n
  BY <1>1, <1>3
<1>5. PICK b \in StoredAt(d, next) : BlockComplete(d, b)
  BY <1>3, <1>4
<1>6. QED
  BY <1>5, Zenon DEF Exact, StoredAt, next

-----------------------------------------------------------------------------
(* The file is one that Open accepts.                                      *)

LEMMA IndexesValid ==
  ASSUME NEW d, NEW com, NEW ack, StoreOK(d, com, ack)
  PROVE  ValidateCandidateIndexes(d) /\ ValidateTombstones(d)
<1>1. /\ d.ready \in Seq(Candidates) /\ Distinct(d.ready)
      /\ d.tombstones \in Seq(Candidates) /\ Distinct(d.tombstones)
  BY StoreParts, Zenon DEF TypesOK, QueueOK, TombstonesOK
<1>2. NoDuplicates(d.ready) /\ NoDuplicates(d.tombstones)
  <2>1. \A s \in Seq(Candidates) : Distinct(s) => NoDuplicates(s)
    BY DistinctLength DEF NoDuplicates
  <2>2. QED
    BY <1>1, <2>1
<1>3. ValidateCandidateIndexes(d)
  BY <1>2, StoreParts, Zenon DEF QueueOK, ValidateCandidateIndexes
<1>4. \A c \in WithStatus(d, {"acked"}) \ Range(d.tombstones) : RetainedCanonicalMember(d, c)
  <2>1. SUFFICES ASSUME NEW c \in WithStatus(d, {"acked"}), c \notin Range(d.tombstones)
                 PROVE  Indexed(c) /\ Info[c].block \in d.blocks
    BY DEF RetainedCanonicalMember
  <2>2. c \in Candidates /\ d.status[c] = "acked"
    BY <2>1 DEF WithStatus
  <2>3. Indexed(c)
    BY <2>1, StoreParts DEF TombstonesOK
  <2>4. QED
    BY <2>2, <2>3, StoreParts, Zenon DEF MembersOK
<1>5. ValidateTombstones(d)
  BY <1>2, <1>4, StoreParts, Zenon DEF TombstonesOK, ValidateTombstones
<1>6. QED
  BY <1>3, <1>5

LEMMA CheckpointExpected ==
  ASSUME NEW d, NEW com, NEW ack, StoreOK(d, com, ack), Exact(d), d.cursor # NoBlock
  PROVE  d.checkpoint = ExpectedCheckpoint(d)
<1> DEFINE C == Number[d.cursor]
           B == d.baseline
           done == {n \in B .. C : \A m \in B .. n : \E b \in StoredAt(d, m) : BlockComplete(d, b)}
<1>1. /\ d.blocks \subseteq Blocks /\ B \in Nat /\ d.checkpoint \in Nat
      /\ d.cursor \in d.blocks /\ B > 0
      /\ \A n \in B .. C : \E b \in d.blocks : Number[b] = n
      /\ \A b \in d.blocks : Number[b] \in B .. C
  <2>1. d.blocks \subseteq Blocks /\ B \in Nat /\ d.checkpoint \in Nat
    BY StoreParts, Zenon DEF TypesOK
  <2>2. /\ d.cursor \in d.blocks /\ B > 0
        /\ \A n \in B .. C : \E b \in d.blocks : Number[b] = n
        /\ \A b \in d.blocks : Number[b] \in B .. C
    BY StoreParts, Zenon DEF ChainOK
  <2>3. QED
    BY <2>1, <2>2, Zenon
<1>2. C \in Nat /\ B <= C
  BY <1>1, Given
<1>3. ExpectedCheckpoint(d) = IF done = {} THEN 0 ELSE Max(done)
  BY DEF ExpectedCheckpoint
<1>4. d.checkpoint = 0 \/ d.checkpoint \in B .. C
  BY StoreParts, Zenon DEF CheckpointOK, InChain
<1>5. \A n \in done : n \in B .. C /\
        \A m \in B .. n : \E b \in d.blocks : Number[b] = m /\ BlockComplete(d, b)
  BY DEF StoredAt
<1>6. CASE d.checkpoint = 0
  BY <1>1, <1>2, <1>3, <1>5, <1>6 DEF Exact, NextHeight
<1>7. CASE d.checkpoint # 0
  <2>1. d.checkpoint \in B .. C
    BY <1>4, <1>7
  <2>2. \A b \in d.blocks : Number[b] = d.checkpoint + 1 => ~BlockComplete(d, b)
    BY <1>7 DEF Exact, NextHeight
  <2>3. d.checkpoint \in done
    <3>1. SUFFICES ASSUME NEW m \in B .. d.checkpoint
                   PROVE  \E b \in StoredAt(d, m) : BlockComplete(d, b)
      BY <2>1
    <3>2. m \in B .. C /\ m <= d.checkpoint
      BY <1>1, <1>2, <2>1
    <3>3. PICK b \in d.blocks : Number[b] = m
      BY <1>1, <3>2
    <3>4. QED
      BY <3>2, <3>3, StoreParts, Zenon DEF StoredAt, CompleteOK
  <2>4. ASSUME NEW n \in done PROVE n <= d.checkpoint
    BY <1>1, <1>2, <1>5, <2>1, <2>2, <2>4
  <2>5. done \in SUBSET Int /\ IsFiniteSet(done) /\ done # {}
    <3>1. IsFiniteSet(B .. C)
      BY <1>1, <1>2, FS_Interval
    <3>2. done \in SUBSET (B .. C)
      OBVIOUS
    <3>3. IsFiniteSet(done)
      BY <3>1, <3>2, FS_Subset, Zenon
    <3>4. done \in SUBSET Int
      BY <1>2, <3>2
    <3>5. QED
      BY <2>3, <3>3, <3>4
  <2> HIDE DEF done
  <2>6. Max(done) \in done /\ \A y \in done : Max(done) >= y
    BY <2>5, Maximum
  <2>7. Max(done) \in Int /\ Max(done) <= d.checkpoint /\ d.checkpoint <= Max(done)
    BY <2>3, <2>4, <2>5, <2>6, Zenon
  <2>8. ExpectedCheckpoint(d) = Max(done)
    BY <1>3, <2>5, Zenon
  <2>9. d.checkpoint = Max(done)
    BY <1>1, <2>7
  <2>10. QED
    BY <2>8, <2>9
<1>8. QED
  BY <1>6, <1>7

LEMMA ChainValid ==
  ASSUME NEW d, NEW com, NEW ack, StoreOK(d, com, ack), Exact(d), d.cursor # NoBlock
  PROVE  ValidateChain(d)
<1> DEFINE C == Number[d.cursor]
           B == d.baseline
<1>1. /\ d.blocks \subseteq Blocks /\ B \in Nat /\ d.checkpoint \in Nat
      /\ d.cursor \in d.blocks
      /\ \A n \in B .. C : \E b \in d.blocks : Number[b] = n
      /\ \A b \in d.blocks : Number[b] \in B .. C
      /\ \A a, b \in d.blocks : Number[a] = Number[b] => a = b
      /\ \A b \in d.blocks : Number[b] # B => Parent[b] \in d.blocks
  <2>1. d.blocks \subseteq Blocks /\ B \in Nat /\ d.checkpoint \in Nat
    BY StoreParts, Zenon DEF TypesOK
  <2>2. /\ d.cursor \in d.blocks
        /\ \A n \in B .. C : \E b \in d.blocks : Number[b] = n
        /\ \A b \in d.blocks : Number[b] \in B .. C
        /\ \A a, b \in d.blocks : Number[a] = Number[b] => a = b
        /\ \A b \in d.blocks : Number[b] # B => Parent[b] \in d.blocks
    BY StoreParts, Zenon DEF ChainOK
  <2>3. QED
    BY <2>1, <2>2, Zenon
<1>2. C \in Nat /\ B <= C
  BY <1>1, Given
<1>3. {Number[b] : b \in d.blocks} = B .. C
  BY <1>1
<1>4. Cardinality(d.blocks) = C - B + 1
  <2> DEFINE g == [n \in B .. C |-> CHOOSE b \in d.blocks : Number[b] = n]
  <2>1. \A n \in B .. C : g[n] \in d.blocks /\ Number[g[n]] = n
    BY <1>1
  <2>2. g \in [B .. C -> d.blocks]
    BY <2>1, Zenon
  <2>3. \A a, n \in B .. C : g[a] = g[n] => a = n
    BY <2>1
  <2>4. \A b \in d.blocks : \E n \in B .. C : g[n] = b
    BY <1>1, <2>1
  <2> HIDE DEF g
  <2>5. g \in Bijection(B .. C, d.blocks)
    BY <2>2, <2>3, <2>4 DEF Bijection, Injection, Surjection, IsInjective
  <2>6. IsFiniteSet(B .. C) /\ Cardinality(B .. C) = C - B + 1
    <3> HIDE DEF B, C
    <3>1. B \in Int /\ C \in Int /\ ~(B > C)
      BY <1>1, <1>2
    <3>2. QED
      BY <3>1, FS_Interval
  <2>7. PICK S : S = B .. C
    OBVIOUS
  <2>8. Cardinality(d.blocks) = Cardinality(S)
    BY <2>5, <2>6, <2>7, FS_Bijection DEF ExistsBijection
  <2>9. QED
    BY <2>6, <2>7, <2>8
<1>5. ASSUME NEW b \in d.blocks
      PROVE  /\ ForeignAt(d, b) = {}
             /\ \A c \in Members(b) : d.status[c] \notin {"none", "observed"}
  <2>1. MembersOK(d)
    BY StoreParts, Zenon
  <2>2. QED
    BY <1>5, <2>1, Zenon DEF MembersOK, ForeignAt, Members
<1>6. d.checkpoint = ExpectedCheckpoint(d)
  BY CheckpointExpected
<1>7. IF d.checkpoint = 0
      THEN C - B + 1 <= UnconfirmedBlockLimit
      ELSE /\ d.checkpoint - B + 1 <= CanonicalBlockLimit
           /\ C - d.checkpoint <= UnconfirmedBlockLimit
  <2>1. \/ d.checkpoint = 0 /\ C - B < UnconfirmedBlockLimit
        \/ /\ d.checkpoint \in B .. C /\ C - d.checkpoint <= UnconfirmedBlockLimit
           /\ d.checkpoint - B < CanonicalBlockLimit
    BY StoreParts, Zenon DEF CheckpointOK, InChain
  <2>2. B > 0
    BY StoreParts, Zenon DEF ChainOK
  <2>3. QED
    BY <1>1, <1>2, <2>1, <2>2, Limits
<1>8. QED
  BY <1>1, <1>2, <1>3, <1>4, <1>5, <1>6, <1>7 DEF ValidateChain

LEMMA FileValid ==
  ASSUME NEW d, NEW com, NEW ack, StoreOK(d, com, ack), Exact(d)
  PROVE  ValidateDatabase(d)
BY IndexesValid, StoreParts, ChainValid, Zenon DEF IncidentsOK, TokensOK, ChainOK,
   ValidateDatabase

=============================================================================
