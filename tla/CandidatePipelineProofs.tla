----------------------- MODULE CandidatePipelineProofs -----------------------
(***************************************************************************)
(* What the candidate pipeline promises, for any chain, candidates and     *)
(* limits and any number of callers.  First what a caller may conclude     *)
(* from the promises of the store (WorkJournal) and that waiting for it    *)
(* loses no wake-up (WakeChannel).  Then the pipeline itself: the file is  *)
(* always one that Open accepts, promotions alternate, no work of a block  *)
(* is lost, only finalized work is done, and the store keeps the promises  *)
(* of WorkJournal.                                                         *)
(***************************************************************************)
EXTENDS PipelineWake, WorkJournal, CandidateTransactionProofs

-----------------------------------------------------------------------------
(* The promises of the store.                                              *)

\* A new store has accepted nothing.
LEMMA JournalStart == JournalInit => JournalInv
BY DEF JournalInit, JournalInv, NothingLost, ConfirmedUpTo

\* The invariant is kept: work leaves pending only when it is done and confirmed, and
\* the safe height is chosen for the blocks and confirmations of the same step.
LEMMA JournalStep == JournalInv /\ [JournalNext]_journalVars => JournalInv'
<1> SUFFICES ASSUME JournalInv, [JournalNext]_journalVars
             PROVE  JournalInv'
  OBVIOUS
<1> USE DEF JournalInv, NothingLost
<1>1. ASSUME NEW b \in Chain, AcceptBlock(b)
      PROVE  JournalInv'
  BY <1>1 DEF AcceptBlock, SafeHeight, ConfirmedUpTo
<1>2. ASSUME NEW c \in Items, Accept(c)
      PROVE  JournalInv'
  BY <1>2 DEF Accept, ConfirmedUpTo
<1>3. ASSUME NEW c \in Items, Do(c)
      PROVE  JournalInv'
  BY <1>3 DEF Do, ConfirmedUpTo
<1>4. ASSUME NEW c \in Items, Confirm(c)
      PROVE  JournalInv'
  BY <1>4 DEF Confirm, SafeHeight, ConfirmedUpTo
<1>5. CASE UNCHANGED journalVars
  BY <1>5 DEF journalVars, ConfirmedUpTo
<1>6. QED
  BY <1>1, <1>2, <1>3, <1>4, <1>5 DEF JournalNext

\* Nothing a block brought is lost, and below the safe height everything was handled,
\* for any chain, any work and any capacity.
THEOREM JournalKeepsWork == JournalSpec => [](NothingLost /\ SafeMeansDone)
<1>1. JournalInv => NothingLost /\ SafeMeansDone
  BY DEF JournalInv, SafeMeansDone, ConfirmedUpTo
<1>2. QED
  BY JournalStart, JournalStep, <1>1, PTL DEF JournalSpec

-----------------------------------------------------------------------------
(* Waiting for the store.                                                  *)

\* The store is opened with nobody inside it.
LEMMA WakeInitHolds == WakeInit => WakeInv
BY DEF WakeInit, WakeInv, WakeTypeOK, NoLostWakeup, Stages

\* Every step of a caller keeps the invariant; the sleepers that a commit makes stale
\* are covered by its announcement until notify closes their channels.
LEMMA WakeStep == WakeInv /\ [WakeNext]_wakeVars => WakeInv'
<1> SUFFICES ASSUME WakeInv, [WakeNext]_wakeVars
             PROVE  WakeInv'
  OBVIOUS
<1> USE DEF WakeInv, WakeTypeOK, NoLostWakeup, Stages, Move
<1>1. ASSUME NEW p \in Procs, WakeSignal(p)
      PROVE  WakeInv'
  BY <1>1 DEF WakeSignal
<1>2. ASSUME NEW p \in Procs, Blocked(p)
      PROVE  WakeInv'
  BY <1>2 DEF Blocked
<1>3. ASSUME NEW p \in Procs, Committed(p)
      PROVE  WakeInv'
  BY <1>3 DEF Committed
<1>4. ASSUME NEW p \in Procs, Returned(p)
      PROVE  WakeInv'
  BY <1>4 DEF Returned
<1>5. ASSUME NEW p \in Procs, Notify(p)
      PROVE  WakeInv'
  BY <1>5 DEF Notify, Holders
<1>6. ASSUME NEW p \in Procs, Again(p)
      PROVE  WakeInv'
  BY <1>6 DEF Again
<1>7. CASE Cancelled
  BY <1>7 DEF Cancelled
<1>8. CASE Lost
  BY <1>8 DEF Lost
<1>9. CASE UNCHANGED wakeVars
  BY <1>9 DEF wakeVars
<1>10. QED
  BY <1>1, <1>2, <1>3, <1>4, <1>5, <1>6, <1>7, <1>8, <1>9 DEF WakeNext

\* The waiting of the store loses no wake-up, however many callers there are and
\* however their transactions and notifications interleave.
THEOREM WakeupsKept == WakeSpec => []NoLostWakeup
<1>1. WakeInv => NoLostWakeup
  BY DEF WakeInv
<1>2. QED
  BY WakeInitHolds, WakeStep, <1>1, PTL DEF WakeSpec

-----------------------------------------------------------------------------
(* The invariant.                                                          *)

\* The candidate the consumer holds is in the ready list, and handled when it says so.
WorkerOK ==
  /\ DOMAIN worker = {"pc", "cand"}
  /\ worker.pc \in {"idle", "taken", "linked", "finished", "replay"}
  /\ worker.pc # "idle" => worker.cand \in Candidates /\ db.status[worker.cand] = "ready"
  /\ worker.pc = "finished" => worker.cand \in handled

PipeInv ==
  /\ StoreOK(db, committed, acknowledged) /\ Exact(db)
  /\ WorkerOK
  /\ committed \subseteq Finalized
  /\ acknowledged \subseteq handled

-----------------------------------------------------------------------------
(* The steps of the pipeline.                                              *)

LEMMA ScanStep ==
  ASSUME PipeInv, NEW b \in Blocks, Scan(b)
  PROVE  BlockAdded(db, db', committed, acknowledged, b)
BY CommitKeeps DEF PipeInv, Scan, CommitCanonicalBlock, MayCommit

LEMMA SightStep ==
  ASSUME PipeInv, NEW c \in Candidates, Sight(c)
  PROVE  \/ Kept(db, db', committed, acknowledged)
         \/ ~Indexed(c) /\ PutAdds(db, db', committed, acknowledged, c)
<1>1. StoreOK(db, committed, acknowledged) /\ Exact(db)
  BY DEF PipeInv
<1>2. CASE Put(c)
  <2>1. PICK k : k = [db EXCEPT !.status[c] = "staged"]
    BY Zenon
  <2>2. db' = PromoteCandidates(k, now)
    BY <1>2, <2>1, Zenon DEF Put
  <2>3. ~Indexed(c) /\ db.status[c] = "none" /\ ReserveJournal(db, 1)
    BY <1>2 DEF Put, Indexed
  <2>4. \A x : x = [db EXCEPT !.status[c] = "staged"] =>
          \A y : y = PromoteCandidates(x, now) => PutAdds(db, y, committed, acknowledged, c)
    BY <1>1, <2>3, PutTransaction
  <2>5. PutAdds(db, db', committed, acknowledged, c)
    BY <2>1, <2>2, <2>4, Zenon
  <2>6. QED
    BY <2>3, <2>5
<1>3. CASE PutObserved(c)
  BY <1>1, <1>3, ObserveKeeps DEF PutObserved, Indexed, Kept, SameChain
<1>4. CASE MarkRemoved(c)
  BY <1>1, <1>4, RemoveKeeps DEF MarkRemoved, Kept, SameChain
<1>5. QED
  BY <1>2, <1>3, <1>4 DEF Sight

LEMMA TakeStep ==
  ASSUME PipeInv, Take
  PROVE  /\ Kept(db, db', committed, acknowledged)
         /\ worker' = [pc |-> "taken", cand |-> Head(db'.ready)]
         /\ Head(db'.ready) \in Candidates /\ db'.status[Head(db'.ready)] = "ready"
<1>1. StoreOK(db, committed, acknowledged) /\ Exact(db)
  BY DEF PipeInv
<1>2. db' = PromoteCandidates(db, now) /\ db'.ready # <<>>
  BY DEF Take, NextCandidate
<1>3. StoreOK(db', committed, acknowledged) /\ Promoted(db, db')
  BY <1>1, <1>2, PromoteCandidatesKeeps
<1>4. Kept(db, db', committed, acknowledged)
  BY <1>1, <1>3 DEF Kept, Promoted, SameChain
<1>5. db'.ready \in Seq(Candidates) /\ Range(db'.ready) = WithStatus(db', {"ready"})
  BY <1>3, StoreParts DEF TypesOK, QueueOK
<1>6. PICK r : r = db'.ready
  OBVIOUS
<1>7. Head(r) \in Range(r)
  BY <1>2, <1>5, <1>6 DEF Range
<1>8. QED
  BY <1>4, <1>5, <1>6, <1>7 DEF Take, WithStatus

LEMMA LinkStep ==
  ASSUME PipeInv, Link
  PROVE  Kept(db, db', committed, acknowledged)
BY IncidentKeeps DEF PipeInv, WorkerOK, Link, At, PutIncident, Kept, SameChain

LEMMA PostponeStep ==
  ASSUME PipeInv, Postpone
  PROVE  /\ StoreOK(db', committed, acknowledged) /\ Exact(db')
         /\ db'.checkpoint = db.checkpoint
         /\ WithStatus(db', Unfinished) = WithStatus(db, Unfinished)
<1>1. StoreOK(db, committed, acknowledged) /\ Exact(db)
  BY DEF PipeInv
<1>2. worker.cand \in Candidates
  BY DEF PipeInv, WorkerOK, Postpone, At
<1>3. PICK c : c = worker.cand
  OBVIOUS
<1>4. PICK t \in RetryTimes : Nack(c, t)
  BY <1>3 DEF Postpone
<1>5. PICK k : k = Nacked(db, c, t)
  OBVIOUS
<1>6. db' = PromoteCandidates(k, now)
  BY <1>4, <1>5, Zenon DEF Nack, Nacked
<1>7. db.status[c] = "ready" /\ c \in db.incidents
  BY <1>4 DEF Nack, Resolvable
<1>8. QED
  BY <1>1, <1>2, <1>3, <1>5, <1>6, <1>7, NackTransaction

LEMMA AcknowledgeStep ==
  ASSUME PipeInv, Acknowledge
  PROVE  /\ StoreOK(db', committed, acknowledged \cup {worker.cand}) /\ Exact(db')
         /\ WithStatus(db', Unfinished) = WithStatus(db, Unfinished) \ {worker.cand}
         /\ worker.cand \in WithStatus(db, Unfinished) /\ worker.cand \in handled
<1>1. StoreOK(db, committed, acknowledged) /\ Exact(db)
  BY DEF PipeInv
<1>2. worker.cand \in Candidates /\ worker.cand \in handled
  BY DEF PipeInv, WorkerOK, Acknowledge, At
<1>3. PICK c : c = worker.cand
  OBVIOUS
<1>4. db.status[c] = "ready" /\ c \in db.incidents
  BY <1>3 DEF Acknowledge, Ack, Resolvable
<1>5. PICK a, k, f : /\ a = Acked(db, c)
                     /\ k = AddTombstone(a, c) /\ f = AdvanceCheckpoint(k)
                     /\ db' = PromoteCandidates(f, now)
  BY <1>3, Zenon DEF Acknowledge, Ack, Acked
<1>7. /\ StoreOK(db', committed, acknowledged \cup {c}) /\ Exact(db')
      /\ WithStatus(db', Unfinished) = WithStatus(db, Unfinished) \ {c}
      /\ c \in WithStatus(db, Unfinished)
  BY <1>1, <1>2, <1>3, <1>4, <1>5, AckTransaction
<1>8. QED
  BY <1>2, <1>3, <1>7

-----------------------------------------------------------------------------
(* The invariant of the pipeline.                                          *)

LEMMA InitHolds ==
  PipelineInit => PipeInv
<1> SUFFICES ASSUME PipelineInit PROVE PipeInv
  OBVIOUS
<1>1. /\ db = [status     |-> [c \in Candidates |-> "none"],
               retryAt    |-> [c \in Candidates |-> 0],
               ready      |-> <<>>,
               incidents  |-> {},
               blocks     |-> {},
               baseline   |-> 0,
               cursor     |-> NoBlock,
               checkpoint |-> 0,
               turn       |-> FALSE,
               waited     |-> [staged |-> 0, delayed |-> 0],
               tombstones |-> <<>>,
               discovered |-> {},
               overflow   |-> FALSE]
      /\ worker = Idle /\ committed = {} /\ handled = {} /\ acknowledged = {}
  BY DEF PipelineInit, Init
<1>2. /\ DOMAIN db = DbFields
      /\ db.status = [c \in Candidates |-> "none"] /\ db.ready = <<>> /\ db.incidents = {}
      /\ db.blocks = {} /\ db.baseline = 0 /\ db.cursor = NoBlock /\ db.checkpoint = 0
      /\ db.turn = FALSE /\ db.waited.staged = 0 /\ db.waited.delayed = 0
      /\ db.tombstones = <<>> /\ db.discovered = {} /\ db.overflow = FALSE
  BY <1>1 DEF DbFields
<1>2a. /\ db.turn \in BOOLEAN /\ ~db.turn /\ db.overflow \in BOOLEAN /\ ~db.overflow
  BY <1>2, Zenon
<1>3. \A c \in Candidates : db.status[c] = "none"
  BY <1>2
<1>4. /\ <<>> \in Seq(Candidates) /\ Len(<<>>) = 0 /\ Range(<<>>) = {} /\ Distinct(<<>>)
  BY DEF Range, Distinct
<1>5. \A S \in {Unfinished, {"ready"}, {"observed"}, {"acked"}, {"delayed", "acked"}} :
        WithStatus(db, S) = {}
  BY <1>3 DEF WithStatus, Unfinished
<1>6. Cardinality({}) = 0 /\ IsFiniteSet({})
  BY FS_EmptySet
<1>7. TypesOK(db)
  BY <1>2, <1>2a DEF Statuses, TypesOK
<1>8. QueueOK(db)
  <2>1. Cardinality(WithStatus(db, Unfinished)) = 0 /\ Cardinality(WithStatus(db, {"observed"})) = 0
    BY <1>5, <1>6, Zenon
  <2>2. Distinct(db.ready) /\ Len(db.ready) = 0 /\ Range(db.ready) = WithStatus(db, {"ready"})
    BY <1>2, <1>4, <1>5, Zenon
  <2>3. QED
    BY <2>1, <2>2, Limits DEF QueueOK, JournalCount
<1>9. IncidentsOK(db) /\ TombstonesOK(db)
  BY <1>2, <1>4, <1>5 DEF IncidentsOK, TombstonesOK
<1>10. TokensOK(db) /\ TurnsOK(db)
  BY <1>2, <1>2a, <1>6, Limits DEF TokensOK, TurnsOK
<1>11. MembersOK(db) /\ ChainOK(db) /\ CompleteOK(db) /\ CheckpointOK(db) /\ Exact(db)
  BY <1>2 DEF MembersOK, ChainOK, CompleteOK, CheckpointOK, Exact
<1>12. HistoryOK(db, {}, {})
  BY <1>2 DEF HistoryOK
<1>13. Len(db.tombstones) <= TombstoneLimit
  BY <1>2, Limits
<1>14. StoreOK(db, committed, acknowledged)
  BY <1>1, <1>7, <1>8, <1>9, <1>10, <1>11, <1>12, <1>13 DEF StoreOK, RecordsOK, ChainParts
<1>15. WorkerOK
  BY <1>1 DEF WorkerOK, Idle
<1>16. QED
  BY <1>1, <1>11, <1>14, <1>15 DEF PipeInv

LEMMA WorkerStays ==
  ASSUME WorkerOK, ReadyStays(db, db'), worker' = worker, handled' = handled
  PROVE  WorkerOK'
BY DEF WorkerOK, ReadyStays

LEMMA KeptInv ==
  ASSUME PipeInv, Kept(db, db', committed, acknowledged), WorkerOK',
         committed' = committed, acknowledged' = acknowledged, handled \subseteq handled'
  PROVE  PipeInv'
BY DEF PipeInv, Kept

LEMMA NextKeeps ==
  PipeInv /\ [PipelineNext]_pipelineVars => PipeInv'
<1> SUFFICES ASSUME PipeInv, [PipelineNext]_pipelineVars PROVE PipeInv'
  OBVIOUS
<1>1. /\ StoreOK(db, committed, acknowledged) /\ Exact(db) /\ WorkerOK
      /\ committed \subseteq Finalized /\ acknowledged \subseteq handled
  BY DEF PipeInv
<1>2. ASSUME NEW b \in Blocks, Scan(b) PROVE PipeInv'
  BY <1>2, ScanStep, WorkerStays DEF BlockAdded, Scan, PipeInv
<1>3. ASSUME NEW c \in Candidates, Sight(c) PROVE PipeInv'
  BY <1>3, SightStep, WorkerStays DEF Kept, PutAdds, Sight, PipeInv
<1>4. CASE Take
  BY <1>4, TakeStep, KeptInv DEF Take, WorkerOK
<1>5. CASE Link
  BY <1>1, <1>5, LinkStep, KeptInv DEF Link, Goto, At, WorkerOK, Kept, ReadyStays
<1>6. CASE HandleForGood \/ HandleToReplay
  <2>1. /\ committed' = committed /\ acknowledged' = acknowledged /\ db' = db
        /\ worker.pc = "linked" /\ handled \subseteq handled'
    BY <1>6 DEF HandleForGood, HandleToReplay, storeVars, At
  <2>2. PICK pc \in {"finished", "replay"} : worker' = [worker EXCEPT !.pc = pc]
    BY <1>6 DEF HandleForGood, HandleToReplay, Goto
  <2>3. DOMAIN worker' = {"pc", "cand"} /\ worker'.pc = pc /\ worker'.cand = worker.cand
    BY <1>1, <2>2 DEF WorkerOK
  <2>4. pc = "finished" => worker.cand \in handled'
    BY <1>6, <2>3 DEF HandleForGood, HandleToReplay, Goto, WorkerOK
  <2>5. worker.cand \in Candidates /\ db'.status[worker.cand] = "ready"
    BY <1>1, <2>1 DEF WorkerOK
  <2>6. WorkerOK'
    BY <2>3, <2>4, <2>5 DEF WorkerOK
  <2>7. QED
    BY <2>1, <2>6 DEF PipeInv
<1>7. CASE Acknowledge
  BY <1>7, AcknowledgeStep DEF Acknowledge, WorkerOK, Idle, PipeInv
<1>8. CASE Postpone
  BY <1>8, PostponeStep DEF Postpone, WorkerOK, Idle, PipeInv
<1>9. CASE Stop
  BY <1>9 DEF Stop, storeVars, WorkerOK, Idle, PipeInv
<1>10. CASE Clock \/ Rest \/ UNCHANGED pipelineVars
  BY <1>10 DEF Clock, Tick, Rest, pipelineVars, storeVars, WorkerOK, PipeInv
<1>11. QED
  BY <1>2, <1>3, <1>4, <1>5, <1>6, <1>7, <1>8, <1>9, <1>10 DEF PipelineNext, Work

\* The invariant of the file and of the consumer's place in its loop holds over every
\* scan, sighting, delivery and crash of the pipeline.
THEOREM PipelineInvariant ==
  PipelineSpec => []PipeInv
BY InitHolds, NextKeeps, PTL DEF PipelineSpec

-----------------------------------------------------------------------------
(* The file is one that Open accepts.                                      *)

\* Whatever the chain, the limits and the order of the calls, crashes included, the
\* file a transaction of the store leaves behind passes the validation of Open.
THEOREM FileReopens ==
  PipelineSpec => []ReopenAccepts
<1>1. PipeInv => ReopenAccepts
  BY FileValid DEF PipeInv, ReopenAccepts
<1>2. QED
  BY <1>1, PipelineInvariant, PTL

\* Staged work and due retries take turns at the free places of the ready list, over
\* any number of transactions: neither kind waits while the other gets two in a row.
THEOREM PromotionsAlternate ==
  PipelineSpec => []PromotionTakesTurns
<1>1. PipeInv => PromotionTakesTurns
  BY StoreParts DEF PipeInv, TurnsOK, PromotionTakesTurns
<1>2. QED
  BY <1>1, PipelineInvariant, PTL

\* A candidate of a block the scan has passed is in the journal, or it was handled to
\* the end and then acknowledged, for any limits and any crashes of the consumer.
THEOREM WorkIsKept ==
  PipelineSpec => []NoWorkLost
<1>1. PipeInv => NoWorkLost
  <2>1. SUFFICES ASSUME PipeInv, NEW b \in committed, NEW c \in Members(b)
                 PROVE  db.status[c] \in Unfinished \/ (c \in acknowledged /\ c \in handled)
    BY Zenon DEF NoWorkLost
  <2>2. /\ TypesOK(db) /\ MembersOK(db) /\ HistoryOK(db, committed, acknowledged)
        /\ acknowledged \subseteq handled
    BY <2>1, StoreParts, Zenon DEF PipeInv
  <2>3. c \in Candidates /\ Indexed(c) /\ Info[c].block = b
    BY DEF Members
  <2>4. CASE b \in db.blocks
    <3>1. db.status[c] \in Statuses /\ db.status[c] \notin {"none", "observed"}
      BY <2>2, <2>3, <2>4, Zenon DEF TypesOK, MembersOK
    <3>2. db.status[c] = "acked" => c \in acknowledged
      BY <2>2, <2>3, <2>4, Zenon DEF HistoryOK
    <3>3. QED
      BY <2>2, <3>1, <3>2 DEF Statuses
  <2>5. CASE b \notin db.blocks
    BY <2>2, <2>5, Zenon DEF HistoryOK
  <2>6. QED
    BY <2>4, <2>5, Zenon
<1>2. QED
  BY <1>1, PipelineInvariant, PTL

\* A sighting on a branch that is not finalized never becomes work.
THEOREM OnlyFinalizedIsDone ==
  PipelineSpec => []OnlyFinalizedWork
<1>1. PipeInv => OnlyFinalizedWork
  BY StoreParts DEF OnlyFinalizedWork, PipeInv, HistoryOK, MembersOK
<1>2. QED
  BY <1>1, PipelineInvariant, PTL

-----------------------------------------------------------------------------
(* The pipeline implements the journal.                                    *)

\* What lies below the chain was confirmed before it was trimmed; the first stored
\* block above the checkpoint is not complete.
LEMMA CheckpointIsSafe ==
  ASSUME NEW d, NEW com, NEW ack, StoreOK(d, com, ack), Exact(d)
  PROVE  Journal!SafeHeight(d.checkpoint, com, ack)
<1> DEFINE W == [b \in Blocks |-> Members(b)]
           C == Number[d.cursor]
<1>1. /\ d.blocks \subseteq Blocks /\ d.baseline \in Nat /\ d.checkpoint \in Nat
      /\ \A b \in Blocks : Number[b] \in Nat
  BY StoreParts, Given DEF TypesOK
<1>2. /\ d.blocks \subseteq com /\ com \subseteq Blocks
      /\ \A b \in com \ d.blocks :
           d.checkpoint # 0 /\ Number[b] < d.baseline /\ Members(b) \subseteq ack
      /\ \A c \in Candidates : Indexed(c) =>
           (Info[c].block \in d.blocks => (d.status[c] = "acked" <=> c \in ack))
  BY StoreParts DEF HistoryOK
<1>3. \A b \in Blocks : W[b] = Members(b)
  OBVIOUS
<1>4. \A b \in d.blocks : BlockComplete(d, b) <=> Members(b) \subseteq ack
  BY <1>2 DEF BlockComplete, Members
<1>5. d.checkpoint # 0 =>
        /\ d.cursor # NoBlock /\ d.checkpoint \in d.baseline .. C
        /\ \E b \in d.blocks : Number[b] = d.checkpoint
  BY StoreParts DEF ChainOK, CheckpointOK, InChain
<1>6. d.checkpoint \in {Number[b] : b \in com} \cup {0}
  BY <1>2, <1>5
<1>7. ASSUME NEW b \in com, Number[b] <= d.checkpoint PROVE W[b] \subseteq ack
  BY <1>2, <1>4, <1>7, StoreParts DEF CompleteOK
<1>8. ASSUME NEW b \in com, \A x \in com : Number[x] <= Number[b] => W[x] \subseteq ack
      PROVE  Number[b] <= d.checkpoint
  <2>1. SUFFICES ASSUME Number[b] > d.checkpoint PROVE FALSE
    BY <1>1, <1>2
  <2>2. b \in d.blocks
    BY <1>1, <1>2, <1>5, <2>1
  <2>3. d.cursor # NoBlock
    BY <2>2, StoreParts DEF ChainOK
  <2>4. Number[b] \in d.baseline .. C
    BY <2>2, StoreParts DEF ChainOK
  <2>5. NextHeight(d) \in d.baseline .. Number[b]
    BY <1>1, <1>5, <2>1, <2>4 DEF NextHeight
  <2>6. C \in Nat
    BY <1>1, <2>3, StoreParts DEF ChainOK
  <2>7. NextHeight(d) \in d.baseline .. C
    BY <2>4, <2>5, <2>6
  <2>8. PICK x \in d.blocks : Number[x] = NextHeight(d)
    BY <2>3, <2>7, StoreParts DEF ChainOK
  <2>9. ~BlockComplete(d, x)
    BY <2>8 DEF Exact
  <2>10. Number[x] <= Number[b]
    BY <2>5, <2>8
  <2>11. Members(x) \subseteq ack
    BY <1>2, <1>8, <2>10, Zenon
  <2>12. QED
    BY <1>4, <2>9, <2>11
<1> HIDE DEF W
<1>9. QED
  BY <1>6, <1>7, <1>8 DEF Journal!SafeHeight, Journal!ConfirmedUpTo, W

LEMMA JournalCounts ==
  ASSUME NEW S
  PROVE  Journal!Cardinality(S) = Cardinality(S)
BY DEF Journal!Cardinality, Cardinality

LEMMA JournalStarts ==
  PipelineInit => Journal!JournalInit
BY DEF PipelineInit, Init, WithStatus, Unfinished, Journal!JournalInit

LEMMA JournalSteps ==
  PipeInv /\ [PipelineNext]_pipelineVars => [Journal!JournalNext]_(Journal!journalVars)
<1> SUFFICES ASSUME PipeInv, [PipelineNext]_pipelineVars
             PROVE  [Journal!JournalNext]_(Journal!journalVars)
  OBVIOUS
<1>1. /\ StoreOK(db, committed, acknowledged) /\ Exact(db) /\ WorkerOK
  BY DEF PipeInv
<1>a. \A b \in Blocks : [x \in Blocks |-> Members(x)][b] = Members(b)
  OBVIOUS
<1>2. ASSUME NEW b \in Blocks, Scan(b) PROVE Journal!AcceptBlock(b)
  BY <1>2, ScanStep, CheckpointIsSafe, JournalCounts DEF BlockAdded, Scan, Journal!AcceptBlock
<1>3. ASSUME NEW c \in Candidates, Sight(c)
      PROVE  Journal!Accept(c) \/ UNCHANGED Journal!journalVars
  BY <1>3, StoreParts, JournalCounts, SightStep DEF Sight, Kept, Journal!journalVars, PutAdds,
     QueueOK, JournalCount, Journal!BlockWork, Members, Journal!Accept
<1>4. CASE Take \/ Link \/ Postpone
  BY <1>4, TakeStep, LinkStep, PostponeStep DEF Take, Link, Postpone, Kept, Journal!journalVars
<1>5. CASE HandleForGood
  BY <1>1, <1>5 DEF HandleForGood, storeVars, At, WorkerOK, WithStatus, Unfinished,
     Journal!Do, Journal!JournalNext
<1>6. CASE Acknowledge
  BY <1>6, AcknowledgeStep, CheckpointIsSafe DEF Acknowledge, Journal!Confirm, WithStatus,
     Journal!JournalNext
<1>7. CASE HandleToReplay \/ Stop \/ Clock \/ Rest \/ UNCHANGED pipelineVars
  BY <1>7 DEF HandleToReplay, Stop, Clock, Tick, Rest, pipelineVars, storeVars,
     Journal!journalVars
<1>8. CASE Work
  BY <1>2, <1>8 DEF Work, Journal!JournalNext
<1>9. CASE \E c \in Candidates : Sight(c)
  BY <1>3, <1>9 DEF Journal!JournalNext
<1>10. QED
  BY <1>4, <1>5, <1>6, <1>7, <1>8, <1>9 DEF PipelineNext

\* The bounded file, with its ready list, retries, tombstones and trimmed blocks, does
\* what the journal that forgets nothing does: a block is accepted once and as a whole,
\* confirmed work does not come back, and the checkpoint is the end of the confirmed
\* prefix.  For any chain, any limits and any number of crashes.
THEOREM StoreImplementsJournal ==
  PipelineSpec => ImplementsJournal
<1>1. PipelineInit => Journal!JournalInit
  BY JournalStarts
<1>2. PipeInv /\ [PipelineNext]_pipelineVars => [Journal!JournalNext]_(Journal!journalVars)
  BY JournalSteps
<1>3. QED
  BY <1>1, <1>2, PipelineInvariant, PTL DEF PipelineSpec, ImplementsJournal, Journal!JournalSpec

=============================================================================
