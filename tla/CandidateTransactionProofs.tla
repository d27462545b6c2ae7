---------------------- MODULE CandidateTransactionProofs ----------------------
(***************************************************************************)
(* Each transaction of the candidate store leaves a file that satisfies    *)
(* StoreOK and that Open accepts, for any chain, candidates and limits.    *)
(***************************************************************************)
EXTENDS CandidateStoreProofs

-----------------------------------------------------------------------------
(* Changes of one record.                                                  *)

\* The record of c alone changes, to v.
OneStatus(d, e, c, v) ==
  /\ e.status \in [Candidates -> Statuses]
  /\ \A x \in Candidates : e.status[x] = IF x = c THEN v ELSE d.status[x]

LEMMA OneStatusHolds ==
  ASSUME NEW d, NEW e, NEW c \in Candidates, NEW v \in Statuses,
         d.status \in [Candidates -> Statuses], e.status = [d.status EXCEPT ![c] = v]
  PROVE  OneStatus(d, e, c, v)
BY DEF OneStatus

LEMMA PutKeeps ==
  ASSUME NEW d, NEW com, NEW ack, StoreOK(d, com, ack), Exact(d),
         NEW c \in Candidates, ~Indexed(c), d.status[c] = "none", ReserveJournal(d, 1),
         NEW e, e = [d EXCEPT !.status[c] = "staged"]
  PROVE  /\ StoreOK(e, com, ack) /\ Exact(e) /\ SameChain(d, e) /\ ReadyStays(d, e)
         /\ WithStatus(e, Unfinished) = WithStatus(d, Unfinished) \cup {c}
<1>1. /\ DOMAIN d = DbFields /\ d.status \in [Candidates -> Statuses]
      /\ "staged" \in Statuses /\ "staged" \in Unfinished /\ d.incidents \subseteq Candidates
  BY StoreParts DEF TypesOK, Statuses, Unfinished
<1>2. /\ DOMAIN e = DbFields /\ SameChain(d, e)
      /\ e.incidents = d.incidents /\ e.tombstones = d.tombstones
      /\ e.discovered = d.discovered /\ e.overflow = d.overflow
      /\ e.ready = d.ready /\ e.turn = d.turn /\ e.waited = d.waited
      /\ e.status = [d.status EXCEPT ![c] = "staged"]
  BY <1>1, Zenon DEF SameChain, DbFields
<1>3. /\ OneStatus(d, e, c, "staged") /\ e.status \in [Candidates -> Statuses]
      /\ \A x \in Candidates : e.status[x] = IF x = c THEN "staged" ELSE d.status[x]
  BY <1>1, <1>2, OneStatusHolds DEF OneStatus
<1>4. /\ WithStatus(e, Unfinished) = WithStatus(d, Unfinished) \cup {c}
      /\ c \notin WithStatus(d, Unfinished)
      /\ WithStatus(e, {"ready"}) = WithStatus(d, {"ready"})
      /\ WithStatus(e, {"observed"}) = WithStatus(d, {"observed"})
      /\ WithStatus(e, {"acked"}) = WithStatus(d, {"acked"})
      /\ WithStatus(e, {"delayed", "acked"}) = WithStatus(d, {"delayed", "acked"})
  BY <1>3 DEF WithStatus, Unfinished
<1>5. SameWork(d, e) /\ ReadyStays(d, e)
  BY DEF SameWork, ReadyStays
<1>6. ChainParts(e, com, ack) /\ Exact(e)
  BY <1>2, <1>5, ChainFrame, StoreParts
<1>7. JournalCount(e) <= JournalCapacity
  <2>1. WithStatus(d, Unfinished) \in SUBSET Candidates
    BY DEF WithStatus
  <2>2. IsFiniteSet(WithStatus(d, Unfinished))
    BY <2>1, FiniteCandidates
  <2>3. Cardinality(WithStatus(e, Unfinished)) = Cardinality(WithStatus(d, Unfinished)) + 1
    BY <1>4, <2>2, FS_AddElement
  <2>4. QED
    BY <2>3 DEF ReserveJournal, JournalCount
<1>8. TypesOK(e)
  BY <1>3, StoreParts DEF TypesOK, SameChain
<1>9. QueueOK(e)
  BY <1>4, <1>7, StoreParts DEF QueueOK
<1>10. IncidentsOK(e)
  BY <1>2, <1>3, <1>4, StoreParts DEF IncidentsOK
<1>11. TombstonesOK(e) /\ Len(e.tombstones) <= TombstoneLimit
  BY <1>4, StoreParts DEF TombstonesOK
<1>12. TokensOK(e) /\ TurnsOK(e)
  BY StoreParts DEF TokensOK, TurnsOK
<1>13. QED
  BY <1>2, <1>4, <1>5, <1>6, <1>8, <1>9, <1>10, <1>11, <1>12 DEF StoreOK, RecordsOK

LEMMA ObserveKeeps ==
  ASSUME NEW d, NEW com, NEW ack, StoreOK(d, com, ack), Exact(d),
         NEW c \in Candidates, Indexed(c), d.status[c] = "none", ~CandidateAlreadyScanned(d, c),
         Cardinality(WithStatus(d, {"observed"})) < MaxPending,
         NEW e, e = [d EXCEPT !.status[c] = "observed"]
  PROVE  /\ StoreOK(e, com, ack) /\ Exact(e) /\ SameChain(d, e) /\ ReadyStays(d, e)
         /\ WithStatus(e, Unfinished) = WithStatus(d, Unfinished)
<1>1. /\ DOMAIN d = DbFields /\ d.status \in [Candidates -> Statuses]
      /\ "observed" \in Statuses /\ d.incidents \subseteq Candidates
  BY StoreParts DEF TypesOK, Statuses
<1>2. /\ DOMAIN e = DbFields /\ SameChain(d, e)
      /\ e.incidents = d.incidents /\ e.tombstones = d.tombstones
      /\ e.discovered = d.discovered /\ e.overflow = d.overflow
      /\ e.ready = d.ready /\ e.turn = d.turn /\ e.waited = d.waited
      /\ e.status = [d.status EXCEPT ![c] = "observed"]
  BY <1>1, Zenon DEF SameChain, DbFields
<1>3. /\ OneStatus(d, e, c, "observed") /\ e.status \in [Candidates -> Statuses]
      /\ \A x \in Candidates : e.status[x] = IF x = c THEN "observed" ELSE d.status[x]
  BY <1>1, <1>2, OneStatusHolds DEF OneStatus
<1>4. /\ WithStatus(e, Unfinished) = WithStatus(d, Unfinished)
      /\ WithStatus(e, {"ready"}) = WithStatus(d, {"ready"})
      /\ WithStatus(e, {"observed"}) = WithStatus(d, {"observed"}) \cup {c}
      /\ c \notin WithStatus(d, {"observed"})
      /\ WithStatus(e, {"acked"}) = WithStatus(d, {"acked"})
      /\ WithStatus(e, {"delayed", "acked"}) = WithStatus(d, {"delayed", "acked"})
  BY <1>3 DEF WithStatus, Unfinished
<1>5. SameDone(d, e) /\ ReadyStays(d, e)
  BY DEF SameDone, ReadyStays
<1>6. /\ ChainOK(e) /\ CompleteOK(e) /\ CheckpointOK(e) /\ HistoryOK(e, com, ack)
      /\ Exact(e)
  BY <1>2, <1>5, DoneFrame, StoreParts
<1>7. \A b \in d.blocks : Number[b] # Height(c)
  BY Given, StoreParts DEF TypesOK, ChainOK, CandidateAlreadyScanned
<1>8. MembersOK(e)
  BY <1>3, <1>7, StoreParts DEF SameChain, MembersOK
<1>9. Cardinality(WithStatus(e, {"observed"})) <= MaxPending
  BY <1>4, FiniteCandidates, FS_AddElement, Limits DEF WithStatus
<1>10. TypesOK(e)
  BY <1>3, StoreParts DEF TypesOK, SameChain
<1>11. QueueOK(e)
  BY <1>4, <1>9, StoreParts DEF QueueOK, JournalCount
<1>12. IncidentsOK(e)
  BY <1>2, <1>3, <1>4, StoreParts DEF IncidentsOK
<1>13. TombstonesOK(e) /\ Len(e.tombstones) <= TombstoneLimit
  BY <1>4, StoreParts DEF TombstonesOK
<1>14. TokensOK(e) /\ TurnsOK(e)
  BY StoreParts DEF TokensOK, TurnsOK
<1>15. QED
  BY <1>2, <1>4, <1>5, <1>6, <1>8, <1>10, <1>11, <1>12, <1>13, <1>14 DEF StoreOK, RecordsOK,
     ChainParts

LEMMA RemoveKeeps ==
  ASSUME NEW d, NEW com, NEW ack, StoreOK(d, com, ack), Exact(d),
         NEW c \in Candidates, d.status[c] = "observed",
         NEW e, e = AdvanceCheckpoint(Forget(d, {c}))
  PROVE  /\ StoreOK(e, com, ack) /\ Exact(e) /\ SameChain(d, e) /\ ReadyStays(d, e)
         /\ WithStatus(e, Unfinished) = WithStatus(d, Unfinished)
<1>0. PICK k : k = Forget(d, {c})
  OBVIOUS
<1>1. {c} \subseteq Candidates /\ \A x \in {c} : d.status[x] \notin Unfinished
  BY DEF Unfinished
<1>2. RecordsOK(k) /\ Forgotten(d, k, {c})
  BY <1>0, <1>1, ForgetKeeps, StoreParts
<1>3. /\ \A x \in Candidates : k.status[x] = IF x = c THEN "none" ELSE d.status[x]
      /\ SameChain(d, k) /\ ReadyStays(d, k)
      /\ WithStatus(k, Unfinished) = WithStatus(d, Unfinished)
  BY <1>2 DEF Forgotten
<1>4. SameDone(d, k)
  BY <1>3 DEF SameDone
<1>5. ChainOK(k) /\ CompleteOK(k) /\ CheckpointOK(k) /\ HistoryOK(k, com, ack) /\ Exact(k)
  BY <1>3, <1>4, DoneFrame, StoreParts
<1>6. MembersOK(k)
  BY <1>3, StoreParts DEF SameChain, MembersOK
<1>7. Len(k.tombstones) <= TombstoneLimit
  BY <1>2, StoreParts, Limits DEF Forgotten, RecordsOK, TypesOK
<1>8. StoreOK(k, com, ack)
  BY <1>2, <1>5, <1>6, <1>7 DEF StoreOK, ChainParts
<1>9. e = k
  BY <1>0, <1>5, <1>8, AdvanceStays
<1>10. QED
  BY <1>3, <1>5, <1>8, <1>9

LEMMA IncidentKeeps ==
  ASSUME NEW d, NEW com, NEW ack, StoreOK(d, com, ack), Exact(d),
         NEW c \in Candidates, d.status[c] # "none",
         NEW e, e = [d EXCEPT !.incidents = @ \cup {c}]
  PROVE  /\ StoreOK(e, com, ack) /\ Exact(e) /\ SameChain(d, e) /\ ReadyStays(d, e)
         /\ WithStatus(e, Unfinished) = WithStatus(d, Unfinished)
<1>1. DOMAIN d = DbFields /\ d.incidents \subseteq Candidates
  BY StoreParts DEF TypesOK
<1>2. /\ DOMAIN e = DbFields /\ SameChain(d, e)
      /\ e.incidents = d.incidents \cup {c} /\ e.tombstones = d.tombstones
      /\ e.discovered = d.discovered /\ e.overflow = d.overflow
      /\ e.ready = d.ready /\ e.turn = d.turn /\ e.waited = d.waited
      /\ e.status = d.status
  BY <1>1, Zenon DEF SameChain, DbFields
<1>3. \A S : WithStatus(e, S) = WithStatus(d, S)
  BY DEF WithStatus
<1>4. SameWork(d, e) /\ ReadyStays(d, e)
  BY DEF SameWork, ReadyStays
<1>5. ChainParts(e, com, ack) /\ Exact(e)
  BY <1>2, <1>4, ChainFrame, StoreParts
<1>6. TypesOK(e)
  BY StoreParts DEF TypesOK, SameChain
<1>7. QueueOK(e)
  BY <1>2, <1>3, StoreParts, Zenon DEF QueueOK, JournalCount
<1>8. IncidentsOK(e)
  BY <1>2, <1>3, StoreParts, Zenon DEF IncidentsOK
<1>9. TombstonesOK(e) /\ Len(e.tombstones) <= TombstoneLimit
  BY <1>2, <1>3, StoreParts, Zenon DEF TombstonesOK
<1>10. TokensOK(e) /\ TurnsOK(e)
  BY StoreParts DEF TokensOK, TurnsOK
<1>11. QED
  BY <1>2, <1>3, <1>4, <1>5, <1>6, <1>7, <1>8, <1>9, <1>10, Zenon DEF StoreOK, RecordsOK

\* The candidate the consumer gives back leaves the ready list.
LEMMA LeavesReady ==
  ASSUME NEW d, NEW com, NEW ack, StoreOK(d, com, ack),
         NEW c \in Candidates, d.status[c] = "ready", NEW v, v = "delayed" \/ v = "acked",
         NEW e, OneStatus(d, e, c, v), e.ready = Without(d.ready, {c})
  PROVE  /\ e.ready \in Seq(Candidates) /\ QueueOK(e)
         /\ WithStatus(e, Unfinished) = WithStatus(d, Unfinished) \ (IF v = "acked" THEN {c} ELSE {})
<1>1. /\ d.ready \in Seq(Candidates) /\ Distinct(d.ready) /\ Len(d.ready) <= MaxPending
      /\ Range(d.ready) = WithStatus(d, {"ready"})
      /\ JournalCount(d) <= JournalCapacity
      /\ Cardinality(WithStatus(d, {"observed"})) <= MaxPending
  BY StoreParts DEF TypesOK, QueueOK
<1>2. /\ e.ready \in Seq(Candidates) /\ Len(e.ready) <= Len(d.ready)
      /\ Range(e.ready) = Range(d.ready) \ {c}
      /\ Distinct(e.ready)
  BY <1>1, WithoutFacts
<1>3. \A x \in Candidates : e.status[x] = IF x = c THEN v ELSE d.status[x]
  BY DEF OneStatus
<1>4. /\ WithStatus(e, {"ready"}) = WithStatus(d, {"ready"}) \ {c}
      /\ WithStatus(e, {"observed"}) = WithStatus(d, {"observed"})
  BY <1>3 DEF WithStatus
<1>5. v = "delayed" => WithStatus(e, Unfinished) = WithStatus(d, Unfinished)
  BY <1>3 DEF WithStatus, Unfinished
<1>6. v = "acked" => WithStatus(e, Unfinished) = WithStatus(d, Unfinished) \ {c}
  BY <1>3 DEF WithStatus, Unfinished
<1>7. JournalCount(e) <= JournalCapacity
  BY <1>1, <1>5, <1>6, FiniteCandidates, FS_Subset, FS_CardinalityType, Limits DEF WithStatus,
     JournalCount
<1>8. Len(e.ready) <= MaxPending
  BY <1>1, <1>2, Limits
<1>9. QueueOK(e)
  BY <1>1, <1>2, <1>4, <1>7, <1>8, Zenon DEF QueueOK
<1>10. QED
  BY <1>2, <1>5, <1>6, <1>9

\* The record of c after a Nack.
Nacked(d, c, t) ==
  [d EXCEPT !.status[c] = "delayed", !.retryAt[c] = t, !.ready = Without(@, {c})]

LEMMA NackKeeps ==
  ASSUME NEW d, NEW com, NEW ack, StoreOK(d, com, ack), Exact(d),
         NEW c \in Candidates, d.status[c] = "ready", c \in d.incidents, NEW t,
         NEW e, e = Nacked(d, c, t)
  PROVE  /\ StoreOK(e, com, ack) /\ Exact(e) /\ SameChain(d, e)
         /\ WithStatus(e, Unfinished) = WithStatus(d, Unfinished)
<1>1. /\ DOMAIN d = DbFields /\ d.status \in [Candidates -> Statuses]
      /\ "delayed" \in Statuses /\ "delayed" \in Unfinished /\ "ready" \in Unfinished
      /\ d.incidents \subseteq Candidates
  BY StoreParts DEF TypesOK, Statuses, Unfinished
<1>2. /\ DOMAIN e = DbFields /\ SameChain(d, e)
      /\ e.incidents = d.incidents /\ e.tombstones = d.tombstones
      /\ e.discovered = d.discovered /\ e.overflow = d.overflow
      /\ e.ready = Without(d.ready, {c}) /\ e.turn = d.turn /\ e.waited = d.waited
      /\ e.status = [d.status EXCEPT ![c] = "delayed"]
  BY <1>1, Zenon DEF Nacked, SameChain, DbFields
<1>3. /\ OneStatus(d, e, c, "delayed") /\ e.status \in [Candidates -> Statuses]
      /\ \A x \in Candidates : e.status[x] = IF x = c THEN "delayed" ELSE d.status[x]
  BY <1>1, <1>2, OneStatusHolds DEF OneStatus
<1>4. /\ e.ready \in Seq(Candidates) /\ QueueOK(e)
      /\ WithStatus(e, Unfinished) = WithStatus(d, Unfinished)
  <2>1. \A x : OneStatus(d, x, c, "delayed") /\ x.ready = Without(d.ready, {c}) =>
          /\ x.ready \in Seq(Candidates) /\ QueueOK(x)
          /\ WithStatus(x, Unfinished) = WithStatus(d, Unfinished)
    BY LeavesReady, Zenon
  <2>2. e.ready = Without(d.ready, {c})
    BY <1>2
  <2>3. QED
    BY <1>3, <2>1, <2>2, Zenon
<1>5. /\ WithStatus(e, {"acked"}) = WithStatus(d, {"acked"})
      /\ WithStatus(e, {"delayed", "acked"}) = WithStatus(d, {"delayed", "acked"}) \cup {c}
  BY <1>3 DEF WithStatus
<1>6. SameWork(d, e)
  BY <1>1, <1>3 DEF SameWork
<1>7. ChainParts(e, com, ack) /\ Exact(e)
  BY <1>2, <1>6, ChainFrame, StoreParts
<1>8. TypesOK(e)
  BY <1>2, <1>3, <1>4, StoreParts DEF TypesOK, SameChain
<1>9. IncidentsOK(e)
  BY <1>2, <1>3, <1>5, StoreParts DEF IncidentsOK
<1>10. TombstonesOK(e) /\ Len(e.tombstones) <= TombstoneLimit
  BY <1>2, <1>5, StoreParts DEF TombstonesOK
<1>11. TokensOK(e) /\ TurnsOK(e)
  BY <1>2, StoreParts DEF TokensOK, TurnsOK
<1>12. QED
  BY <1>2, <1>4, <1>7, <1>8, <1>9, <1>10, <1>11 DEF StoreOK, RecordsOK

\* The acknowledged record with its tombstone, before one expires.
Buried(d, e, c) ==
  /\ SameChain(d, e)
  /\ DOMAIN e = DbFields /\ e.tombstones = Append(d.tombstones, c)
  /\ WithStatus(e, {"acked"}) = WithStatus(d, {"acked"}) \cup {c}
  /\ WithStatus(e, Unfinished) = WithStatus(d, Unfinished) \ {c}
  /\ c \notin Range(d.tombstones)

\* The record of c acknowledged, before its tombstone is written.
Acked(d, c) == [d EXCEPT !.status[c] = "acked", !.ready = Without(@, {c})]

LEMMA BuriedKeeps ==
  ASSUME NEW d, NEW com, NEW ack, StoreOK(d, com, ack),
         NEW c \in Candidates, d.status[c] = "ready", c \in d.incidents,
         NEW a, a = Acked(d, c),
         NEW e, e = [a EXCEPT !.tombstones = Append(@, c)]
  PROVE  RecordsOK(e) /\ ChainParts(e, com, ack \cup {c}) /\ Buried(d, e, c)
<1>1. /\ DOMAIN d = DbFields /\ d.status \in [Candidates -> Statuses]
      /\ "acked" \in Statuses
      /\ d.incidents \subseteq Candidates /\ d.tombstones \in Seq(Candidates)
  BY StoreParts DEF TypesOK, Statuses
<1>2. /\ DOMAIN a = DbFields /\ SameChain(d, a)
      /\ a.incidents = d.incidents /\ a.tombstones = d.tombstones
      /\ a.discovered = d.discovered /\ a.overflow = d.overflow
      /\ a.ready = Without(d.ready, {c}) /\ a.turn = d.turn /\ a.waited = d.waited
      /\ a.status = [d.status EXCEPT ![c] = "acked"]
  BY <1>1, Zenon DEF Acked, SameChain, DbFields
<1>3. /\ DOMAIN e = DbFields /\ SameChain(a, e)
      /\ e.incidents = a.incidents /\ e.tombstones = Append(a.tombstones, c)
      /\ e.discovered = a.discovered /\ e.overflow = a.overflow
      /\ e.ready = a.ready /\ e.turn = a.turn /\ e.waited = a.waited
      /\ e.status = a.status
  BY <1>2, Zenon DEF SameChain, DbFields
<1>4. /\ DOMAIN e = DbFields /\ SameChain(d, e)
      /\ e.incidents = d.incidents /\ e.tombstones = Append(d.tombstones, c)
      /\ e.discovered = d.discovered /\ e.overflow = d.overflow
      /\ e.ready = Without(d.ready, {c}) /\ e.turn = d.turn /\ e.waited = d.waited
      /\ e.status = [d.status EXCEPT ![c] = "acked"]
  BY <1>2, <1>3 DEF SameChain
<1>5. /\ OneStatus(d, e, c, "acked") /\ e.status \in [Candidates -> Statuses]
      /\ \A x \in Candidates : e.status[x] = IF x = c THEN "acked" ELSE d.status[x]
  BY <1>1, <1>4, OneStatusHolds DEF OneStatus
<1>6. /\ e.ready \in Seq(Candidates) /\ QueueOK(e)
      /\ WithStatus(e, Unfinished) = WithStatus(d, Unfinished) \ {c}
  <2>1. \A x : OneStatus(d, x, c, "acked") /\ x.ready = Without(d.ready, {c}) =>
          /\ x.ready \in Seq(Candidates) /\ QueueOK(x)
          /\ WithStatus(x, Unfinished) = WithStatus(d, Unfinished) \ {c}
    BY LeavesReady, Zenon
  <2>2. e.ready = Without(d.ready, {c})
    BY <1>4
  <2>3. QED
    BY <1>5, <2>1, <2>2, Zenon
<1>7. /\ WithStatus(e, {"acked"}) = WithStatus(d, {"acked"}) \cup {c}
      /\ c \notin WithStatus(d, {"acked"})
      /\ WithStatus(e, {"delayed", "acked"}) = WithStatus(d, {"delayed", "acked"}) \cup {c}
  BY <1>5 DEF WithStatus
<1>8. c \notin Range(d.tombstones)
  BY <1>7, StoreParts DEF TombstonesOK
<1>9. /\ e.tombstones \in Seq(Candidates) /\ Distinct(e.tombstones)
      /\ Range(e.tombstones) = Range(d.tombstones) \cup {c}
  <2>1. Distinct(d.tombstones)
    BY StoreParts DEF TombstonesOK
  <2>2. PICK s : s = d.tombstones
    OBVIOUS
  <2>3. s \in Seq(Candidates) /\ Distinct(s) /\ c \notin Range(s)
    BY <1>1, <1>8, <2>1, <2>2
  <2>4. /\ Append(s, c) \in Seq(Candidates) /\ Distinct(Append(s, c))
        /\ Range(Append(s, c)) = Range(s) \cup {c}
    BY <2>3, Appended
  <2>5. QED
    BY <1>4, <2>2, <2>4, Zenon
<1>10. TombstonesOK(e)
  BY <1>7, <1>9, StoreParts, Zenon DEF TombstonesOK
<1>11. TypesOK(e)
  BY <1>4, <1>5, <1>6, <1>9, StoreParts DEF TypesOK, SameChain
<1>12. IncidentsOK(e)
  <2>1. \A x \in e.incidents : e.status[x] # "none"
    BY <1>1, <1>4, <1>5, StoreParts DEF IncidentsOK
  <2>2. QED
    BY <1>4, <1>7, <2>1, StoreParts, Zenon DEF IncidentsOK
<1>13. TokensOK(e) /\ TurnsOK(e)
  BY <1>4, StoreParts DEF TokensOK, TurnsOK
<1>14. MembersOK(e)
  BY <1>4, <1>5, StoreParts DEF SameChain, MembersOK
<1>15. ChainOK(e) /\ CheckpointOK(e)
  BY <1>4, StoreParts DEF SameChain, ChainOK, CheckpointOK, InChain
<1>16. CompleteOK(e)
  BY <1>4, <1>5, StoreParts DEF BlockComplete, Members, SameChain, CompleteOK
<1>17. HistoryOK(e, com, ack \cup {c})
  BY <1>4, <1>5, StoreParts DEF MembersOK, HistoryOK, SameChain
<1>18. Buried(d, e, c)
  BY <1>4, <1>6, <1>7, <1>8, Zenon DEF Buried
<1>19. QED
  BY <1>6, <1>10, <1>11, <1>12, <1>13, <1>14, <1>15, <1>16, <1>17, <1>18 DEF RecordsOK,
     ChainParts

LEMMA AckKeeps ==
  ASSUME NEW d, NEW com, NEW ack, StoreOK(d, com, ack),
         NEW c \in Candidates, d.status[c] = "ready", c \in d.incidents,
         NEW a, a = Acked(d, c),
         NEW e, e = AddTombstone(a, c)
  PROVE  /\ StoreOK(e, com, ack \cup {c}) /\ SameChain(d, e)
         /\ WithStatus(e, Unfinished) = WithStatus(d, Unfinished) \ {c}
<1> DEFINE expired == Head(Append(d.tombstones, c))
<1> DEFINE k == [a EXCEPT !.tombstones = Append(@, c)]
<1>a. AddTombstone(a, c) =
        IF Len(k.tombstones) <= TombstoneLimit THEN k
        ELSE IF /\ Indexed(Head(k.tombstones))
                /\ StoredAt(a, Height(Head(k.tombstones))) # {}
        THEN [k EXCEPT !.tombstones = Tail(@)]
        ELSE Forget(k, {Head(k.tombstones)})
  BY Zenon DEF AddTombstone
<1>0. k = [a EXCEPT !.tombstones = Append(@, c)]
  OBVIOUS
<1> HIDE DEF k
<1>1. /\ RecordsOK(k) /\ ChainParts(k, com, ack \cup {c})
      /\ SameChain(d, k) /\ a.blocks = d.blocks
      /\ DOMAIN k = DbFields /\ k.tombstones = Append(d.tombstones, c)
      /\ WithStatus(k, {"acked"}) = WithStatus(d, {"acked"}) \cup {c}
      /\ WithStatus(k, Unfinished) = WithStatus(d, Unfinished) \ {c}
      /\ c \notin Range(d.tombstones)
  <2>1. RecordsOK(k) /\ ChainParts(k, com, ack \cup {c}) /\ Buried(d, k, c)
    BY <1>0, BuriedKeeps, Zenon
  <2>2. DOMAIN d = DbFields
    BY StoreParts DEF TypesOK
  <2>3. a.blocks = d.blocks
    BY <2>2, Zenon DEF Acked, DbFields
  <2>4. QED
    BY <2>1, <2>3 DEF Buried
<1>2. e = IF Len(k.tombstones) <= TombstoneLimit THEN k
          ELSE IF Indexed(expired) /\ StoredAt(d, Height(expired)) # {}
          THEN [k EXCEPT !.tombstones = Tail(@)]
          ELSE Forget(k, {expired})
  <2>1. StoredAt(a, Height(expired)) = StoredAt(d, Height(expired))
    BY <1>1 DEF StoredAt
  <2>2. Head(k.tombstones) = expired
    BY <1>1
  <2> HIDE DEF expired
  <2>3. QED
    BY <1>a, <2>1, <2>2, Zenon
<1>3. /\ d.tombstones \in Seq(Candidates) /\ Len(d.tombstones) <= TombstoneLimit
      /\ Range(d.tombstones) \subseteq WithStatus(d, {"acked"})
  BY StoreParts DEF TypesOK, TombstonesOK
<1>4. /\ k.tombstones \in Seq(Candidates) /\ Len(k.tombstones) = Len(d.tombstones) + 1
      /\ Range(k.tombstones) = Range(d.tombstones) \cup {c}
      /\ expired \in Range(k.tombstones)
      /\ d.tombstones # <<>> => expired \in Range(d.tombstones)
  BY <1>1, <1>3, Appended
<1>5. CASE Len(k.tombstones) <= TombstoneLimit
  BY <1>1, <1>2, <1>5 DEF StoreOK
<1>6. CASE ~ (Len(k.tombstones) <= TombstoneLimit)
  <2>1. Len(d.tombstones) = TombstoneLimit /\ d.tombstones # <<>>
    BY <1>3, <1>4, <1>6, Limits
  <2>2. expired \in Range(d.tombstones) /\ expired = Head(k.tombstones) /\ k.tombstones # <<>>
    BY <1>1, <1>4, <2>1
  <2> HIDE DEF expired
  <2>3. expired \in Candidates /\ d.status[expired] = "acked" /\ k.status[expired] = "acked"
    BY <1>1, <1>3, <2>2 DEF WithStatus
  <2>4. CASE Indexed(expired) /\ StoredAt(d, Height(expired)) # {}
    <3>1. e = [k EXCEPT !.tombstones = Tail(@)]
      BY <1>2, <1>6, <2>4
    <3>2. /\ DOMAIN e = DbFields /\ SameChain(k, e)
          /\ e.incidents = k.incidents /\ e.tombstones = Tail(k.tombstones)
          /\ e.discovered = k.discovered /\ e.overflow = k.overflow
          /\ e.ready = k.ready /\ e.turn = k.turn /\ e.waited = k.waited
          /\ e.status = k.status
      BY <1>1, <3>1, Zenon DEF SameChain, DbFields
    <3>3. \A S : WithStatus(e, S) = WithStatus(k, S)
      BY <3>2 DEF WithStatus
    <3>4. SameWork(k, e)
      BY <3>2 DEF SameWork
    <3>5. ChainParts(e, com, ack \cup {c})
      BY <1>1, <3>2, <3>4, ChainFrame
    <3>6. /\ e.tombstones \in Seq(Candidates) /\ Len(e.tombstones) = Len(k.tombstones) - 1
          /\ Range(e.tombstones) \subseteq Range(k.tombstones)
          /\ Range(k.tombstones) \subseteq Range(e.tombstones) \cup {expired}
          /\ Distinct(k.tombstones) => Distinct(e.tombstones)
      BY <1>4, <2>2, <3>2, WithoutHead
    <3>7. Len(e.tombstones) <= TombstoneLimit
      BY <1>4, <2>1, <3>6
    <3>8. TombstonesOK(e)
      BY <1>1, <2>4, <3>3, <3>6 DEF RecordsOK, TombstonesOK
    <3>9. TypesOK(e)
      BY <1>1, <3>2, <3>6 DEF RecordsOK, TypesOK, SameChain
    <3>10. QueueOK(e)
      BY <1>1, <3>2, <3>3, Zenon DEF RecordsOK, QueueOK, JournalCount
    <3>11. IncidentsOK(e)
      BY <1>1, <3>2, <3>3 DEF RecordsOK, IncidentsOK
    <3>12. TokensOK(e) /\ TurnsOK(e)
      BY <1>1, <3>2 DEF RecordsOK, TokensOK, TurnsOK
    <3>13. SameChain(d, e)
      BY <1>1, <3>2 DEF SameChain
    <3>14. QED
      BY <1>1, <3>3, <3>5, <3>7, <3>8, <3>9, <3>10, <3>11, <3>12, <3>13 DEF StoreOK, RecordsOK
  <2>5. CASE ~ (Indexed(expired) /\ StoredAt(d, Height(expired)) # {})
    <3>1. e = Forget(k, {expired})
      BY <1>2, <1>6, <2>5
    <3>2. ~Indexed(expired)
      BY <2>3, <2>5, StoreParts, Given DEF MembersOK, StoredAt
    <3>3. {expired} \subseteq Candidates /\ \A x \in {expired} : k.status[x] \notin Unfinished
      BY <2>3 DEF Unfinished
    <3>4. RecordsOK(e) /\ Forgotten(k, e, {expired})
      BY <1>1, <3>1, <3>3, ForgetKeeps
    <3>5. SameWork(k, e) /\ SameChain(k, e)
      BY <3>2, <3>4 DEF SameWork, Forgotten
    <3>6. ChainParts(e, com, ack \cup {c})
      BY <1>1, <3>5, ChainFrame
    <3>7. Len(e.tombstones) <= TombstoneLimit
      BY <1>4, <2>1, <3>4, Limits DEF Forgotten, RecordsOK, TypesOK
    <3>8. SameChain(d, e) /\ WithStatus(e, Unfinished) = WithStatus(d, Unfinished) \ {c}
      BY <1>1, <3>4 DEF SameChain, Forgotten
    <3>9. QED
      BY <3>4, <3>6, <3>7, <3>8 DEF StoreOK
  <2>6. QED
    BY <2>4, <2>5
<1>7. QED
  BY <1>5, <1>6

-----------------------------------------------------------------------------
(* A block committed.                                                      *)

LEMMA TokensKept ==
  ASSUME NEW d, DOMAIN d = DbFields, TokensOK(d), NEW b,
         NEW e, e = ConfirmDiscoveredTokens(d, b)
  PROVE  /\ TokensOK(e) /\ SameChain(d, e) /\ DOMAIN e = DbFields
         /\ e.incidents = d.incidents /\ e.tombstones = d.tombstones
         /\ e.ready = d.ready /\ e.turn = d.turn /\ e.waited = d.waited
         /\ e.status = d.status
<1> DEFINE found == {Info[c].token : c \in Members(b)}
           fresh == found \ (d.discovered \cup {NoToken})
           room == MaxDiscovered - Cardinality(d.discovered)
           kept == IF Cardinality(fresh) <= room
                   THEN fresh
                   ELSE {x \in fresh : Rank(x, fresh) <= room}
<1>1. e = [d EXCEPT !.discovered = @ \cup kept, !.overflow = @ \/ kept # fresh]
  BY Zenon DEF ConfirmDiscoveredTokens
<1>2. /\ SameChain(d, e) /\ DOMAIN e = DbFields
      /\ e.incidents = d.incidents /\ e.tombstones = d.tombstones
      /\ e.ready = d.ready /\ e.turn = d.turn /\ e.waited = d.waited
      /\ e.status = d.status
      /\ e.discovered = d.discovered \cup kept /\ e.overflow = (d.overflow \/ kept # fresh)
  <2> HIDE DEF kept, fresh
  <2>1. QED
    BY <1>1, Zenon DEF SameChain, DbFields
<1>3. /\ d.discovered \subseteq Nat /\ IsFiniteSet(d.discovered)
      /\ Cardinality(d.discovered) <= MaxDiscovered
      /\ d.overflow \in BOOLEAN
      /\ d.overflow => Cardinality(d.discovered) = MaxDiscovered
  BY DEF TokensOK
<1>4. Members(b) \in SUBSET Candidates /\ IsFiniteSet(Members(b))
  BY FiniteCandidates DEF Members
<1>5. IsFiniteSet(found) /\ found \subseteq Nat
  <2> DEFINE g == [c \in Members(b) |-> Info[c].token]
  <2>1. g \in Surjection(Members(b), found)
    BY DEF Surjection
  <2>2. IsFiniteSet(found)
    BY <1>4, <2>1, FS_Surjection
  <2>3. found \subseteq Nat
    BY <1>4, Given, Zenon
  <2>4. QED
    BY <2>2, <2>3
<1> HIDE DEF found
<1>6. /\ IsFiniteSet(fresh) /\ fresh \subseteq Nat /\ fresh \in SUBSET Int
      /\ fresh \cap d.discovered = {} /\ Cardinality(fresh) \in Nat
  <2>1. fresh \in SUBSET found
    OBVIOUS
  <2>2. IsFiniteSet(fresh)
    BY <1>5, <2>1, FS_Subset
  <2>3. Cardinality(fresh) \in Nat
    BY <2>2, FS_CardinalityType
  <2>4. fresh \subseteq Nat /\ fresh \in SUBSET Int
    <3> HIDE DEF fresh
    <3>1. fresh \subseteq Nat
      BY <1>5, <2>1, Zenon
    <3>2. QED
      BY <3>1
  <2>5. fresh \cap d.discovered = {}
    BY Zenon
  <2>6. QED
    BY <2>2, <2>3, <2>4, <2>5
<1>7. Cardinality(d.discovered) \in Nat /\ room \in Nat
  BY <1>3, FS_CardinalityType, Limits
<1> HIDE DEF fresh, room
<1>8. /\ kept \subseteq fresh /\ IsFiniteSet(kept) /\ Cardinality(kept) \in Nat
      /\ Cardinality(kept) <= room /\ (kept # fresh => Cardinality(kept) = room)
  <2>1. CASE Cardinality(fresh) <= room
    BY <1>6, <2>1
  <2>2. CASE ~ (Cardinality(fresh) <= room)
    <3>1. kept = {x \in fresh : Rank(x, fresh) <= room}
      BY <2>2
    <3>2. room <= Cardinality(fresh)
      BY <1>6, <1>7, <2>2
    <3> HIDE DEF kept
    <3>3. IsFiniteSet(kept) /\ Cardinality(kept) = room
      BY <1>6, <1>7, <3>1, <3>2, FirstRanks
    <3>4. QED
      BY <1>7, <3>1, <3>3
  <2>3. QED
    BY <2>1, <2>2
<1> HIDE DEF kept
<1>9. /\ IsFiniteSet(d.discovered \cup kept)
      /\ Cardinality(d.discovered \cup kept) = Cardinality(d.discovered) + Cardinality(kept)
  <2>1. d.discovered \cap kept = {}
    BY <1>6, <1>8, Zenon
  <2>2. /\ IsFiniteSet(d.discovered \cup kept)
        /\ Cardinality(d.discovered \cup kept) =
             Cardinality(d.discovered) + Cardinality(kept) - Cardinality(d.discovered \cap kept)
    BY <1>3, <1>8, FS_Union
  <2>3. QED
    BY <1>7, <1>8, <2>1, <2>2, FS_EmptySet
<1>10. Cardinality(e.discovered) <= MaxDiscovered
  BY <1>2, <1>7, <1>8, <1>9, Limits DEF room
<1>11. e.overflow \in BOOLEAN
  BY <1>2, Zenon
<1>12. ASSUME e.overflow PROVE Cardinality(e.discovered) = MaxDiscovered
  BY <1>2, <1>3, <1>7, <1>8, <1>9, <1>12, Limits DEF room
<1>13. TokensOK(e)
  BY <1>2, <1>3, <1>6, <1>8, <1>9, <1>10, <1>11, <1>12, Zenon DEF TokensOK
<1>14. QED
  BY <1>2, <1>13


\* What the guards of CommitCanonicalBlock say.
MayCommit(d, b) ==
  /\ StoredAt(d, Number[b]) = {}
  /\ ExtendsCursor(d, b)
  /\ \A c \in ForeignAt(d, b) : d.status[c] = "observed"
  /\ ReserveUnconfirmedBlock(d, b)
  /\ ReserveJournal(d, Cardinality({c \in Members(b) : d.status[c] \in {"none", "observed"}}))

\* What accepting a block does to the records of candidates.
Staged(d, e, b) ==
  /\ \A c \in Candidates : c \in Members(b) <=> Indexed(c) /\ Info[c].block = b
  /\ \A c \in Members(b) : e.status[c] = "staged"
  /\ \A c \in Members(b) : d.status[c] = "none" \/ d.status[c] = "observed"
  /\ \A c \in Candidates : c \notin Members(b) =>
       e.status[c] = IF c \in ForeignAt(d, b) THEN "none" ELSE d.status[c]
  /\ \A c \in ForeignAt(d, b) : d.status[c] = "observed"
  /\ e.blocks = d.blocks \cup {b} /\ e.cursor = b /\ e.checkpoint = d.checkpoint
  /\ e.baseline = (IF d.cursor = NoBlock THEN Number[b] ELSE d.baseline)

LEMMA CommitRecords ==
  ASSUME NEW d, NEW com, NEW ack, StoreOK(d, com, ack), NEW b \in Blocks, MayCommit(d, b),
         NEW e, e = CommittedBlock(d, b)
  PROVE  /\ RecordsOK(e) /\ Len(e.tombstones) <= TombstoneLimit
         /\ Staged(d, e, b) /\ ReadyStays(d, e)
         /\ WithStatus(e, Unfinished) = WithStatus(d, Unfinished) \cup Members(b)
         /\ Cardinality(WithStatus(e, Unfinished)) <= JournalCapacity
<1> DEFINE M == Members(b)
           F == ForeignAt(d, b)
           added == {c \in M : d.status[c] \in {"none", "observed"}}
<1>1. /\ RecordsOK(d) /\ DOMAIN d = DbFields /\ d.status \in [Candidates -> Statuses]
      /\ d.blocks \subseteq Blocks /\ d.tombstones \in Seq(Candidates)
      /\ d.baseline \in Nat /\ d.checkpoint \in Nat /\ Number[b] \in Nat
  BY StoreParts, Given DEF TypesOK
<1>2. b \notin d.blocks
  BY DEF MayCommit, StoredAt
<1>3. M \in SUBSET Candidates /\ \A c \in M : Indexed(c) /\ Info[c].block = b
  BY DEF Members
<1>4. \A c \in M : d.status[c] = "none" \/ d.status[c] = "observed"
  BY <1>2, <1>3, StoreParts DEF MembersOK
<1>5. added = M
  BY <1>4
<1>6. /\ F \subseteq Candidates /\ F \cap M = {}
      /\ \A c \in F : d.status[c] = "observed"
  BY DEF ForeignAt, MayCommit
<1> HIDE DEF F, added
<1>7. PICK k : k = Forget(d, F)
  OBVIOUS
<1>8. RecordsOK(k) /\ Forgotten(d, k, F)
  BY <1>1, <1>6, <1>7, ForgetKeeps DEF Unfinished
<1>9. PICK t : t = ConfirmDiscoveredTokens(k, b)
  OBVIOUS
<1>10. /\ TypesOK(k) /\ QueueOK(k) /\ IncidentsOK(k) /\ TombstonesOK(k) /\ TokensOK(k) /\ TurnsOK(k)
  BY <1>8 DEF RecordsOK
<1>11. DOMAIN k = DbFields /\ k.status \in [Candidates -> Statuses]
  BY <1>10 DEF TypesOK
<1>12. /\ TokensOK(t) /\ SameChain(k, t) /\ DOMAIN t = DbFields
       /\ t.incidents = k.incidents /\ t.tombstones = k.tombstones
       /\ t.ready = k.ready /\ t.turn = k.turn /\ t.waited = k.waited
       /\ t.status = k.status
  BY <1>9, <1>10, <1>11, TokensKept
<1> DEFINE base == IF d.cursor = NoBlock THEN Number[b] ELSE t.baseline
<1>13. e = [t EXCEPT !.status = [c \in Candidates |-> IF c \in M THEN "staged" ELSE @[c]],
                     !.blocks = @ \cup {b}, !.baseline = base, !.cursor = b]
  BY <1>5, <1>7, <1>9, Zenon DEF CommittedBlock, F, added
<1> HIDE DEF M, base
<1>14. /\ DOMAIN e = DbFields /\ e.checkpoint = t.checkpoint
       /\ e.blocks = t.blocks \cup {b} /\ e.baseline = base /\ e.cursor = b
       /\ e.incidents = t.incidents /\ e.tombstones = t.tombstones
       /\ e.discovered = t.discovered /\ e.overflow = t.overflow
       /\ e.ready = t.ready /\ e.turn = t.turn /\ e.waited = t.waited
       /\ e.status = [c \in Candidates |-> IF c \in M THEN "staged" ELSE t.status[c]]
  BY <1>12, <1>13, Zenon DEF DbFields
<1>15. \A c \in Candidates : e.status[c] = IF c \in M THEN "staged" ELSE k.status[c]
  BY <1>12, <1>14
<1>16. \A c \in Candidates : k.status[c] = IF c \in F THEN "none" ELSE d.status[c]
  BY <1>8 DEF Forgotten
<1>17. Staged(d, e, b)
  <2>1. \A c \in Candidates : c \in M <=> Indexed(c) /\ Info[c].block = b
    BY DEF M, Members
  <2>2. e.blocks = d.blocks \cup {b} /\ e.cursor = b /\ e.checkpoint = d.checkpoint
    BY <1>8, <1>12, <1>14 DEF Forgotten, SameChain
  <2>3. e.baseline = (IF d.cursor = NoBlock THEN Number[b] ELSE d.baseline)
    BY <1>8, <1>12, <1>14 DEF Forgotten, SameChain, base
  <2>4. QED
    BY <1>3, <1>4, <1>6, <1>15, <1>16, <2>1, <2>2, <2>3 DEF Staged, M, F
<1>18. /\ e.incidents = k.incidents /\ e.tombstones = k.tombstones
       /\ e.ready = k.ready /\ e.turn = k.turn /\ e.waited = k.waited
  BY <1>12, <1>14
<1>19. \A c \in M : c \in Candidates /\ (k.status[c] = "none" \/ k.status[c] = "observed")
  BY <1>3, <1>4, <1>16
<1>20. /\ WithStatus(e, {"ready"}) = WithStatus(k, {"ready"})
       /\ WithStatus(e, {"acked"}) = WithStatus(k, {"acked"})
       /\ WithStatus(e, {"delayed", "acked"}) = WithStatus(k, {"delayed", "acked"})
       /\ WithStatus(e, {"observed"}) \subseteq WithStatus(k, {"observed"})
       /\ WithStatus(e, Unfinished) = WithStatus(k, Unfinished) \cup M
  BY <1>15, <1>19 DEF WithStatus, Unfinished
<1>21. WithStatus(e, Unfinished) = WithStatus(d, Unfinished) \cup M
  BY <1>8, <1>20 DEF Forgotten
<1>22. Cardinality(WithStatus(e, Unfinished)) <= JournalCapacity
  <2>1. WithStatus(d, Unfinished) \cap M = {} /\ WithStatus(d, Unfinished) \in SUBSET Candidates
    BY <1>4 DEF WithStatus, Unfinished
  <2>2. /\ IsFiniteSet(M) /\ Cardinality(M) \in Nat
        /\ IsFiniteSet(WithStatus(d, Unfinished)) /\ Cardinality(WithStatus(d, Unfinished)) \in Nat
    BY <1>3, <2>1, FiniteCandidates
  <2>3. Cardinality(WithStatus(d, Unfinished) \cup M) =
          Cardinality(WithStatus(d, Unfinished)) + Cardinality(M)
            - Cardinality(WithStatus(d, Unfinished) \cap M)
    BY <2>2, FS_Union
  <2>4. Cardinality(WithStatus(d, Unfinished)) + Cardinality(M) <= JournalCapacity
    BY <1>5 DEF MayCommit, ReserveJournal, JournalCount, added, M
  <2>5. QED
    BY <1>21, <2>1, <2>2, <2>3, <2>4, FS_EmptySet
<1>23. TypesOK(e)
  <2>1. e.status \in [Candidates -> Statuses]
    <3>1. "staged" \in Statuses
      BY DEF Statuses, Unfinished
    <3>2. QED
      BY <1>11, <1>12, <1>14, <3>1
  <2>2. /\ e.blocks \subseteq Blocks /\ e.cursor \in Blocks /\ e.baseline \in Nat
        /\ e.checkpoint \in Nat
    BY <1>1, <1>17 DEF Staged
  <2>3. QED
    BY <1>10, <1>14, <1>18, <2>1, <2>2, Zenon DEF TypesOK
<1>24. QueueOK(e)
  <2>1. WithStatus(k, {"observed"}) \in SUBSET Candidates
    BY DEF WithStatus
  <2>2. /\ Cardinality(WithStatus(e, {"observed"})) <= Cardinality(WithStatus(k, {"observed"}))
        /\ Cardinality(WithStatus(e, {"observed"})) \in Nat
        /\ Cardinality(WithStatus(k, {"observed"})) \in Nat
    BY <1>20, <2>1, FiniteCandidates, FS_Subset
  <2>3. Cardinality(WithStatus(k, {"observed"})) <= MaxPending
    BY <1>10 DEF QueueOK
  <2>4. Cardinality(WithStatus(e, {"observed"})) <= MaxPending
    BY <2>2, <2>3, Limits
  <2>5. QED
    BY <1>10, <1>18, <1>20, <1>22, <2>4, Zenon DEF QueueOK, JournalCount
<1>25. IncidentsOK(e)
  BY <1>10, <1>15, <1>18, <1>20 DEF IncidentsOK, TypesOK
<1>26. TombstonesOK(e)
  BY <1>10, <1>18, <1>20 DEF TombstonesOK
<1>27. TokensOK(e) /\ TurnsOK(e)
  BY <1>10, <1>12, <1>14, <1>18 DEF TokensOK, TurnsOK
<1>28. Len(e.tombstones) <= TombstoneLimit
  <2>1. k.tombstones \in Seq(Candidates) /\ Len(k.tombstones) <= Len(d.tombstones)
    BY <1>8, <1>10 DEF Forgotten, TypesOK
  <2>2. Len(d.tombstones) <= TombstoneLimit
    BY StoreParts, Zenon
  <2>3. QED
    BY <1>1, <1>18, <2>1, <2>2, Limits
<1>29. ReadyStays(d, e)
  BY <1>4, <1>6, <1>15, <1>16 DEF ReadyStays
<1>30. QED
  BY <1>17, <1>21, <1>22, <1>23, <1>24, <1>25, <1>26, <1>27, <1>28, <1>29 DEF RecordsOK, M

LEMMA CommitChain ==
  ASSUME NEW d, NEW com, NEW ack, StoreOK(d, com, ack), NEW b \in Blocks, MayCommit(d, b),
         NEW e, Staged(d, e, b)
  PROVE  /\ ChainParts(e, com \cup {b}, ack) /\ b \notin com
         /\ com # {} => Parent[b] \in com
<1> DEFINE N == Number[b]
           C == Number[d.cursor]
<1>1. /\ d.blocks \subseteq Blocks /\ d.cursor \in Blocks \cup {NoBlock}
      /\ d.baseline \in Nat /\ d.checkpoint \in Nat /\ N \in Nat /\ N > 0
      /\ \A x \in d.blocks : Number[x] \in Nat /\ Number[x] > 0
  BY StoreParts, Given, Zenon DEF TypesOK
<1>2. \A x \in d.blocks : Number[x] # N /\ x # b
  BY DEF MayCommit, StoredAt
<1>3. /\ e.blocks = d.blocks \cup {b} /\ e.cursor = b /\ e.checkpoint = d.checkpoint
      /\ e.baseline = (IF d.cursor = NoBlock THEN N ELSE d.baseline) /\ b # NoBlock
  BY Given DEF Staged
<1>4. /\ d.blocks \subseteq com /\ com \subseteq Blocks
      /\ \A x \in com \ d.blocks :
           d.checkpoint # 0 /\ Number[x] < d.baseline /\ Members(x) \subseteq ack
      /\ \A c \in Candidates : Indexed(c) =>
           /\ c \in ack => Info[c].block \in com
           /\ Info[c].block \in d.blocks => (d.status[c] = "acked" <=> c \in ack)
  BY StoreParts, Zenon DEF HistoryOK
<1>5. ASSUME d.cursor = NoBlock
      PROVE  /\ d.checkpoint = 0 /\ d.blocks = {} /\ com = {} /\ e.blocks = {b}
             /\ e.baseline = N /\ e.checkpoint = 0
  <2>1. d.checkpoint = 0 /\ d.blocks = {}
    BY <1>5, StoreParts, Zenon DEF ChainOK
  <2>2. QED
    BY <1>3, <1>4, <1>5, <2>1
<1>6. ASSUME d.cursor # NoBlock
      PROVE  /\ d.cursor \in d.blocks /\ d.baseline > 0 /\ C \in Nat /\ d.baseline <= C
             /\ \A x \in d.blocks : Number[x] \in d.baseline .. C
             /\ \A n \in d.baseline .. C : \E x \in d.blocks : Number[x] = n
             /\ \A a, x \in d.blocks : Number[a] = Number[x] => a = x
             /\ \A x \in d.blocks : Number[x] # d.baseline =>
                  Parent[x] \in d.blocks /\ Number[Parent[x]] = Number[x] - 1
             /\ N = C + 1 /\ Parent[b] = d.cursor /\ e.baseline = d.baseline
  <2>1. N = C + 1 /\ Parent[b] = d.cursor
    BY <1>6 DEF MayCommit, ExtendsCursor
  <2>2. /\ d.cursor \in d.blocks /\ d.baseline > 0
        /\ \A x \in d.blocks : Number[x] \in d.baseline .. C
        /\ \A n \in d.baseline .. C : \E x \in d.blocks : Number[x] = n
        /\ \A a, x \in d.blocks : Number[a] = Number[x] => a = x
        /\ \A x \in d.blocks : Number[x] # d.baseline =>
             Parent[x] \in d.blocks /\ Number[Parent[x]] = Number[x] - 1
    BY <1>6, StoreParts, Zenon DEF ChainOK
  <2>3. C \in Nat /\ d.baseline <= C
    BY <1>1, <2>2
  <2>4. e.baseline = d.baseline
    BY <1>3, <1>6
  <2>5. QED
    BY <2>1, <2>2, <2>3, <2>4
<1>7. b \notin com
  <2>1. SUFFICES ASSUME b \in com PROVE FALSE
    OBVIOUS
  <2>2. d.checkpoint # 0 /\ N < d.baseline
    BY <1>2, <1>4, <2>1
  <2>3. d.cursor # NoBlock
    BY <1>5, <2>2
  <2>4. QED
    BY <1>1, <1>6, <2>2, <2>3
<1>8. com # {} => Parent[b] \in com
  BY <1>4, <1>5, <1>6
<1>9. ChainOK(e)
  <2>1. CASE d.cursor = NoBlock
    BY <1>1, <1>3, <1>5, <2>1 DEF ChainOK
  <2>2. CASE d.cursor # NoBlock
    <3>1. \A x \in e.blocks : Number[x] \in d.baseline .. N
      BY <1>1, <1>3, <1>6, <2>2
    <3>2. ASSUME NEW n \in d.baseline .. N PROVE \E x \in e.blocks : Number[x] = n
      BY <1>3, <1>6, <2>2
    <3>3. \A a, x \in e.blocks : Number[a] = Number[x] => a = x
      BY <1>3, <1>6, <2>2
    <3>4. ASSUME NEW x \in e.blocks, Number[x] # d.baseline
          PROVE  Parent[x] \in e.blocks /\ Number[Parent[x]] = Number[x] - 1
      BY <1>3, <1>6, <2>2, <3>4
    <3>5. e.baseline = d.baseline /\ d.baseline > 0
      BY <1>6, <2>2
    <3>6. QED
      BY <1>3, <3>1, <3>2, <3>3, <3>4, <3>5 DEF ChainOK
  <2>3. QED
    BY <2>1, <2>2
<1>10. d.checkpoint < N
  <2>1. CASE d.cursor = NoBlock
    BY <1>1, <1>5, <2>1
  <2>2. CASE d.cursor # NoBlock
    <3>1. d.checkpoint = 0 \/ d.checkpoint \in d.baseline .. C
      BY <2>2, StoreParts, Zenon DEF CheckpointOK, InChain
    <3>2. QED
      BY <1>1, <1>6, <2>2, <3>1
  <2>3. QED
    BY <2>1, <2>2
<1>11. \A c \in Candidates : Indexed(c) /\ Info[c].block # b =>
         /\ c \notin Members(b)
         /\ e.status[c] = "acked" <=> d.status[c] = "acked"
         /\ e.status[c] \in {"none", "observed"} <=> d.status[c] \in {"none", "observed"}
         /\ e.status[c] # "none" => d.status[c] # "none" /\ c \notin ForeignAt(d, b)
  BY DEF Staged
<1>12. CompleteOK(e)
  <2>1. SUFFICES ASSUME NEW x \in e.blocks, Number[x] <= e.checkpoint,
                        NEW c \in Members(x)
                 PROVE  e.status[c] = "acked"
    BY DEF CompleteOK, BlockComplete
  <2>2. x \in d.blocks /\ x # b
    BY <1>1, <1>2, <1>3, <1>10, <2>1
  <2>3. d.status[c] = "acked"
    BY <1>3, <2>1, <2>2, StoreParts, Zenon DEF CompleteOK, BlockComplete
  <2>4. c \in Candidates /\ Indexed(c) /\ Info[c].block = x
    BY <2>1 DEF Members
  <2>5. QED
    BY <1>11, <2>2, <2>3, <2>4
<1>13. CheckpointOK(e)
  <2>1. CASE d.cursor = NoBlock
    BY <1>1, <1>3, <1>5, <2>1, Limits DEF CheckpointOK
  <2>2. CASE d.cursor # NoBlock
    <3>0. C \in Nat /\ N = C + 1 /\ e.baseline = d.baseline
      BY <1>6, <2>2, Zenon
    <3>1. \/ d.checkpoint # 0 /\ N - d.checkpoint <= UnconfirmedBlockLimit
          \/ d.checkpoint = 0 /\ N - d.baseline + 1 <= UnconfirmedBlockLimit
      BY <2>2 DEF MayCommit, ReserveUnconfirmedBlock
    <3>2. CASE d.checkpoint = 0
      <4>1. e.checkpoint = 0 /\ Number[e.cursor] - e.baseline < UnconfirmedBlockLimit
        BY <1>1, <1>3, <3>0, <3>1, <3>2, Limits
      <4>2. QED
        BY <4>1, Zenon DEF CheckpointOK
    <3>3. CASE d.checkpoint # 0
      <4>1. d.checkpoint \in d.baseline .. C /\ d.checkpoint - d.baseline < CanonicalBlockLimit
        BY <2>2, <3>3, StoreParts, Zenon DEF CheckpointOK, InChain
      <4>2. d.checkpoint \in d.baseline .. N
        BY <1>1, <3>0, <4>1
      <4>3. InChain(e)
        BY <1>3, <3>0, <3>1, <3>3, <4>2, Zenon DEF InChain
      <4>4. QED
        BY <1>3, <3>0, <4>1, <4>3, Zenon DEF CheckpointOK
    <3>4. QED
      BY <3>2, <3>3
  <2>3. QED
    BY <2>1, <2>2
<1>14. MembersOK(e)
  <2>1. SUFFICES ASSUME NEW c \in Candidates, Indexed(c)
                 PROVE  /\ e.status[c] \in {"none", "observed"} <=> Info[c].block \notin e.blocks
                        /\ \A x \in e.blocks : Number[x] = Height(c) /\ e.status[c] # "none"
                             => Info[c].block = x
    BY DEF MembersOK
  <2>2. /\ d.status[c] \in {"none", "observed"} <=> Info[c].block \notin d.blocks
        /\ \A x \in d.blocks : Number[x] = Height(c) /\ d.status[c] # "none"
             => Info[c].block = x
    BY <2>1, StoreParts, Zenon DEF MembersOK
  <2>3. Height(c) = Number[Info[c].block]
    BY <2>1, Given
  <2>4. CASE Info[c].block = b
    BY <1>2, <1>3, <2>1, <2>3, <2>4 DEF Staged
  <2>5. CASE Info[c].block # b
    BY <1>3, <1>11, <2>1, <2>2, <2>5 DEF ForeignAt
  <2>6. QED
    BY <2>4, <2>5
<1>15. HistoryOK(e, com \cup {b}, ack)
  <2>1. \A x \in (com \cup {b}) \ e.blocks :
          e.checkpoint # 0 /\ Number[x] < e.baseline /\ Members(x) \subseteq ack
    BY <1>3, <1>4, <1>5, <1>6
  <2>2. ASSUME NEW c \in Candidates, Indexed(c)
        PROVE  /\ c \in ack => Info[c].block \in com \cup {b}
               /\ Info[c].block \in e.blocks => (e.status[c] = "acked" <=> c \in ack)
    BY <1>4, <1>7, <1>11, <2>2 DEF Staged
  <2>3. e.blocks \subseteq com \cup {b} /\ com \cup {b} \subseteq Blocks
    BY <1>3, <1>4
  <2>4. QED
    BY <2>1, <2>2, <2>3 DEF HistoryOK
<1>16. QED
  BY <1>7, <1>8, <1>9, <1>12, <1>13, <1>14, <1>15 DEF ChainParts

-----------------------------------------------------------------------------
(* Whole transactions.                                                     *)

\* The file after a transaction that accepts and confirms nothing.
Kept(d, e, com, ack) ==
  /\ StoreOK(e, com, ack) /\ Exact(e) /\ e.checkpoint = d.checkpoint
  /\ ReadyStays(d, e)
  /\ WithStatus(e, Unfinished) = WithStatus(d, Unfinished)

\* The file after a block was accepted.
BlockAdded(d, e, com, ack, b) ==
  /\ StoreOK(e, com \cup {b}, ack) /\ Exact(e) /\ ReadyStays(d, e)
  /\ WithStatus(e, Unfinished) = WithStatus(d, Unfinished) \cup Members(b)
  /\ Cardinality(WithStatus(e, Unfinished)) <= JournalCapacity
  /\ b \notin com /\ (com # {} => Parent[b] \in com)

LEMMA CommitKeeps ==
  ASSUME NEW d, NEW com, NEW ack, StoreOK(d, com, ack), NEW b \in Blocks, MayCommit(d, b),
         NEW t, NEW s, s = CommittedBlock(d, b), NEW p, p = PromoteCandidates(s, t),
         NEW e, e = AdvanceCheckpoint(p)
  PROVE  BlockAdded(d, e, com, ack, b)
<1>1. /\ RecordsOK(s) /\ Len(s.tombstones) <= TombstoneLimit
      /\ Staged(d, s, b) /\ ReadyStays(d, s)
      /\ WithStatus(s, Unfinished) = WithStatus(d, Unfinished) \cup Members(b)
      /\ Cardinality(WithStatus(s, Unfinished)) <= JournalCapacity
  BY CommitRecords
<1>2. /\ ChainParts(s, com \cup {b}, ack) /\ b \notin com
      /\ com # {} => Parent[b] \in com
  BY <1>1, CommitChain, Zenon
<1>3. StoreOK(s, com \cup {b}, ack)
  BY <1>1, <1>2 DEF StoreOK
<1>4. StoreOK(p, com \cup {b}, ack) /\ Promoted(s, p)
  BY <1>3, PromoteCandidatesKeeps
<1>5. StoreOK(e, com \cup {b}, ack) /\ Exact(e) /\ Advanced(p, e)
  BY <1>4, AdvanceKeeps
<1>6. ReadyStays(d, e)
  BY <1>1, <1>4, <1>5, Zenon DEF Promoted, Advanced, ReadyStays
<1>7. WithStatus(e, Unfinished) = WithStatus(s, Unfinished)
  BY <1>4, <1>5 DEF Promoted, Advanced
<1>8. QED
  BY <1>1, <1>2, <1>5, <1>6, <1>7, Zenon DEF BlockAdded

\* The file after a candidate of no block was accepted.
PutAdds(d, e, com, ack, c) ==
  /\ StoreOK(e, com, ack) /\ Exact(e) /\ e.checkpoint = d.checkpoint /\ ReadyStays(d, e)
  /\ WithStatus(e, Unfinished) = WithStatus(d, Unfinished) \cup {c}
  /\ c \notin WithStatus(d, Unfinished)

LEMMA PutTransaction ==
  ASSUME NEW d, NEW com, NEW ack, StoreOK(d, com, ack), Exact(d),
         NEW c \in Candidates, ~Indexed(c), d.status[c] = "none", ReserveJournal(d, 1),
         NEW k, k = [d EXCEPT !.status[c] = "staged"], NEW t, NEW e, e = PromoteCandidates(k, t)
  PROVE  PutAdds(d, e, com, ack, c)
<1>1. \A x : x = [d EXCEPT !.status[c] = "staged"] =>
        /\ StoreOK(x, com, ack) /\ Exact(x) /\ SameChain(d, x) /\ ReadyStays(d, x)
        /\ WithStatus(x, Unfinished) = WithStatus(d, Unfinished) \cup {c}
  BY PutKeeps
<1>2. /\ StoreOK(k, com, ack) /\ Exact(k) /\ SameChain(d, k) /\ ReadyStays(d, k)
      /\ WithStatus(k, Unfinished) = WithStatus(d, Unfinished) \cup {c}
  BY <1>1, Zenon
<1>3. StoreOK(e, com, ack) /\ Promoted(k, e)
  BY <1>2, PromoteCandidatesKeeps
<1>4. c \notin WithStatus(d, Unfinished)
  BY DEF WithStatus, Unfinished
<1>5. QED
  BY <1>2, <1>3, <1>4 DEF PutAdds, Promoted, SameChain, ReadyStays

LEMMA NackTransaction ==
  ASSUME NEW d, NEW com, NEW ack, StoreOK(d, com, ack), Exact(d),
         NEW c \in Candidates, d.status[c] = "ready", c \in d.incidents, NEW r,
         NEW k, k = Nacked(d, c, r), NEW t, NEW e, e = PromoteCandidates(k, t)
  PROVE  /\ StoreOK(e, com, ack) /\ Exact(e) /\ e.checkpoint = d.checkpoint
         /\ WithStatus(e, Unfinished) = WithStatus(d, Unfinished)
<1>2. /\ StoreOK(k, com, ack) /\ Exact(k) /\ SameChain(d, k)
      /\ WithStatus(k, Unfinished) = WithStatus(d, Unfinished)
  BY NackKeeps
<1>3. StoreOK(e, com, ack) /\ Promoted(k, e)
  BY <1>2, PromoteCandidatesKeeps
<1>4. QED
  BY <1>2, <1>3 DEF Promoted, SameChain

LEMMA AckTransaction ==
  ASSUME NEW d, NEW com, NEW ack, StoreOK(d, com, ack),
         NEW c \in Candidates, d.status[c] = "ready", c \in d.incidents,
         NEW a, a = Acked(d, c),
         NEW k, k = AddTombstone(a, c), NEW f, f = AdvanceCheckpoint(k),
         NEW t, NEW e, e = PromoteCandidates(f, t)
  PROVE  /\ StoreOK(e, com, ack \cup {c}) /\ Exact(e)
         /\ WithStatus(e, Unfinished) = WithStatus(d, Unfinished) \ {c}
         /\ c \in WithStatus(d, Unfinished)
<1>2. /\ StoreOK(k, com, ack \cup {c})
      /\ WithStatus(k, Unfinished) = WithStatus(d, Unfinished) \ {c}
  BY AckKeeps
<1>3. StoreOK(f, com, ack \cup {c}) /\ Exact(f) /\ Advanced(k, f)
  BY <1>2, AdvanceKeeps
<1>4. StoreOK(e, com, ack \cup {c}) /\ Promoted(f, e)
  BY <1>3, PromoteCandidatesKeeps
<1>5. c \in WithStatus(d, Unfinished)
  BY DEF WithStatus, Unfinished
<1>6. QED
  BY <1>2, <1>3, <1>4, <1>5, Zenon DEF Promoted, Advanced

=============================================================================
