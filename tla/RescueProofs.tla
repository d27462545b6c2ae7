---------------------------- MODULE RescueProofs ----------------------------
(***************************************************************************)
(* The rescue coordinator never sends two transactions with one nonce,     *)
(* never sends what is not charged, holds one unsent signature at most and *)
(* ends a signed record by a receipt alone, for any incidents, attempts,   *)
(* quotes, nonces, deadlines and faults.                                   *)
(***************************************************************************)
EXTENDS RescueCoordinator, TLAPS

-----------------------------------------------------------------------------
(* The invariant.                                                          *)

Fields ==
  {"status", "attempts", "nonce", "nothing", "tx", "retryAt", "until", "code",
   "updated"}

\* What the proofs need to know of a record r of incident i.
RecordOK(i, r) ==
  /\ DOMAIN r = Fields
  /\ r.nonce \in Nat /\ r.attempts \in Nat
  /\ r.status \in Unsigned \cup {"absent"} => r.tx = NoTx
  /\ r.status \in NeedsReceipt => r.tx # NoTx
  /\ r.tx # NoTx =>
       /\ r.attempts \in AttemptNumbers
       /\ r.tx.nonce = r.nonce /\ r.tx.incident = i /\ r.tx.attempt = r.attempts

RecordsOK ==
  /\ DOMAIN inc = Incidents
  /\ \A i \in Incidents : RecordOK(i, inc[i])

Signed(i) == inc[i].tx # NoTx

OpFields == {"step", "incident", "from"}

\* The operation belongs to the session; incidents that recovery has not visited yet
\* are not touched by it.
ControlOK ==
  /\ DOMAIN op = OpFields
  /\ op.step # "idle" => session # "none" /\ op.incident \in Incidents \ todo
  /\ session = "live" => todo = {}
  /\ session # "none" =>
       \A i \in todo : i \in Incidents /\ inc[i].status \in NeedsReceipt

\* The charge of the stored transaction is final.
CostCommitted(i) ==
  Signed(i) => Reservation(i).state = "committed" /\ Reservation(i).tx = inc[i].tx

\* What an operation may rely on at the step it has reached.
SignedSteps == {"floor", "broadcast", "send", "exposed", "reconcile"}
NewNonceSteps == {"reserved", "signing"}
FreshSteps == {"prepare", "sign"} \cup NewNonceSteps
UnsignedSteps == {"nothing", "sign"}
GuardedSteps == SignedSteps \cup FreshSteps \cup {"nothing", "resume", "settle"}

StepOK ==
  /\ op.step \in SignedSteps => inc[op.incident].status \in NeedsReceipt
  /\ op.step \in UnsignedSteps => inc[op.incident].tx = NoTx
  /\ op.step \in NewNonceSteps => floor <= inc[op.incident].nonce
  /\ op.step \in FreshSteps \cup {"resume"} => session = "live"
  /\ op.step \in FreshSteps => ~nonceBlocked
  /\ op.step = "settle" => CostCommitted(op.incident)
  /\ op.step = "exposed" =>
       /\ ~stopped
       /\ Reservation(op.incident).state = "exposed"
       /\ Reservation(op.incident).tx = inc[op.incident].tx

\* A session has a floor above every signed nonce but the one it is just storing.
FloorOK ==
  /\ floor \in Nat /\ memFloor \in Nat
  /\ session # "none" =>
       /\ floor <= memFloor
       /\ \A i \in Incidents :
            Signed(i) => inc[i].nonce < floor \/ (op.step = "floor" /\ op.incident = i)

\* Nonces tell signed records apart, and a sent transaction from other records.
NoncesOK ==
  /\ \A i, j \in Incidents :
       Signed(i) /\ Signed(j) /\ inc[i].nonce = inc[j].nonce => i = j
  /\ \A t \in sent : t.nonce \in Nat /\ t.nonce < floor
  /\ \A t \in sent, i \in Incidents :
       Signed(i) /\ inc[i].nonce = t.nonce => t = inc[i].tx
  /\ NonceUnique

CoverOK ==
  /\ DOMAIN resv = Incidents \X AttemptNumbers
  /\ \A t \in sent : t.incident \in Incidents /\ t.attempt \in AttemptNumbers
  /\ SentCovered

\* The record of a claim remembers the transaction that was sent for it.
ClaimsOK ==
  \A t \in sent : t.incident \in Claims => inc[t.incident].tx = t

\* The flag in memory tells of a signature that waits for its first broadcast.
BlockOK ==
  /\ session = "live" /\ (\E i \in Incidents : inc[i].status = "signed") => nonceBlocked
  /\ OneUnsentSignature

RescueInv ==
  /\ RecordsOK /\ ControlOK /\ StepOK /\ FloorOK /\ NoncesOK /\ CoverOK /\ ClaimsOK
  /\ BlockOK /\ SettledByReceipt

LEMMA InvParts ==
  ASSUME RescueInv
  PROVE  /\ RecordsOK /\ ControlOK /\ StepOK /\ FloorOK /\ NoncesOK /\ CoverOK /\ ClaimsOK
         /\ BlockOK /\ SettledByReceipt
BY DEF RescueInv

-----------------------------------------------------------------------------
(* Records.                                                                *)

\* The part of a record that every update but a new attempt keeps.
SameAttempt(r, s) ==
  DOMAIN s = Fields /\ s.nonce = r.nonce /\ s.attempts = r.attempts

LEMMA ExpiredShape ==
  ASSUME NEW r, DOMAIN r = Fields
  PROVE  /\ SameAttempt(r, ExpiredAmbiguous(r))
         /\ ExpiredAmbiguous(r).status = "ambiguous"
BY Zenon DEF ExpiredAmbiguous, SameAttempt, Fields

LEMMA AmbiguousShape ==
  ASSUME NEW r, DOMAIN r = Fields, NEW code
  PROVE  /\ SameAttempt(r, Ambiguous(r, code))
         /\ Ambiguous(r, code).status = "ambiguous"
BY ExpiredShape, Zenon DEF Ambiguous, SameAttempt, Fields

LEMMA RetryableShape ==
  ASSUME NEW r, DOMAIN r = Fields
  PROVE  SameAttempt(r, Retryable(r)) /\ Retryable(r).status = "retryable"
BY Zenon DEF Retryable, SameAttempt, Fields

LEMMA NextAttemptShape ==
  ASSUME NEW r, DOMAIN r = Fields
  PROVE  /\ DOMAIN NextAttempt(r) = Fields
         /\ NextAttempt(r).nonce = 0 /\ NextAttempt(r).attempts = r.attempts + 1
BY Zenon DEF NextAttempt, Fields

\* What validateRescueIncident says of the fields that matter here.
LEMMA ValidParts ==
  ASSUME NEW r, ValidIncident(r)
  PROVE  /\ r.status # "absent"
         /\ r.attempts <= MaxAttempts
         /\ r.status # "pending" => r.attempts > 0
         /\ r.status \in Unsigned => r.tx = NoTx
         /\ r.status \in NeedsReceipt => r.tx # NoTx /\ r.tx.nonce = r.nonce
BY Zenon DEF ValidIncident

\* s takes the place of r without a new signature.
Quiet(r, s) == s.tx # NoTx => s.tx = r.tx /\ s.nonce = r.nonce

\* A signature is not forgotten.
Kept(r, s) == r.tx # NoTx => s.tx = r.tx

LEMMA UpdateIsQuiet ==
  ASSUME NEW i, NEW r, NEW s, RecordOK(i, r), UpdateAccepted(r, s),
         DOMAIN s = Fields, s.nonce \in Nat, s.attempts \in Nat, s.status # "signed"
  PROVE  /\ RecordOK(i, s)
         /\ Quiet(r, s) /\ Kept(r, s)
         /\ r.status \in NeedsReceipt =>
              s.status \in NeedsReceipt \cup ReceiptTerminal /\ s.tx = r.tx
                /\ s.attempts = r.attempts
<1>1. ValidIncident(s) /\ (s = r \/ Successor(r, s))
  BY DEF UpdateAccepted, ValidTransition
<1>2. CASE s = r
  BY <1>2 DEF Quiet, Kept, RecordOK
<1>3. CASE Successor(r, s)
  BY <1>1, <1>3, ValidParts
  DEF Successor, SameSignedOperation, SamePreparation, RecordOK, Quiet, Kept, Unsigned,
      NeedsReceipt, ReceiptTerminal
<1>4. QED
  BY <1>1, <1>2, <1>3

-----------------------------------------------------------------------------
(* Steps of an operation.                                                  *)

\* A record that ended with a transaction.
Settled(r) == r.status \in Terminal /\ r.tx # NoTx

\* A receipt decides the record of i to end with the given status.
Decides(i, status) ==
  /\ op.step = "settle" /\ op.incident = i
  /\ \E m \in mined : m.tx = inc[i].tx /\ (m.success <=> status # "failed")

\* Only the record of i changes, quietly, and finished ones may be pruned.
RecordsMove(i) ==
  /\ RecordsOK'
  /\ \A j \in Incidents : inc'[j].status = "signed" => inc[j].status = "signed"
  /\ \A j \in Incidents : Settled(inc'[j]) =>
       \/ inc'[j] = inc[j]
       \/ /\ j = i /\ Decides(i, inc'[i].status)
          /\ inc'[i].tx = inc[i].tx /\ inc'[i].attempts = inc[i].attempts
  /\ \A j \in Incidents : Quiet(inc[j], inc'[j])
  /\ \A j \in Claims : Kept(inc[j], inc'[j])
  /\ \A j \in Incidents \ {i} : inc'[j] = inc[j] \/ inc[j].status \in Terminal

\* The flag stays as it is, or tells of every signature that waits.
FlagOK ==
  \/ nonceBlocked' = nonceBlocked
  \/ (\E j \in Incidents : inc'[j].status = "signed") => nonceBlocked'

LEMMA SameFlag == UNCHANGED nonceBlocked => FlagOK
BY Zenon DEF FlagOK

\* Statuses an update may leave behind without signing or ending the record.
Working == {"pending", "prepared", "retryable", "broadcast", "ambiguous"}

\* The operation on i goes on to a step, or returns.
MovesTo(i, step) ==
  /\ DOMAIN op' = OpFields
  /\ session' \in {session, "none"}
  /\ op'.step = "idle" \/ (op'.step = step /\ op'.incident = i /\ session' = session)

LEMMA IdleShape == DOMAIN Idle = OpFields /\ Idle.step = "idle"
BY DEF Idle, OpFields

LEMMA GotoMoves ==
  ASSUME DOMAIN op = OpFields, NEW step, Goto(step)
  PROVE  MovesTo(op.incident, step) /\ op'.step = step
BY Zenon DEF Goto, MovesTo, OpFields

LEMMA DoneMoves ==
  ASSUME Done, NEW i, NEW step
  PROVE  MovesTo(i, step) /\ op'.step = "idle"
BY IdleShape DEF Done, MovesTo

LEMMA FatalMoves ==
  ASSUME Fatal, NEW i, NEW step
  PROVE  MovesTo(i, step) /\ op'.step = "idle"
BY IdleShape DEF Fatal, MovesTo

LEMMA NoMove ==
  ASSUME RecordsOK, UNCHANGED inc, NEW i
  PROVE  RecordsMove(i)
BY DEF RecordsOK, RecordOK, RecordsMove, Quiet, Kept

LEMMA RecordMoves ==
  ASSUME RecordsOK, NEW i \in Incidents, NEW r, RecordOK(i, r), Quiet(inc[i], r),
         Kept(inc[i], r), r.status \in Working,
         inc' = [inc EXCEPT ![i] = r]
  PROVE  RecordsMove(i)
BY RescueStateConstants DEF RecordsOK, Working, Settled, Terminal, ReceiptTerminal,
   RecordsMove, Quiet, Kept

LEMMA PersistMoves ==
  ASSUME RecordsOK, ControlOK, NEW i \in Incidents, NEW r, NEW step,
         op.incident = i \/ step = "idle",
         DOMAIN r = Fields, r.nonce \in Nat, r.attempts \in Nat, r.status \in Working,
         Persist(i, r, step)
  PROVE  /\ RecordsMove(i) /\ MovesTo(i, step)
         /\ op'.step # "idle" => inc'[i] = r /\ UpdateAccepted(inc[i], r)
BY UpdateIsQuiet, RecordMoves, DoneMoves, GotoMoves, NoMove, FatalMoves DEF RecordsOK,
   Working, ControlOK, Persist

LEMMA AbsentOK == ASSUME NEW i PROVE RecordOK(i, Absent)
BY DEF Absent, Fields, RecordOK, NeedsReceipt

LEMMA PruneMoves ==
  ASSUME NEW b, DOMAIN b = Incidents, \A j \in Incidents : RecordOK(j, b[j]),
         inc' = PruneIncidents(b)
  PROVE  /\ RecordsOK'
         /\ \A j \in Incidents :
              \/ inc'[j] = b[j]
              \/ inc'[j].tx = NoTx /\ inc'[j].status = "absent" /\ b[j].status \in Terminal
         /\ \A j \in Claims : inc'[j] = b[j]
BY AbsentOK, RescueStateConstants, Zenon DEF Absent, PruneIncidents, Pruned, Prunable, RecordsOK

LEMMA SetTerminalMoves ==
  ASSUME RecordsOK, NEW i \in Incidents, NEW status \in Terminal, NEW code,
         inc[i].tx # NoTx => Decides(i, status),
         SetTerminal(i, status, code), NEW step
  PROVE  RecordsMove(i) /\ MovesTo(i, step) /\ op'.step = "idle" /\ FlagOK
<1> DEFINE r == [inc[i] EXCEPT !.status = status, !.retryAt = 0, !.until = 0,
                               !.code = code, !.updated = now]
           b == [inc EXCEPT ![i] = r]
<1>1. /\ DOMAIN r = Fields /\ r.nonce = inc[i].nonce /\ r.attempts = inc[i].attempts
      /\ r.status = status /\ r.tx = inc[i].tx
  BY DEF RecordsOK, RecordOK, Fields
<1>2. \/ /\ UpdateAccepted(inc[i], r) /\ inc' = PruneIncidents(b) /\ Done
         /\ nonceBlocked' = RefreshNonceBlock(b)
      \/ UNCHANGED <<inc, nonceBlocked>> /\ Fatal
  BY Zenon DEF SetTerminal
<1> HIDE DEF r
<1>3. status # "signed"
  BY DEF Terminal, ReceiptTerminal
<1>4. CASE /\ UpdateAccepted(inc[i], r) /\ inc' = PruneIncidents(b) /\ Done
           /\ nonceBlocked' = RefreshNonceBlock(b)
  <2>1. RecordOK(i, r) /\ Quiet(inc[i], r) /\ Kept(inc[i], r)
    <3>1. r.nonce \in Nat /\ r.attempts \in Nat /\ RecordOK(i, inc[i])
      BY <1>1 DEF RecordsOK, RecordOK
    <3>2. QED
      BY <1>1, <1>3, <1>4, <3>1, UpdateIsQuiet
  <2>2. DOMAIN b = Incidents /\ \A j \in Incidents : RecordOK(j, b[j])
    BY <2>1 DEF RecordsOK
  <2>3. b[i] = r /\ \A j \in Incidents \ {i} : b[j] = inc[j]
    BY DEF RecordsOK
  <2> HIDE DEF b
  <2>4. /\ RecordsOK'
        /\ \A j \in Incidents :
             \/ inc'[j] = b[j]
             \/ inc'[j].tx = NoTx /\ inc'[j].status = "absent" /\ b[j].status \in Terminal
        /\ \A j \in Claims : inc'[j] = b[j]
    BY <1>4, <2>2, PruneMoves, Zenon
  <2>5. \A j \in Incidents : inc'[j].status = "signed" =>
          inc[j].status = "signed" /\ b[j].status = "signed"
    BY <1>1, <1>3, <2>3, <2>4
  <2>6. \A j \in Incidents : Settled(inc'[j]) =>
          \/ inc'[j] = inc[j]
          \/ /\ j = i /\ Decides(i, inc'[i].status)
             /\ inc'[i].tx = inc[i].tx /\ inc'[i].attempts = inc[i].attempts
    BY <1>1, <2>3, <2>4 DEF Settled
  <2>7. RecordsMove(i)
    BY <2>1, <2>3, <2>4, <2>5, <2>6, RescueStateConstants DEF RecordsMove, Quiet, Kept
  <2>8. FlagOK
    BY <1>4, <2>5, Zenon DEF FlagOK, RefreshNonceBlock
  <2>9. QED
    BY <1>4, <2>7, <2>8, DoneMoves
<1>5. CASE UNCHANGED <<inc, nonceBlocked>> /\ Fatal
  BY <1>5, NoMove, FatalMoves, SameFlag
<1>6. QED
  BY <1>2, <1>4, <1>5, Zenon

\* The refresh after an update counts every signature.
LEMMA RefreshedFlag ==
  ASSUME NEW i, NEW r, NEW step, PersistAndRefresh(i, r, step)
  PROVE  Persist(i, r, step) /\ FlagOK
BY Zenon DEF PersistAndRefresh, FlagOK, RefreshNonceBlock

-----------------------------------------------------------------------------
(* What a step has to keep for the invariant to hold after it.             *)

\* A floor that was due is raised, none falls.
FloorsRise ==
  /\ floor' \in Nat /\ memFloor' \in Nat
  /\ floor <= floor' /\ floor' <= memFloor'
  /\ op.step = "floor" => inc[op.incident].nonce < floor'

\* What covers a transaction goes on covering it.
ReservationsKept ==
  /\ DOMAIN resv' = DOMAIN resv
  /\ \A a \in DOMAIN resv :
       resv[a].state \in {"exposed", "committed"} =>
         /\ resv'[a].state \in {"exposed", "committed"} /\ resv'[a].tx = resv[a].tx
         /\ resv[a].state = "committed" => resv'[a].state = "committed"

LEMMA NoncesKept ==
  ASSUME NoncesOK, FloorOK, \A j \in Incidents : Quiet(inc[j], inc'[j]),
         floor' \in Nat, floor <= floor', sent' = sent
  PROVE  NoncesOK'
BY DEF NoncesOK, FloorOK, NonceUnique, Signed, Quiet

LEMMA ClaimsKept ==
  ASSUME RecordsOK, ClaimsOK, \A j \in Claims : Kept(inc[j], inc'[j]),
         \A t \in sent : t # NoTx, sent' = sent
  PROVE  ClaimsOK'
BY DEF ClaimsOK, Kept

LEMMA CoverKept ==
  ASSUME CoverOK, ReservationsKept, sent' = sent
  PROVE  CoverOK'
BY DEF CoverOK, ReservationsKept, SentCovered

LEMMA SettledKept ==
  ASSUME RecordsOK, RecordsOK', CoverOK, StepOK, SettledByReceipt, ReservationsKept,
         mined \subseteq mined', NEW i \in Incidents, RecordsMove(i)
  PROVE  SettledByReceipt'
<1> SUFFICES ASSUME NEW j \in Incidents, inc'[j].status \in Terminal, inc'[j].tx # NoTx
             PROVE  /\ \E m \in mined' : m.tx = inc'[j].tx
                                        /\ (m.success <=> inc'[j].status # "failed")
                    /\ resv'[<<j, inc'[j].attempts>>].state = "committed"
                    /\ resv'[<<j, inc'[j].attempts>>].tx = inc'[j].tx
  BY DEF SettledByReceipt, Reservation, Attempt
<1>1. <<j, inc'[j].attempts>> \in DOMAIN resv
  BY DEF RecordsOK, RecordOK, CoverOK
<1>2. \/ inc'[j] = inc[j]
      \/ /\ j = i /\ Decides(i, inc'[i].status)
         /\ inc'[i].tx = inc[i].tx /\ inc'[i].attempts = inc[i].attempts
  BY DEF RecordsMove, Settled
<1>3. CASE inc'[j] = inc[j]
  <2>1. /\ \E m \in mined : m.tx = inc'[j].tx /\ (m.success <=> inc'[j].status # "failed")
        /\ resv[<<j, inc'[j].attempts>>].state = "committed"
        /\ resv[<<j, inc'[j].attempts>>].tx = inc'[j].tx
    BY <1>3, Zenon DEF SettledByReceipt, Reservation, Attempt
  <2>2. QED
    BY <1>1, <2>1, Zenon DEF ReservationsKept
<1>4. CASE /\ j = i /\ Decides(i, inc'[i].status)
           /\ inc'[i].tx = inc[i].tx /\ inc'[i].attempts = inc[i].attempts
  <2>1. /\ \E m \in mined : m.tx = inc'[j].tx /\ (m.success <=> inc'[j].status # "failed")
        /\ op.step = "settle" /\ op.incident = j /\ inc[j].tx # NoTx
    BY <1>4, Zenon DEF Decides
  <2>2. /\ resv[<<j, inc'[j].attempts>>].state = "committed"
        /\ resv[<<j, inc'[j].attempts>>].tx = inc'[j].tx
    BY <1>4, <2>1, Zenon DEF StepOK, CostCommitted, Signed, Reservation, Attempt
  <2>3. QED
    BY <1>1, <2>1, <2>2, Zenon DEF ReservationsKept
<1>5. QED
  BY <1>2, <1>3, <1>4

LEMMA BlockKept ==
  ASSUME BlockOK, FlagOK, NEW i, RecordsMove(i), session' \in {session, "none"}
  PROVE  BlockOK'
BY DEF RecordsMove, BlockOK, OneUnsentSignature, FlagOK

LEMMA SentIsSigned ==
  ASSUME NoncesOK
  PROVE  \A t \in sent : t # NoTx
BY DEF NoTx, NoncesOK

LEMMA OperationStep ==
  ASSUME RescueInv, NEW i \in Incidents, session # "none", i \notin todo,
         NEW step, RecordsMove(i), MovesTo(i, step), FloorsRise, ReservationsKept,
         UNCHANGED <<todo, sent, mined>>, FlagOK, StepOK'
  PROVE  RescueInv'
<1>1. RecordsOK'
  BY DEF RecordsMove
<1>2. ControlOK'
  BY InvParts DEF ControlOK, RecordsMove, MovesTo, Terminal, ReceiptTerminal, NeedsReceipt
<1>3. FloorOK'
  BY InvParts DEF RecordsMove, Quiet, Signed, FloorOK, FloorsRise, RecordsOK, RecordOK
<1>4. NoncesOK'
  BY NoncesKept, InvParts DEF RecordsMove, FloorsRise
<1>5. CoverOK'
  BY CoverKept, InvParts
<1>6. ClaimsOK'
  BY ClaimsKept, SentIsSigned, InvParts DEF RecordsMove
<1>7. BlockOK'
  BY BlockKept, InvParts DEF MovesTo
<1>8. SettledByReceipt'
  BY <1>1, SettledKept, InvParts
<1>9. QED
  BY <1>1, <1>2, <1>3, <1>4, <1>5, <1>6, <1>7, <1>8 DEF RescueInv

LEMMA SameReservations == UNCHANGED resv => ReservationsKept
BY DEF ReservationsKept

LEMMA PlainStep ==
  ASSUME op'.step \notin GuardedSteps
  PROVE  StepOK'
BY Zenon DEF StepOK, GuardedSteps, SignedSteps, FreshSteps, NewNonceSteps, UnsignedSteps

\* Steps at which nothing is relied on.
LEMMA IdleIsPlain ==
  {"idle", "release", "releaseStopped", "retry", "accepted", "unsure", "wait",
   "waitUnsure", "receipt"} \cap GuardedSteps = {}
BY DEF GuardedSteps, SignedSteps, FreshSteps, NewNonceSteps

LEMMA FloorsStand ==
  ASSUME RescueInv, session # "none", op.step # "floor", floor' = floor,
         memFloor' \in Nat, memFloor <= memFloor'
  PROVE  FloorsRise
BY InvParts DEF FloorOK, FloorsRise

\* A step that signs, exposes and sends nothing.
LEMMA QuietStep ==
  ASSUME RescueInv, NEW i \in Incidents, session # "none", i \notin todo,
         op.step # "floor", NEW step, RecordsMove(i), MovesTo(i, step),
         op'.step \notin GuardedSteps,
         UNCHANGED <<floor, todo, sent, mined>>, memFloor' \in Nat, memFloor <= memFloor',
         ReservationsKept, FlagOK
  PROVE  RescueInv'
BY PlainStep, FloorsStand, OperationStep

LEMMA NonceRead ==
  ASSUME FloorOK, NEW pending \in PendingAnswers \cup {memFloor},
         memFloor' = SponsorNonce(pending)
  PROVE  memFloor' \in Nat /\ memFloor <= memFloor'
BY CoordinatorConstants, RescueStateConstants DEF FloorOK, SponsorNonce, Max

LEMMA AtStep ==
  ASSUME RescueInv, NEW i \in Incidents, op.incident = i, op.step # "idle"
  PROVE  session # "none" /\ i \notin todo
BY InvParts DEF ControlOK

LEMMA SameFloor ==
  ASSUME RescueInv, UNCHANGED memFloor
  PROVE  memFloor' \in Nat /\ memFloor <= memFloor'
BY InvParts DEF FloorOK

LEMMA HandleKeeps ==
  ASSUME RescueInv, NEW i \in Incidents, Handle(i)
  PROVE  RescueInv'
<1> DEFINE r == [Absent EXCEPT !.status = "pending", !.updated = now]
<1>1. /\ DOMAIN r = Fields /\ r.nonce = 0 /\ r.attempts = 0 /\ r.tx = NoTx
      /\ r.status = "pending"
  BY Zenon DEF Absent, Fields
<1>2. inc' = inc \/ (inc[i].status = "absent" /\ inc' = [inc EXCEPT ![i] = r])
  BY Zenon DEF Handle, PutIncident
<1> HIDE DEF r
<1>3. RecordOK(i, r)
  BY <1>1 DEF RecordOK, NeedsReceipt
<1>4. RecordsMove(i)
  BY <1>1, <1>2, <1>3, NoMove, InvParts, RecordMoves DEF RecordsOK, RecordOK, Working, Quiet,
     Kept
<1>5. /\ session = "live" /\ op.step = "idle" /\ op'.step = "resume"
      /\ i \notin todo /\ UNCHANGED <<floor, resv, memFloor, nonceBlocked, session, todo, sent, mined>>
  BY IdleShape, InvParts DEF Handle, ControlOK, outside
<1>6. MovesTo(i, "resume")
  BY DEF Handle, MovesTo, OpFields
<1>7. StepOK'
  BY <1>5 DEF StepOK, SignedSteps, FreshSteps, NewNonceSteps, UnsignedSteps
<1>8. FloorsRise
  BY <1>5, FloorsStand, SameFloor
<1>9. QED
  BY <1>4, <1>5, <1>6, <1>7, <1>8, OperationStep, SameReservations, SameFlag

\* The same within an operation that is under way.
LEMMA CalmStep ==
  ASSUME RescueInv, NEW i \in Incidents, op.incident = i,
         op.step \notin {"idle", "floor"}, UNCHANGED <<floor, todo, sent, mined>>,
         memFloor' \in Nat, memFloor <= memFloor', ReservationsKept, FlagOK,
         NEW step, step \notin GuardedSteps,
         RecordsMove(i), MovesTo(i, step)
  PROVE  RescueInv'
BY IdleIsPlain, AtStep, QuietStep DEF MovesTo

LEMMA ResumeKeeps ==
  ASSUME RescueInv, NEW i \in Incidents, Resume(i)
  PROVE  RescueInv'
<1>1. /\ op.incident = i /\ op.step = "resume"
      /\ UNCHANGED <<floor, resv, memFloor, todo, sent, mined>>
  BY DEF Resume, Running, outside
<1>2. session # "none" /\ i \notin todo /\ session = "live"
  BY <1>1, AtStep, InvParts DEF StepOK
<1>3. FloorsRise /\ ReservationsKept
  BY <1>1, <1>2, SameReservations, SameFloor, FloorsStand
<1>4. DOMAIN op = OpFields /\ RecordsOK /\ RecordOK(i, inc[i])
  BY InvParts DEF ControlOK, RecordsOK
<1>5. ASSUME NEW step, RecordsMove(i), MovesTo(i, step), FlagOK, StepOK'
      PROVE  RescueInv'
  BY <1>1, <1>2, <1>3, <1>5, OperationStep
<1>6. ASSUME RecordsMove(i), Done, FlagOK
      PROVE  RescueInv'
  BY <1>5, <1>6, DoneMoves, PlainStep, IdleIsPlain
<1>7. ASSUME NEW status \in Terminal, NEW code, SetTerminal(i, status, code), inc[i].tx = NoTx
      PROVE  RescueInv'
  BY <1>4, <1>5, <1>7, SetTerminalMoves, PlainStep, IdleIsPlain
<1>8. CASE ResumeTerminal(i)
  BY <1>4, <1>6, <1>8, PruneMoves, SameFlag DEF ResumeTerminal, RecordsOK, RecordsMove, Quiet,
     Kept, Settled
<1>9. ASSUME NEW step, Goto(step), UNCHANGED <<inc, nonceBlocked>>
      PROVE  /\ RecordsMove(i) /\ MovesTo(i, step) /\ FlagOK
             /\ op'.step = step /\ op'.incident = i /\ session' = "live"
  BY <1>1, <1>2, <1>4, <1>9, NoMove, GotoMoves, SameFlag DEF Goto, OpFields, MovesTo
<1>10. ASSUME Done, UNCHANGED <<inc, nonceBlocked>>
       PROVE  RescueInv'
  BY <1>4, <1>6, <1>10, NoMove, SameFlag
<1>11. CASE ResumeReconcile(i)
  BY <1>5, <1>9, <1>10, <1>11 DEF ResumeReconcile, StepOK, SignedSteps, FreshSteps,
     NewNonceSteps, UnsignedSteps
<1>12. CASE ResumePrepared(i)
  <2>1. inc[i].tx = NoTx
    BY <1>4, <1>12 DEF ResumePrepared, RecordOK, Unsigned
  <2>2. CASE Goto("sign") /\ ~nonceBlocked /\ UNCHANGED <<inc, nonceBlocked>>
    BY <1>5, <1>9, <2>1, <2>2 DEF StepOK, SignedSteps, FreshSteps, NewNonceSteps, UnsignedSteps
  <2>3. QED
    BY <1>7, <1>10, <1>12, <2>1, <2>2, Zenon DEF ResumePrepared, Terminal, ReceiptTerminal
<1>13. CASE ResumeUnprepared(i)
  BY <1>4, <1>5, <1>7, <1>9, <1>10, <1>13 DEF ResumeUnprepared, RecordOK, Unsigned, StepOK,
     SignedSteps, FreshSteps, NewNonceSteps, UnsignedSteps, Terminal
<1>14. QED
  BY <1>8, <1>11, <1>12, <1>13 DEF Resume

\* A step that stores a record without a new signature.
LEMMA PersistKeeps ==
  ASSUME RescueInv, NEW i \in Incidents, op.incident = i,
         op.step \notin {"idle", "floor"}, UNCHANGED <<floor, todo, sent, mined>>,
         memFloor' \in Nat, memFloor <= memFloor', ReservationsKept, FlagOK,
         NEW r, DOMAIN r = Fields, r.nonce \in Nat, r.attempts \in Nat,
         r.status \in Working,
         NEW step, step \notin GuardedSteps, Persist(i, r, step)
  PROVE  RescueInv'
BY PersistMoves, InvParts, CalmStep

LEMMA SameAttemptTypes ==
  ASSUME RescueInv, NEW i \in Incidents, NEW r, SameAttempt(inc[i], r)
  PROVE  DOMAIN r = Fields /\ r.nonce \in Nat /\ r.attempts \in Nat
BY InvParts DEF RecordsOK, RecordOK, SameAttempt

LEMMA PrepareKeeps ==
  ASSUME RescueInv, NEW i \in Incidents, Prepare(i)
  PROVE  RescueInv'
<1>1. /\ op.incident = i /\ op.step = "prepare"
      /\ UNCHANGED <<floor, resv, nonceBlocked, todo, sent, mined>>
  BY DEF Prepare, Running, outside
<1>2. ReservationsKept /\ FlagOK
  BY <1>1, SameReservations, SameFlag
<1>3. session = "live" /\ ~nonceBlocked /\ i \notin todo
  BY <1>1, AtStep, InvParts DEF StepOK, FreshSteps
<1> DEFINE r == NextAttempt(inc[i])
<1>4. DOMAIN r = Fields /\ r.nonce \in Nat /\ r.attempts \in Nat
  BY NextAttemptShape, InvParts DEF RecordsOK, RecordOK
<1> HIDE DEF r
<1>5. ASSUME NEW t, DOMAIN t = Fields, t.nonce \in Nat, t.attempts \in Nat,
             t.status = "prepared", NEW step \in UnsignedSteps, Persist(i, t, step),
             memFloor' \in Nat, memFloor <= memFloor'
      PROVE  RescueInv'
  <2>1. RecordsMove(i) /\ MovesTo(i, step) /\ (op'.step # "idle" => inc'[i] = t)
    BY <1>1, <1>5, PersistMoves, InvParts DEF Working
  <2>2. CASE op'.step = "idle"
    BY <1>1, <1>2, <1>3, <1>5, <2>1, <2>2, QuietStep, IdleIsPlain
  <2>3. CASE op'.step # "idle"
    <3>1. op'.step = step /\ op'.incident = i /\ session' = "live" /\ inc'[i] = t
      BY <1>3, <2>1, <2>3 DEF MovesTo
    <3>2. inc'[i].tx = NoTx
      BY <1>5, <2>1, <3>1 DEF RecordsMove, RecordsOK, RecordOK, Unsigned
    <3>3. StepOK'
      BY <1>1, <1>3, <3>1, <3>2
      DEF StepOK, SignedSteps, FreshSteps, NewNonceSteps, UnsignedSteps
    <3>4. QED
      BY <1>1, <1>2, <1>3, <1>5, <2>1, <3>3, FloorsStand, OperationStep
  <2>4. QED
    BY <2>2, <2>3
<1>6. CASE PrepareFails(i)
  <2>1. memFloor' \in Nat /\ memFloor <= memFloor'
    BY <1>6, NonceRead, InvParts DEF PrepareFails
  <2>2. SameAttempt(r, Retryable(r)) /\ Retryable(r).status \in Working
    BY <1>4, RetryableShape DEF Working
  <2>3. Persist(i, Retryable(r), "idle")
    BY <1>6 DEF PrepareFails, r
  <2>4. /\ DOMAIN Retryable(r) = Fields
        /\ Retryable(r).nonce \in Nat /\ Retryable(r).attempts \in Nat
    BY <1>4, <2>2 DEF SameAttempt
  <2>5. QED
    BY <1>1, <1>2, <2>1, <2>2, <2>3, <2>4, PersistKeeps, IdleIsPlain
<1>7. CASE PrepareNothing(i)
  <2> DEFINE t == [r EXCEPT !.status = "prepared", !.nothing = TRUE]
  <2>1. SameAttempt(r, t) /\ t.status = "prepared"
    BY <1>4, Zenon DEF SameAttempt, Fields
  <2>2. Persist(i, t, "nothing") /\ UNCHANGED memFloor
    BY <1>7, Zenon DEF PrepareNothing, r
  <2> HIDE DEF t
  <2>3. QED
    BY <1>4, <1>5, <2>1, <2>2, SameFloor DEF SameAttempt, UnsignedSteps
<1>8. CASE Prepared(i)
  <2>1. PICK pending \in PendingAnswers :
          /\ memFloor' = SponsorNonce(pending)
          /\ Persist(i, [r EXCEPT !.status = "prepared",
                                  !.nonce = SponsorNonce(pending)], "sign")
    BY <1>8, Zenon DEF Prepared, r
  <2>2. memFloor' \in Nat /\ memFloor <= memFloor'
    BY <2>1, NonceRead, InvParts
  <2> DEFINE t == [r EXCEPT !.status = "prepared", !.nonce = SponsorNonce(pending)]
  <2>3. /\ DOMAIN t = Fields /\ t.nonce = SponsorNonce(pending)
        /\ t.attempts = r.attempts /\ t.status = "prepared"
    BY <1>4, Zenon DEF Fields
  <2>4. Persist(i, t, "sign")
    BY <2>1
  <2> HIDE DEF t
  <2>5. QED
    BY <1>4, <1>5, <2>1, <2>2, <2>3, <2>4 DEF UnsignedSteps
<1>9. QED
  BY <1>6, <1>7, <1>8 DEF Prepare

\* A step that ends the operation in setTerminal.
LEMMA TerminalKeeps ==
  ASSUME RescueInv, NEW i \in Incidents, op.incident = i,
         op.step \notin {"idle", "floor"}, NEW status \in Terminal,
         inc[i].tx # NoTx => Decides(i, status), NEW code, SetTerminal(i, status, code),
         UNCHANGED <<floor, resv, memFloor, todo, sent, mined>>
  PROVE  RescueInv'
BY SetTerminalMoves, InvParts, CalmStep, SameFloor, SameReservations, IdleIsPlain

LEMMA FailNothingKeeps ==
  ASSUME RescueInv, NEW i \in Incidents, FailNothing(i)
  PROVE  RescueInv'
BY InvParts, TerminalKeeps DEF FailNothing, Running, StepOK, UnsignedSteps, Terminal,
   ReceiptTerminal, outside

LEMMA ClaimExpiredKeeps ==
  ASSUME RescueInv, NEW i \in Incidents, ClaimExpired(i)
  PROVE  RescueInv'
BY InvParts, TerminalKeeps DEF ClaimExpired, Running, StepOK, UnsignedSteps, Terminal,
   ReceiptTerminal, outside

LEMMA SettleKeeps ==
  ASSUME RescueInv, NEW i \in Incidents, Settle(i)
  PROVE  RescueInv'
<1>1. /\ op.incident = i /\ op.step = "settle"
      /\ UNCHANGED <<floor, resv, memFloor, todo, sent, mined>>
  BY Zenon DEF Settle, Running, outside
<1>2. PICK m \in Receipts(inc[i].tx) :
        \E status \in IF m.success THEN {"succeeded", "lostrace"} ELSE {"failed"} :
          SetTerminal(i, status, IF status = "succeeded" THEN "" ELSE "other")
  BY Zenon DEF Settle
<1>3. PICK status \in IF m.success THEN {"succeeded", "lostrace"} ELSE {"failed"} :
        SetTerminal(i, status, IF status = "succeeded" THEN "" ELSE "other")
  BY <1>2, Zenon
<1>4. status \in Terminal /\ (m.success <=> status # "failed")
  BY DEF Terminal, ReceiptTerminal
<1>5. Decides(i, status)
  BY <1>1, <1>4, Zenon DEF Decides, Receipts
<1>6. QED
  BY <1>1, <1>3, <1>4, <1>5, TerminalKeeps, Zenon

LEMMA BeforeSignedFailureKeeps ==
  ASSUME RescueInv, NEW i \in Incidents, BeforeSignedFailure(i)
  PROVE  RescueInv'
BY NonceRead, InvParts, RetryableShape, SameAttemptTypes, SameReservations, SameFlag,
   PersistKeeps, IdleIsPlain DEF BeforeSignedFailure, RecordsOK, RecordOK, Working, Running,
   outside

\* The prepared nonce is the one the sponsor would use now.
LEMMA ConfirmedNonce ==
  ASSUME RescueInv, NEW i \in Incidents, session # "none", NonceConfirmed(i)
  PROVE  memFloor' \in Nat /\ memFloor <= memFloor' /\ floor <= inc[i].nonce
BY NonceRead, InvParts DEF NonceConfirmed, FloorOK

LEMMA RefusedKeeps ==
  ASSUME RescueInv, NEW i \in Incidents, Refused(i)
  PROVE  RescueInv'
BY AtStep, NoMove, DoneMoves, InvParts, ConfirmedNonce, SameReservations, SameFlag, CalmStep,
   IdleIsPlain DEF Refused, Running, durable, outside

LEMMA OneReservation ==
  ASSUME NEW a, NEW v, resv' = [resv EXCEPT ![a] = v],
         resv[a].state \in {"exposed", "committed"} =>
           v.state \in {"exposed", "committed"} /\ v.tx = resv[a].tx,
         resv[a].state = "committed" => v.state = "committed"
  PROVE  ReservationsKept
BY DEF ReservationsKept

LEMMA ReserveKeeps ==
  ASSUME RescueInv, NEW i \in Incidents, NEW q, Reserve(i, q)
  PROVE  RescueInv'
<1>1. /\ op.incident = i /\ op.step = "sign"
      /\ UNCHANGED <<inc, floor, nonceBlocked, todo, sent, mined>>
  BY DEF Reserve, Running, outside
<1>2. session = "live" /\ ~nonceBlocked /\ i \notin todo
  BY <1>1, AtStep, InvParts DEF StepOK, FreshSteps
<1>3. memFloor' \in Nat /\ memFloor <= memFloor' /\ floor <= inc[i].nonce
  BY <1>2, ConfirmedNonce DEF Reserve
<1>4. ReservationsKept
  BY OneReservation, Zenon DEF Reserve, AfterReserve
<1>5. RecordsMove(i) /\ MovesTo(i, "reserved") /\ op'.step = "reserved"
  BY <1>1, NoMove, GotoMoves, InvParts, Zenon DEF Reserve, ControlOK
<1>6. StepOK'
  BY <1>1, <1>2, <1>3, <1>5
  DEF MovesTo, StepOK, SignedSteps, FreshSteps, NewNonceSteps, UnsignedSteps
<1>7. QED
  BY <1>1, <1>2, <1>3, <1>4, <1>5, <1>6, FloorsStand, SameFlag, OperationStep

LEMMA SignInGateKeeps ==
  ASSUME RescueInv, NEW i \in Incidents, SignInGate(i)
  PROVE  RescueInv'
<1>1. /\ op.incident = i /\ op.step = "reserved"
      /\ UNCHANGED <<inc, floor, resv, memFloor, nonceBlocked, todo, sent, mined>>
  BY DEF SignInGate, Running, durable, outside
<1>2. session = "live" /\ ~nonceBlocked /\ i \notin todo /\ floor <= inc[i].nonce
  BY <1>1, AtStep, InvParts DEF StepOK, FreshSteps, NewNonceSteps
<1>3. RecordsMove(i) /\ MovesTo(i, "signing") /\ op'.step = "signing"
  BY <1>1, NoMove, GotoMoves, InvParts, Zenon DEF SignInGate, ControlOK
<1>4. StepOK'
  BY <1>1, <1>2, <1>3, Zenon
  DEF MovesTo, StepOK, SignedSteps, FreshSteps, NewNonceSteps, UnsignedSteps
<1>5. FloorsRise /\ ReservationsKept /\ FlagOK
  BY <1>1, <1>2, SameFloor, FloorsStand, SameReservations, SameFlag
<1>6. QED
  BY <1>1, <1>2, <1>3, <1>4, <1>5, OperationStep

LEMMA SignFailsKeeps ==
  ASSUME RescueInv, NEW i \in Incidents, SignFails(i)
  PROVE  RescueInv'
BY NoMove, GotoMoves, InvParts, SameFloor, SameReservations, SameFlag, CalmStep,
   IdleIsPlain DEF SignFails, durable, outside, ControlOK

LEMMA SignedNotStoredKeeps ==
  ASSUME RescueInv, NEW i \in Incidents, SignedNotStored(i)
  PROVE  RescueInv'
BY OneReservation, NoMove, DoneMoves, InvParts, SameFloor, SameFlag, CalmStep, IdleIsPlain,
   Zenon DEF SignedNotStored, AfterRelease, Running, outside

LEMMA ReleaseBeforeSignedKeeps ==
  ASSUME RescueInv, NEW i \in Incidents, ReleaseBeforeSigned(i)
  PROVE  RescueInv'
BY OneReservation, NoMove, DoneMoves, GotoMoves, InvParts, SameFloor, SameFlag, CalmStep,
   IdleIsPlain, Zenon DEF ReleaseBeforeSigned, AfterRelease, ControlOK, outside

LEMMA RetryAfterReleaseKeeps ==
  ASSUME RescueInv, NEW i \in Incidents, RetryAfterRelease(i)
  PROVE  RescueInv'
BY RetryableShape, InvParts, SameAttemptTypes, SameFloor, SameReservations, SameFlag,
   PersistKeeps, IdleIsPlain DEF RecordsOK, RecordOK, Working, RetryAfterRelease, Running,
   outside

\* The one step that signs: its nonce is at least the floor, and every nonce that
\* was signed or sent before lies below it.
LEMMA StoreSignedKeeps ==
  ASSUME RescueInv, NEW i \in Incidents, StoreSigned(i)
  PROVE  RescueInv'
<1> DEFINE r == SignedRecord(i)
<1>1. /\ op.incident = i /\ op.step = "signing" /\ nonceBlocked' = TRUE
      /\ UNCHANGED <<floor, resv, memFloor, todo, sent, mined>>
  BY DEF StoreSigned, Running, outside
<1>2. /\ session = "live" /\ ~nonceBlocked
      /\ i \notin todo /\ floor <= inc[i].nonce
  BY <1>1, AtStep, InvParts DEF StepOK, FreshSteps, NewNonceSteps
<1>3. RecordOK(i, inc[i]) /\ DOMAIN inc = Incidents
  BY InvParts DEF RecordsOK
<1>4. /\ SameAttempt(inc[i], r)
      /\ r.status = "signed"
      /\ r.tx.incident = i /\ r.tx.attempt = inc[i].attempts
  BY <1>3, Zenon DEF SignedRecord, SameAttempt, Fields, RecordOK
<1>5. /\ ValidIncident(r) /\ (r = inc[i] \/ ValidTransition(inc[i], r))
      /\ inc' = [inc EXCEPT ![i] = r] /\ Goto("floor")
  BY Zenon DEF StoreSigned, UpdateAccepted
<1> HIDE DEF r
<1>6. RecordOK(i, r) /\ r.tx # NoTx
  <2>1. r.status \in NeedsReceipt /\ r.status \notin Unsigned \cup {"absent", "pending"}
    BY <1>4 DEF Unsigned, NeedsReceipt
  <2>2. r.attempts <= MaxAttempts /\ r.attempts > 0 /\ r.tx # NoTx /\ r.tx.nonce = r.nonce
    BY <1>5, <2>1, ValidParts
  <2>3. /\ DOMAIN r = Fields /\ r.nonce \in Nat /\ r.attempts \in Nat
        /\ r.attempts = inc[i].attempts
    BY <1>3, <1>4 DEF RecordOK, SameAttempt
  <2>4. r.attempts \in AttemptNumbers
    BY <2>2, <2>3, RescueStateConstants DEF AttemptNumbers
  <2>5. QED
    BY <1>4, <2>1, <2>2, <2>3, <2>4 DEF RecordOK
<1>7. RecordsOK' /\ inc'[i] = r /\ \A j \in Incidents \ {i} : inc'[j] = inc[j]
  BY <1>3, <1>5, <1>6, InvParts DEF RecordsOK
<1>8. MovesTo(i, "floor") /\ op'.step = "floor"
  BY <1>1, <1>5, GotoMoves, InvParts DEF ControlOK
<1>9. ControlOK' /\ StepOK'
  BY <1>1, <1>2, <1>4, <1>7, <1>8, InvParts DEF MovesTo, NeedsReceipt, ControlOK, StepOK,
     SignedSteps, FreshSteps, NewNonceSteps, UnsignedSteps
<1>10. \A j \in Incidents : Signed(j) => inc[j].nonce \in Nat /\ inc[j].nonce < floor
  BY <1>1, <1>2, InvParts DEF FloorOK, RecordsOK, RecordOK
<1>11. FloorOK'
  BY <1>1, <1>2, <1>7, <1>8, <1>10, InvParts DEF FloorOK, MovesTo, Signed
<1>12. inc'[i].nonce \in Nat /\ floor <= inc'[i].nonce /\ floor \in Nat
  BY <1>2, <1>3, <1>4, <1>7, InvParts DEF RecordOK, SameAttempt, FloorOK
<1>13. NoncesOK'
  <2>1. /\ NonceUnique
        /\ \A t \in sent : t.nonce \in Nat /\ t.nonce < floor
        /\ \A t \in sent, j \in Incidents : Signed(j) /\ inc[j].nonce = t.nonce => t = inc[j].tx
        /\ \A j, k \in Incidents : Signed(j) /\ Signed(k) /\ inc[j].nonce = inc[k].nonce => j = k
    BY InvParts DEF NoncesOK
  <2>2. \A j \in Incidents \ {i} : (Signed(j)' <=> Signed(j)) /\ inc'[j] = inc[j]
    BY <1>7 DEF Signed
  <2>3. \A j, k \in Incidents :
          Signed(j)' /\ Signed(k)' /\ inc'[j].nonce = inc'[k].nonce => j = k
    <3> SUFFICES ASSUME NEW j \in Incidents, NEW k \in Incidents, j # k,
                        Signed(j)', Signed(k)', inc'[j].nonce = inc'[k].nonce
                 PROVE  FALSE
      OBVIOUS
    <3>1. CASE j = i
      BY <1>10, <1>12, <2>2, <3>1
    <3>2. CASE k = i
      BY <1>10, <1>12, <2>2, <3>2
    <3>3. CASE j # i /\ k # i
      BY <2>1, <2>2, <3>3, Zenon
    <3>4. QED
      BY <3>1, <3>2, <3>3
  <2>4. \A t \in sent, j \in Incidents :
          Signed(j)' /\ inc'[j].nonce = t.nonce => t = inc'[j].tx
    BY <1>12, <2>1, <2>2
  <2>5. NonceUnique'
    BY <1>1, <2>1 DEF NonceUnique
  <2>6. QED
    BY <1>1, <2>1, <2>3, <2>4, <2>5 DEF NoncesOK
<1>14. CoverOK'
  BY <1>1, InvParts DEF CoverOK, SentCovered
<1>15. inc[i].tx = NoTx \/ r = inc[i]
  BY <1>3, <1>4, <1>5, Zenon
  DEF ValidTransition, Successor, RecordOK, Unsigned, ReceiptTerminal
<1>16. ClaimsOK'
  BY <1>1, <1>7, <1>15, ClaimsKept, SentIsSigned, RescueStateConstants, InvParts DEF Kept
<1>17. BlockOK'
  BY <1>1, <1>2, <1>7, InvParts DEF BlockOK, OneUnsentSignature
<1>18. SettledByReceipt'
  BY <1>1, <1>4, <1>7, InvParts DEF Terminal, ReceiptTerminal, SettledByReceipt, Reservation,
     Attempt
<1>19. QED
  BY <1>7, <1>9, <1>11, <1>13, <1>14, <1>16, <1>17, <1>18 DEF RescueInv

LEMMA FloorRaised ==
  ASSUME RescueInv, NEW i \in Incidents, op.incident = i, session # "none",
         floor' = RaiseFloor(floor, inc[i].nonce + 1),
         memFloor' = RaiseFloor(memFloor, inc[i].nonce + 1)
  PROVE  FloorsRise
BY InvParts DEF RecordsOK, RecordOK, FloorOK, RaiseFloor, FloorsRise

LEMMA RaiseNonceFloorKeeps ==
  ASSUME RescueInv, NEW i \in Incidents, RaiseNonceFloor(i)
  PROVE  RescueInv'
<1>1. /\ op.incident = i /\ op.step = "floor"
      /\ UNCHANGED <<inc, resv, nonceBlocked, todo, sent, mined>>
  BY DEF RaiseNonceFloor, Running, outside
<1>2. session # "none" /\ i \notin todo
  BY <1>1, AtStep
<1>3. RecordsMove(i) /\ MovesTo(i, "broadcast") /\ op'.step = "broadcast"
  BY <1>1, NoMove, GotoMoves, InvParts DEF RaiseNonceFloor, ControlOK
<1>4. FloorsRise
  BY <1>1, <1>2, FloorRaised DEF RaiseNonceFloor
<1>5. StepOK'
  BY <1>1, <1>3, InvParts
  DEF MovesTo, StepOK, SignedSteps, FreshSteps, NewNonceSteps, UnsignedSteps
<1>6. QED
  BY <1>1, <1>2, <1>3, <1>4, <1>5, SameReservations, SameFlag, OperationStep

\* Steps that make a record ambiguous, and return.
LEMMA AmbiguousKeeps ==
  ASSUME RescueInv, NEW i \in Incidents, op.incident = i,
         op.step \notin {"idle", "floor"}, NEW code, NEW step,
         step \notin GuardedSteps,
         Persist(i, Ambiguous(inc[i], code), step), FlagOK,
         UNCHANGED <<floor, resv, memFloor, todo, sent, mined>>
  PROVE  RescueInv'
<1>1. /\ SameAttempt(inc[i], Ambiguous(inc[i], code))
      /\ Ambiguous(inc[i], code).status \in Working
  <2>1. DOMAIN inc[i] = Fields
    BY InvParts DEF RecordsOK, RecordOK
  <2>2. QED
    BY <2>1, AmbiguousShape, Zenon DEF Working
<1>2. QED
  BY <1>1, SameAttemptTypes, SameFloor, SameReservations, PersistKeeps

LEMMA DoneKeeps ==
  ASSUME RescueInv, NEW i \in Incidents, op.incident = i,
         op.step \notin {"idle", "floor"}, Done,
         UNCHANGED <<inc, floor, resv, memFloor, nonceBlocked, todo, sent, mined>>
  PROVE  RescueInv'
BY NoMove, DoneMoves, InvParts, SameFloor, SameReservations, SameFlag, CalmStep, IdleIsPlain

LEMMA NotSentKeeps ==
  ASSUME RescueInv, NEW i \in Incidents, NotSent(i)
  PROVE  RescueInv'
BY AmbiguousKeeps, DoneKeeps, SameFlag, IdleIsPlain DEF NotSent, outside

LEMMA UnprovenKeeps ==
  ASSUME RescueInv, NEW i \in Incidents, Unproven(i)
  PROVE  RescueInv'
BY AmbiguousKeeps, SameFlag, IdleIsPlain DEF Unproven, outside

LEMMA GotoKeeps ==
  ASSUME RescueInv, NEW i \in Incidents, op.incident = i,
         op.step \notin {"idle", "floor"}, NEW step,
         step \notin GuardedSteps, Goto(step), ReservationsKept,
         UNCHANGED <<inc, floor, memFloor, nonceBlocked, todo, sent, mined>>
  PROVE  RescueInv'
BY NoMove, GotoMoves, InvParts, SameFloor, SameFlag, CalmStep DEF ControlOK

LEMMA WaitReceiptKeeps ==
  ASSUME RescueInv, NEW i \in Incidents, WaitReceipt(i)
  PROVE  RescueInv'
BY AmbiguousKeeps, DoneKeeps, GotoKeeps, SameReservations, SameFlag, IdleIsPlain
DEF WaitReceipt, outside

LEMMA BroadcastUnsureKeeps ==
  ASSUME RescueInv, NEW i \in Incidents, BroadcastUnsure(i)
  PROVE  RescueInv'
BY AmbiguousKeeps, RefreshedFlag, IdleIsPlain DEF BroadcastUnsure, Running, outside

LEMMA BroadcastAcceptedKeeps ==
  ASSUME RescueInv, NEW i \in Incidents, BroadcastAccepted(i)
  PROVE  RescueInv'
<1> DEFINE r == [inc[i] EXCEPT !.status = "broadcast", !.code = "", !.retryAt = 0,
                               !.updated = now]
<1>1. SameAttempt(inc[i], r) /\ r.status \in Working
  BY InvParts, Zenon DEF RecordsOK, RecordOK, SameAttempt, Fields, Working
<1>2. Persist(i, r, "wait") /\ FlagOK
  BY RefreshedFlag, Zenon DEF BroadcastAccepted
<1>3. op.incident = i /\ op.step = "accepted"
      /\ UNCHANGED <<floor, resv, memFloor, todo, sent, mined>>
  BY Zenon DEF BroadcastAccepted, Running, outside
<1> HIDE DEF r
<1>4. QED
  BY <1>1, <1>2, <1>3, SameAttemptTypes, SameFloor, SameReservations, PersistKeeps,
     IdleIsPlain, Zenon

LEMMA MarkExposedKeeps ==
  ASSUME RescueInv, NEW i \in Incidents, MarkExposed(i)
  PROVE  RescueInv'
<1>1. /\ op.incident = i /\ op.step \in {"broadcast", "send"} /\ ~stopped
      /\ UNCHANGED <<inc, floor, memFloor, nonceBlocked, todo, sent, mined, stopped>>
      /\ resv' = [resv EXCEPT ![Attempt(i)] = Exposed(inc[i].tx)]
      /\ MayExpose(resv[Attempt(i)], inc[i].tx)
  BY Zenon DEF MarkExposed, outside, Reservation
<1>2. session # "none" /\ i \notin todo
  BY <1>1, AtStep
<1>3. inc[i].status \in NeedsReceipt
  BY <1>1, InvParts DEF StepOK, SignedSteps
<1>4. Attempt(i) \in DOMAIN resv
  BY <1>3, InvParts DEF RecordsOK, RecordOK, CoverOK, Attempt
<1>5. Exposed(inc[i].tx).state = "exposed" /\ Exposed(inc[i].tx).tx = inc[i].tx
  BY DEF Exposed
<1>6. ReservationsKept
  BY <1>1, <1>5, OneReservation, Zenon DEF MayExpose
<1>7. RecordsMove(i) /\ MovesTo(i, "exposed") /\ op'.step = "exposed"
  BY <1>1, NoMove, GotoMoves, InvParts, Zenon DEF MarkExposed, ControlOK
<1>8. resv'[Attempt(i)] = Exposed(inc[i].tx) /\ Attempt(i)' = Attempt(i)
  BY <1>1, <1>4 DEF Attempt
<1>9. StepOK'
  BY <1>1, <1>3, <1>5, <1>7, <1>8, Zenon
  DEF MovesTo, StepOK, SignedSteps, FreshSteps, NewNonceSteps, UnsignedSteps, Reservation
<1>10. FloorsRise /\ FlagOK
  BY <1>1, <1>2, SameFloor, FloorsStand, SameFlag
<1>11. QED
  BY <1>1, <1>2, <1>6, <1>7, <1>9, <1>10, OperationStep, Zenon

\* The one step that sends: the transaction is the stored one of an incident whose
\* nonce lies below the floor, and its reservation is exposed for it.
LEMMA SendTransactionKeeps ==
  ASSUME RescueInv, NEW i \in Incidents, SendTransaction(i)
  PROVE  RescueInv'
<1> DEFINE tx == inc[i].tx
<1>1. /\ op.incident = i /\ op.step = "exposed"
      /\ UNCHANGED <<inc, floor, resv, memFloor, nonceBlocked, todo, mined>>
      /\ \A t \in sent' : t \in sent \/ t = tx
  BY DEF SendTransaction, Running, durable
<1>2. op'.step \in {"accepted", "unsure"} /\ MovesTo(i, op'.step) /\ session' = session
  BY <1>1, GotoMoves, InvParts, Zenon DEF SendTransaction, ControlOK, Goto
<1>3. session # "none" /\ i \notin todo
  BY <1>1, AtStep
<1>4. /\ inc[i].status \in NeedsReceipt /\ tx # NoTx
      /\ resv[Attempt(i)].state = "exposed" /\ resv[Attempt(i)].tx = tx
  BY <1>1, InvParts DEF StepOK, RecordsOK, RecordOK, SignedSteps, Reservation
<1>5. /\ tx.nonce = inc[i].nonce /\ inc[i].nonce \in Nat
      /\ tx.incident = i /\ tx.attempt = inc[i].attempts
      /\ inc[i].attempts \in AttemptNumbers
  BY <1>4, InvParts DEF RecordsOK, RecordOK
<1>6. inc[i].nonce < floor
  BY <1>1, <1>3, <1>4, InvParts DEF FloorOK, Signed
<1>7. RecordsMove(i) /\ RecordsOK' /\ StepOK'
  BY <1>1, <1>2, NoMove, PlainStep, InvParts, IdleIsPlain, Zenon DEF RecordsMove
<1>8. ControlOK' /\ FloorOK'
  BY <1>1, <1>2, <1>3, InvParts DEF ControlOK, FloorOK, MovesTo, Signed
<1>9. BlockOK' /\ SettledByReceipt'
  BY <1>1, <1>2, <1>7, BlockKept, SettledKept, SameFlag, SameReservations, InvParts, Zenon
<1> HIDE DEF tx
<1>10. NoncesOK'
  <2>1. /\ NonceUnique
        /\ \A t \in sent : t.nonce \in Nat /\ t.nonce < floor
        /\ \A t \in sent, j \in Incidents : Signed(j) /\ inc[j].nonce = t.nonce => t = inc[j].tx
        /\ \A j, k \in Incidents : Signed(j) /\ Signed(k) /\ inc[j].nonce = inc[k].nonce => j = k
    BY InvParts DEF NoncesOK
  <2>2. Signed(i) /\ inc[i].tx = tx /\ tx.nonce = inc[i].nonce
    BY <1>4, <1>5 DEF Signed, tx
  <2>3. \A t \in sent : t.nonce = tx.nonce => t = tx
    BY <2>1, <2>2
  <2>4. NonceUnique'
    BY <1>1, <2>1, <2>3, Zenon DEF NonceUnique
  <2>5. \A t \in sent' : t.nonce \in Nat /\ t.nonce < floor
    BY <1>1, <1>5, <1>6, <2>1
  <2>6. \A j \in Incidents : Signed(j) /\ inc[j].nonce = tx.nonce => tx = inc[j].tx
    BY <2>1, <2>2, Zenon
  <2>7. \A t \in sent', j \in Incidents : Signed(j) /\ inc[j].nonce = t.nonce => t = inc[j].tx
    BY <1>1, <2>1, <2>6, Zenon
  <2>8. \A j \in Incidents : (Signed(j)' <=> Signed(j)) /\ inc'[j] = inc[j]
    BY <1>1 DEF Signed
  <2>9. QED
    BY <1>1, <2>1, <2>4, <2>5, <2>7, <2>8, Zenon DEF NoncesOK
<1>11. CoverOK'
  BY <1>1, <1>4, <1>5, InvParts DEF CoverOK, Attempt, SentCovered
<1>12. ClaimsOK'
  BY <1>1, <1>5, InvParts DEF ClaimsOK, tx
<1>13. QED
  BY <1>7, <1>8, <1>9, <1>10, <1>11, <1>12 DEF RescueInv

LEMMA ReconcileOnceKeeps ==
  ASSUME RescueInv, NEW i \in Incidents, ReconcileOnce(i)
  PROVE  RescueInv'
<1>1. /\ op.incident = i /\ op.step = "reconcile"
      /\ UNCHANGED <<resv, todo, sent, mined>>
  BY DEF ReconcileOnce, Running, outside
<1>2. session # "none" /\ i \notin todo /\ inc[i].status \in NeedsReceipt
  BY <1>1, AtStep, InvParts DEF StepOK, SignedSteps
<1>3. ReservationsKept
  BY <1>1, SameReservations
<1>4. ASSUME NEW r, SameAttempt(inc[i], r), r.status \in Working, FlagOK,
             NEW step \in {"idle", "receipt"}, Persist(i, r, step), UNCHANGED <<floor, memFloor>>
      PROVE  RescueInv'
  BY <1>1, <1>3, <1>4, SameAttemptTypes, SameFloor, PersistKeeps, IdleIsPlain
<1>5. CASE ReconcileSeesReceipt(i)
  <2> DEFINE t == [inc[i] EXCEPT !.status = "ambiguous", !.code = "blocking",
                                 !.updated = now]
             r == IF inc[i].status = "signed" THEN t ELSE inc[i]
  <2>1. SameAttempt(inc[i], t) /\ t.status = "ambiguous"
    BY InvParts, Zenon DEF RecordsOK, RecordOK, SameAttempt, Fields
  <2>2. Persist(i, r, "receipt") /\ UNCHANGED <<floor, memFloor, nonceBlocked>>
    BY <1>5, Zenon DEF ReconcileSeesReceipt
  <2> HIDE DEF t
  <2>3. SameAttempt(inc[i], r)
    BY <2>1, InvParts DEF RecordsOK, RecordOK, SameAttempt
  <2>4. r.status \in Working
    BY <1>2, <2>1 DEF NeedsReceipt, Working
  <2> HIDE DEF r
  <2>5. QED
    BY <1>4, <2>2, <2>3, <2>4, SameFlag
<1>6. CASE ReconcileTooLate(i)
  BY <1>4, <1>6, RefreshedFlag, ExpiredShape, InvParts DEF ReconcileTooLate, RecordsOK,
     RecordOK, Working
<1>7. CASE ReconcileInTime(i)
  <2> DEFINE step == IF inc[i].status = "broadcast" THEN "wait" ELSE "send"
  <2>1. UNCHANGED <<inc, nonceBlocked>> /\ Goto(step) /\ FloorsRise
    BY <1>1, <1>2, <1>7, FloorRaised DEF ReconcileInTime
  <2>2. step \in {"wait", "send"}
    OBVIOUS
  <2> HIDE DEF step
  <2>3. RecordsMove(i) /\ MovesTo(i, step) /\ op'.step = step
    BY <1>1, <2>1, NoMove, GotoMoves, InvParts DEF ControlOK
  <2>4. StepOK'
    BY <1>2, <2>1, <2>2, <2>3
    DEF MovesTo, StepOK, SignedSteps, FreshSteps, NewNonceSteps, UnsignedSteps
  <2>5. QED
    BY <1>1, <1>2, <1>3, <2>1, <2>3, <2>4, SameFlag, OperationStep
<1>8. QED
  BY <1>5, <1>6, <1>7 DEF ReconcileOnce

LEMMA ReconcileExpiredKeeps ==
  ASSUME RescueInv, NEW i \in Incidents, ReconcileExpired(i)
  PROVE  RescueInv'
<1>1. /\ session = "live" /\ op = Idle /\ op.step = "idle"
      /\ UNCHANGED <<floor, resv, memFloor, todo, sent, mined>>
  BY IdleShape DEF ReconcileExpired, outside
<1>2. i \notin todo
  BY <1>1, InvParts DEF ControlOK
<1>3. /\ SameAttempt(inc[i], ExpiredAmbiguous(inc[i]))
      /\ ExpiredAmbiguous(inc[i]).status \in Working
  BY ExpiredShape, InvParts DEF RecordsOK, RecordOK, Working
<1>4. RecordsMove(i) /\ MovesTo(i, "receipt") /\ FlagOK
  <2>1. CASE Persist(i, ExpiredAmbiguous(inc[i]), "idle") /\ FlagOK
    <3>1. RecordsMove(i) /\ MovesTo(i, "idle")
      BY <1>3, <2>1, SameAttemptTypes, PersistMoves, InvParts
    <3>2. QED
      BY <2>1, <3>1 DEF MovesTo
  <2>2. CASE /\ op' = [step |-> "receipt", incident |-> i, from |-> "expired"]
             /\ UNCHANGED <<inc, nonceBlocked, session>>
    BY <2>2, NoMove, SameFlag, InvParts DEF MovesTo, OpFields
  <2>3. QED
    BY <2>1, <2>2, RefreshedFlag, SameFlag DEF ReconcileExpired
<1>5. op'.step \notin GuardedSteps
  BY <1>4, IdleIsPlain DEF MovesTo
<1>6. QED
  BY <1>1, <1>2, <1>4, <1>5, SameFloor, SameReservations, QuietStep

LEMMA CommitReceiptCostKeeps ==
  ASSUME RescueInv, NEW i \in Incidents, CommitReceiptCost(i)
  PROVE  RescueInv'
<1> DEFINE tx == inc[i].tx
<1>1. /\ op.incident = i /\ op.step = "receipt"
      /\ UNCHANGED <<inc, floor, memFloor, nonceBlocked, todo, sent, mined>>
  BY DEF CommitReceiptCost, Running, outside
<1>2. /\ Exposed(tx).state = "exposed" /\ Exposed(tx).tx = tx
      /\ Committed(tx).state = "committed" /\ Committed(tx).tx = tx
  BY DEF Exposed, Committed
<1>3. RecordsMove(i) /\ RecordsOK
  BY <1>1, NoMove, InvParts
<1> HIDE DEF tx
<1>4. CASE /\ resv[Attempt(i)].state \in {"none", "held"}
           /\ resv' = [resv EXCEPT ![Attempt(i)] = Exposed(tx)]
           /\ UNCHANGED <<op, session>>
  BY <1>1, <1>3, <1>4, OneReservation, InvParts, SameFloor, SameFlag, CalmStep, IdleIsPlain,
     Zenon DEF ControlOK, MovesTo
<1>5. CASE /\ resv[Attempt(i)].tx = tx
           /\ resv' = [resv EXCEPT ![Attempt(i)] = Committed(tx)]
           /\ Goto("settle")
  <2>1. ReservationsKept
    BY <1>2, <1>5, OneReservation, Zenon
  <2>2. MovesTo(i, "settle") /\ op'.step = "settle"
    BY <1>1, <1>5, GotoMoves, InvParts DEF ControlOK
  <2>3. CostCommitted(i)'
    BY <1>1, <1>2, <1>5, InvParts, Zenon DEF Attempt, Signed, tx, RecordsOK, RecordOK, CoverOK,
       CostCommitted, Reservation
  <2>4. StepOK'
    BY <2>2, <2>3
    DEF MovesTo, StepOK, SignedSteps, FreshSteps, NewNonceSteps, UnsignedSteps
  <2>5. session # "none" /\ i \notin todo /\ FloorsRise
    BY <1>1, AtStep, SameFloor, FloorsStand
  <2>6. QED
    BY <1>1, <1>3, <2>1, <2>2, <2>4, <2>5, SameFlag, OperationStep
<1>6. QED
  BY <1>4, <1>5, Zenon DEF CommitReceiptCost, Reservation, tx

-----------------------------------------------------------------------------
(* Sessions and the environment.                                           *)

LEMMA FloorStays ==
  ASSUME RescueInv, UNCHANGED floor
  PROVE  floor' \in Nat /\ floor <= floor'
BY InvParts DEF FloorOK

\* A step that leaves the records, the reservations and what was sent alone.
LEMMA ControlStep ==
  ASSUME RescueInv, UNCHANGED <<inc, resv, sent>>, mined \subseteq mined',
         floor' \in Nat, floor <= floor', ControlOK', StepOK', FloorOK',
         session' = "live" /\ (\E i \in Incidents : inc[i].status = "signed") => nonceBlocked'
  PROVE  RescueInv'
<1>1. RecordsOK' /\ CoverOK' /\ ClaimsOK'
  BY SameReservations, CoverKept, InvParts DEF RecordsOK, RecordOK, ClaimsOK
<1>2. NoncesOK'
  BY NoncesKept, InvParts DEF Quiet
<1>3. BlockOK' /\ SettledByReceipt'
  BY InvParts, Zenon DEF BlockOK, OneUnsentSignature, SettledByReceipt, Reservation, Attempt
<1>4. QED
  BY <1>1, <1>2, <1>3 DEF RescueInv

LEMMA RecoverOneKeeps ==
  ASSUME RescueInv, NEW i \in Incidents, RecoverOne(i)
  PROVE  RescueInv'
<1>1. /\ session = "recovering" /\ i \in todo /\ op.step = "idle"
      /\ op' = [step |-> "reconcile", incident |-> i, from |-> "recover"]
      /\ todo' = todo \ {i}
      /\ UNCHANGED <<inc, floor, resv, memFloor, session, sent, mined>>
  BY IdleShape DEF RecoverOne, durable, outside
<1>2. DOMAIN op' = OpFields /\ op'.step = "reconcile" /\ op'.incident = i
  BY <1>1 DEF OpFields
<1>3. inc[i].status \in NeedsReceipt
  BY <1>1, InvParts DEF ControlOK
<1>4. ControlOK'
  BY <1>1, <1>2, <1>3, InvParts DEF ControlOK
<1>5. StepOK'
  BY <1>1, <1>2, <1>3 DEF StepOK, SignedSteps, FreshSteps, NewNonceSteps, UnsignedSteps
<1>6. FloorOK'
  BY <1>1, InvParts DEF FloorOK, Signed
<1>7. QED
  BY <1>1, <1>4, <1>5, <1>6, FloorStays, ControlStep

\* The floor a session starts with is above every nonce on record.
LEMMA NewSessionKeeps ==
  ASSUME RescueInv, NewSession
  PROVE  RescueInv'
<1>1. /\ op.step = "idle" /\ session' = "recovering"
      /\ todo' = {i \in Incidents : inc[i].status \in NeedsReceipt}
      /\ UNCHANGED <<inc, resv, op, sent, mined, stopped>>
  BY IdleShape DEF NewSession, outside
<1>2. PICK f \in SignedFloors \cup {floor} :
        /\ \A g \in SignedFloors \cup {floor} : g <= f
        /\ floor' = RaiseFloor(floor, f)
        /\ memFloor' = RaiseFloor(memFloor, f)
  BY DEF NewSession
<1>3. SignedFloors \subseteq Nat /\ floor \in Nat /\ memFloor \in Nat
  BY InvParts DEF RecordsOK, RecordOK, FloorOK, SignedFloors
<1>4. /\ f \in Nat /\ floor' \in Nat /\ memFloor' \in Nat
      /\ floor' = f /\ floor <= floor' /\ floor' <= memFloor'
  BY <1>2, <1>3 DEF RaiseFloor
<1>5. \A i \in Incidents : Signed(i) => inc[i].nonce \in Nat /\ inc[i].nonce < f
  <2>1. TAKE i \in Incidents
  <2>2. HAVE Signed(i)
  <2>3. inc[i].nonce + 1 \in SignedFloors
    BY <2>2 DEF SignedFloors, Signed
  <2>4. inc[i].nonce + 1 <= f
    BY <1>2, <2>3
  <2>5. QED
    BY <1>4, <2>4, InvParts DEF RecordsOK, RecordOK
<1>6. FloorOK'
  BY <1>1, <1>4, <1>5 DEF FloorOK, Signed
<1>7. ControlOK'
  BY <1>1, InvParts DEF ControlOK
<1>8. StepOK'
  BY <1>1, PlainStep, IdleIsPlain
<1>9. QED
  BY <1>1, <1>4, <1>6, <1>7, <1>8, ControlStep

LEMMA RecoveredKeeps ==
  ASSUME RescueInv, Recovered
  PROVE  RescueInv'
<1>1. /\ op.step = "idle" /\ session = "recovering" /\ session' = "live"
      /\ todo = {} /\ UNCHANGED <<inc, floor, resv, memFloor, todo, op, sent, mined>>
  BY IdleShape DEF Recovered, durable, outside
<1>2. ControlOK'
  BY <1>1, InvParts DEF ControlOK
<1>3. StepOK'
  BY <1>1, PlainStep, IdleIsPlain
<1>4. FloorOK'
  BY <1>1, InvParts DEF FloorOK, Signed
<1>5. (\E i \in Incidents : inc[i].status = "signed") => nonceBlocked'
  BY Zenon DEF Recovered, RefreshNonceBlock
<1>6. QED
  BY <1>1, <1>2, <1>3, <1>4, <1>5, FloorStays, ControlStep

\* Nothing that is remembered has to survive a crash or a cancelled generation.
LEMMA InterruptKeeps ==
  ASSUME RescueInv, op' = Idle, session' = "none", todo' = {},
         memFloor' \in {0, memFloor}, UNCHANGED <<inc, floor, resv, sent, mined>>
  PROVE  RescueInv'
<1>1. op'.step = "idle" /\ DOMAIN op' = OpFields
  BY IdleShape
<1>2. ControlOK'
  BY <1>1 DEF ControlOK
<1>3. StepOK'
  BY <1>1, PlainStep, IdleIsPlain
<1>4. FloorOK'
  BY InvParts DEF FloorOK
<1>5. QED
  BY <1>2, <1>3, <1>4, FloorStays, ControlStep

\* Stop waits while a paid action is active, so the step that sends is never
\* overtaken.
LEMMA StopKeeps ==
  ASSUME RescueInv, Stop
  PROVE  RescueInv'
<1>1. /\ op.step # "exposed"
      /\ UNCHANGED <<inc, floor, resv, memFloor, nonceBlocked, session, todo, op, sent, mined>>
  BY DEF Stop, durable
<1>2. ControlOK' /\ FloorOK'
  BY <1>1, InvParts, Zenon DEF ControlOK, FloorOK, Signed
<1>3. StepOK'
  BY <1>1, InvParts, Zenon DEF StepOK, CostCommitted, Signed, Reservation, Attempt
<1>4. session' = "live" /\ (\E i \in Incidents : inc[i].status = "signed") => nonceBlocked'
  BY <1>1, InvParts, Zenon DEF BlockOK
<1>5. QED
  BY <1>1, <1>2, <1>3, <1>4, FloorStays, ControlStep

LEMMA OutsideKeeps ==
  ASSUME RescueInv, UNCHANGED <<durable, volatile, sent>>, mined \subseteq mined'
  PROVE  RescueInv'
<1>1. UNCHANGED <<inc, floor, resv, memFloor, nonceBlocked, session, todo, op, stopped, sent>>
  BY DEF durable, volatile
<1>2. ControlOK' /\ FloorOK'
  BY <1>1, InvParts, Zenon DEF ControlOK, FloorOK, Signed
<1>3. StepOK'
  BY <1>1, InvParts, Zenon DEF StepOK, CostCommitted, Signed, Reservation, Attempt
<1>4. session' = "live" /\ (\E i \in Incidents : inc[i].status = "signed") => nonceBlocked'
  BY <1>1, InvParts, Zenon DEF BlockOK
<1>5. QED
  BY <1>1, <1>2, <1>3, <1>4, FloorStays, ControlStep

LEMMA EnvironmentKeeps ==
  ASSUME RescueInv, Stop \/ Cancel \/ Crash \/ Tick \/ Mine \/ Rest \/ UNCHANGED vars
  PROVE  RescueInv'
<1>1. CASE Stop
  BY <1>1, StopKeeps
<1>2. CASE Cancel
  BY <1>2, InterruptKeeps DEF Cancel, durable
<1>3. CASE Crash
  BY <1>3, InterruptKeeps DEF Crash, durable
<1>4. CASE Tick \/ Mine \/ Rest \/ UNCHANGED vars
  BY <1>4, OutsideKeeps DEF Tick, Mine, Rest, vars, outside
<1>5. QED
  BY <1>1, <1>2, <1>3, <1>4

LEMMA WorkKeeps ==
  ASSUME RescueInv, NEW i \in Incidents, Work(i)
  PROVE  RescueInv'
BY RecoverOneKeeps, ResumeKeeps, PrepareKeeps, FailNothingKeeps, ClaimExpiredKeeps,
   BeforeSignedFailureKeeps, RefusedKeeps, ReserveKeeps, SignInGateKeeps,
   StoreSignedKeeps, SignFailsKeeps, SignedNotStoredKeeps, ReleaseBeforeSignedKeeps,
   RetryAfterReleaseKeeps, RaiseNonceFloorKeeps, NotSentKeeps, MarkExposedKeeps,
   SendTransactionKeeps, BroadcastAcceptedKeeps, BroadcastUnsureKeeps,
   WaitReceiptKeeps, ReconcileOnceKeeps, ReconcileExpiredKeeps, UnprovenKeeps,
   CommitReceiptCostKeeps, SettleKeeps
DEF Work

LEMMA InitHolds == Init => RescueInv
<1> SUFFICES ASSUME Init PROVE RescueInv
  OBVIOUS
<1>1. RecordsOK /\ \A i \in Incidents : ~Signed(i)
  BY AbsentOK, Zenon DEF Init, RecordsOK, Signed, Absent
<1>2. ControlOK /\ StepOK
  BY IdleShape, Zenon
  DEF Init, ControlOK, StepOK, SignedSteps, FreshSteps, NewNonceSteps, UnsignedSteps
<1>3. FloorOK /\ NoncesOK /\ CoverOK /\ ClaimsOK
  BY <1>1 DEF Init, FloorOK, NoncesOK, NonceUnique, CoverOK, SentCovered, ClaimsOK
<1>4. BlockOK /\ SettledByReceipt
  BY <1>1, Zenon DEF Init, Absent, Signed, BlockOK, OneUnsentSignature, SettledByReceipt
<1>5. QED
  BY <1>1, <1>2, <1>3, <1>4 DEF RescueInv

LEMMA RescueInvariant == Spec => []RescueInv
<1>1. RescueInv /\ [Next]_vars => RescueInv'
  BY NewSessionKeeps, RecoveredKeeps, HandleKeeps, WorkKeeps, EnvironmentKeeps DEF Next
<1>2. QED
  BY InitHolds, <1>1, PTL DEF Spec

-----------------------------------------------------------------------------
(* What follows.                                                           *)

\* No two different transactions of the sponsor are ever sent with one nonce
\* (storePreparedOperation, RaiseNonceFloor and recoverPersisted), for any number
\* of incidents and attempts, over any crashes, stops and pruned records.
THEOREM NoncesNeverReused == Spec => []NonceUnique
<1>1. RescueInv => NonceUnique
  BY DEF RescueInv, NoncesOK
<1>2. QED
  BY <1>1, RescueInvariant, PTL

\* Whatever sendPersisted sent is covered by an exposed or committed reservation
\* for that very transaction: no release, new reservation or later attempt takes
\* it away.
THEOREM SentIsCharged == Spec => []SentCovered
<1>1. RescueInv => SentCovered
  BY DEF RescueInv, CoverOK
<1>2. QED
  BY <1>1, RescueInvariant, PTL

\* A claim is executed by one transaction at most, over any retries, restarts and
\* prunings: its record keeps the signature (validRescueTransition) and is never
\* pruned (PruneRescueIncidents).
THEOREM ClaimsExecutedOnce == Spec => []OneTransactionPerClaim
<1>1. RescueInv => OneTransactionPerClaim
  BY DEF RescueInv, ClaimsOK, OneTransactionPerClaim
<1>2. QED
  BY <1>1, RescueInvariant, PTL

\* A record that ended with a transaction was decided by a finalized receipt of that
\* transaction, and the charge of that attempt was committed before (applyReceipt and
\* commitReceiptCost), whatever crashed or was cancelled in between.
THEOREM OutcomesHaveReceipts == Spec => []SettledByReceipt
<1>1. RescueInv => SettledByReceipt
  BY DEF RescueInv
<1>2. QED
  BY <1>1, RescueInvariant, PTL

\* One signature at most waits for its first broadcast: nonceBlocked, which is set
\* with every stored signature and rebuilt by refreshNonceBlock after a restart,
\* keeps resumeIncident from preparing and signing another.
THEOREM OneSignatureWaits == Spec => []OneUnsentSignature
<1>1. RescueInv => OneUnsentSignature
  BY DEF RescueInv, BlockOK
<1>2. QED
  BY <1>1, RescueInvariant, PTL

\* Once PaidActionGate.Stop has returned nothing is sent any more: a transaction
\* leaves only at a step that Stop waits for.
THEOREM StopHolds == Spec => NothingSentWhenStopped
<1>1. RescueInv /\ [Next]_vars => [stopped /\ stopped' => sent' = sent]_vars
  <2> SUFFICES ASSUME RescueInv, Next, stopped PROVE sent' = sent
    BY DEF vars, outside
  <2>1. ASSUME NEW i \in Incidents, SendTransaction(i) PROVE FALSE
    BY <2>1 DEF SendTransaction, Running, RescueInv, StepOK
  <2>2. ASSUME NEW i \in Incidents, Handle(i) \/ Work(i) PROVE sent' = sent
    BY <2>1, <2>2, Zenon
    DEF Handle, Work, RecoverOne, Resume, Prepare, FailNothing, ClaimExpired,
        BeforeSignedFailure, Refused, Reserve, SignInGate, StoreSigned, SignFails,
        SignedNotStored, ReleaseBeforeSigned, RetryAfterRelease, RaiseNonceFloor,
        NotSent, MarkExposed, BroadcastAccepted, BroadcastUnsure, WaitReceipt,
        ReconcileOnce, ReconcileExpired, Unproven, CommitReceiptCost, Settle, outside
  <2>3. QED
    BY <2>2, Zenon
    DEF Next, NewSession, Recovered, Stop, Cancel, Crash, Tick, Mine, Rest, vars, outside
<1>2. QED
  BY <1>1, RescueInvariant, PTL DEF Spec, NothingSentWhenStopped
=============================================================================
