-------------------------- MODULE RescueCoordinator --------------------------
(***************************************************************************)
(* The rescue coordinator of one network (internal/rescue), in the         *)
(* finalized mode (latestState = false): it prepares, signs, broadcasts    *)
(* and reconciles one transaction per asset incident, over the durable     *)
(* records of RescueState and the reservations of the budget ledger.       *)
(*                                                                         *)
(* operationMu serialises operations, so op is the one operation that      *)
(* runs.  A step ends where the code makes something durable or visible    *)
(* outside (a bbolt transaction, a ledger transaction, SendTransaction),   *)
(* because that is where a crash, a cancelled context, the clock or the    *)
(* chain can come between.  RPC answers, admission, budget limits, lease   *)
(* and fence checks are outcomes chosen by the environment.                *)
(***************************************************************************)
EXTENDS RescueState

CONSTANTS
  PendingAnswers,  \* sponsor nonces that PendingNonceAt may answer
  MaxTime,         \* bound on the clock
  MaxFaults,       \* bound on crashes and cancelled generations
  CountFaults      \* whether that bound applies, as liveness needs

ASSUME CoordinatorConstants ==
  /\ PendingAnswers \subseteq 0..MaxNonce /\ PendingAnswers # {}
  /\ MaxTime \in Nat /\ MaxFaults \in Nat /\ CountFaults \in BOOLEAN

VARIABLES
  inc,           \* durable: rescueStateBucket
  floor,         \* durable: nonceFloorKey
  resv,          \* durable: the ledger's reservation of every attempt
  memFloor,      \* Coordinator.nonceFloor
  nonceBlocked,  \* Coordinator.nonceBlocked
  session,       \* whether NewSession has not run, is running, has returned
  todo,          \* incidents the second loop of recoverPersisted has to visit
  op,            \* the operation that holds operationMu
  stopped,       \* PaidActionGate.stopped
  now,           \* the wall clock
  faults,        \* crashes and cancellations so far, if they are counted
  sent,          \* transactions that reached the network
  mined          \* finalized receipts: [tx, success]

durable == <<inc, floor, resv>>
volatile == <<memFloor, nonceBlocked, session, todo, op, stopped>>
outside == <<now, faults, sent, mined>>
vars == <<durable, volatile, outside>>

-----------------------------------------------------------------------------
(* Reservations, as BudgetLedger lets an attempt use them.                 *)

Unreserved == [state |-> "none", quote |-> 0, tx |-> NoTx]

Attempt(i) == <<i, inc[i].attempts>>

Reservation(i) == resv[Attempt(i)]

Held(q) == [state |-> "held", quote |-> q, tx |-> NoTx]

Exposed(tx) == [state |-> "exposed", quote |-> tx.quote, tx |-> tx]

Committed(tx) == [state |-> "committed", quote |-> tx.quote, tx |-> tx]

\* The reservations for which Reserve succeeds with quote q (if the limits
\* allow): any other quote of a known attempt is ErrStateConflict.
ReserveAccepts(v, q) == v.state = "none" \/ v.quote = q

\* Mutant of AfterReserve: the reservation is written anew.
ReserveAnew(v, q) == Held(q)

AfterReserve(v, q) == IF v.state \in {"none", "released"} THEN Held(q) ELSE v

AfterRelease(v) ==
  IF v.state = "held" THEN [state |-> "released", quote |-> v.quote, tx |-> NoTx] ELSE v

\* CheckSponsorCapacity and MarkExposed both accept: the reservation is open
\* and belongs to no other transaction.
MayExpose(v, tx) ==
  \/ v.state \in {"none", "held"}
  \/ v.state = "exposed" /\ v.tx = tx

-----------------------------------------------------------------------------
(* Control.                                                                *)

Idle == [step |-> "idle", incident |-> 0, from |-> "none"]

Running(i, step) == op.step = step /\ op.incident = i

Goto(step) == op' = [op EXCEPT !.step = step] /\ UNCHANGED session

\* The operation returns; its error, if any, ends no generation.
Done == op' = Idle /\ UNCHANGED session

\* The operation returns a state error: recovery and reconciliation end the
\* generation with it, the candidate loop only postpones the candidate.
Fatal ==
  /\ op' = Idle
  /\ session' = IF op.from = "handle" THEN session ELSE "none"

Max(a, b) == IF a > b THEN a ELSE b
Min(a, b) == IF a < b THEN a ELSE b

\* refreshNonceBlock over the bucket b.
RefreshNonceBlock(b) ==
  \E i \in Incidents :
    \/ b[i].status = "signed"
    \/ /\ b[i].status = "ambiguous"
       /\ now >= b[i].until \/ b[i].code = "blocking"

\* updateIncidentAt with the record r, then the step that follows a success.
Persist(i, r, step) ==
  \/ /\ UpdateAccepted(inc[i], r)
     /\ inc' = [inc EXCEPT ![i] = r]
     /\ IF step = "idle" THEN Done ELSE Goto(step)
  \/ /\ ~UpdateAccepted(inc[i], r)
     /\ inc' = inc
     /\ Fatal

\* The same, followed by refreshNonceBlock.
PersistAndRefresh(i, r, step) ==
  /\ Persist(i, r, step)
  /\ nonceBlocked' = IF UpdateAccepted(inc[i], r)
                     THEN RefreshNonceBlock(inc') ELSE nonceBlocked

\* persistExpiredAmbiguous: one tick before the deadline stands for one
\* nanosecond, so that the record stays valid.
ExpiredAmbiguous(r) ==
  IF r.status = "ambiguous" /\ r.code = "timeout" /\ r.retryAt = 0
  THEN r
  ELSE [r EXCEPT !.status = "ambiguous", !.code = "timeout", !.retryAt = 0,
                 !.updated = Max(r.until - 1, r.updated)]

\* persistAmbiguousCode: a nonce-blocking code is never replaced by another.
Ambiguous(r, code) ==
  IF now >= r.until
  THEN ExpiredAmbiguous(r)
  ELSE [r EXCEPT !.status = "ambiguous",
                 !.code = IF r.code = "blocking" THEN r.code ELSE code,
                 !.retryAt = Min(now + RetryDelay, r.until),
                 !.updated = now]

\* beforeSignedFailure and preparationFailure.
Retryable(r) ==
  [r EXCEPT !.status = "retryable", !.tx = NoTx, !.until = 0, !.code = "other",
            !.updated = now, !.retryAt = now + RetryDelay]

\* setTerminal, with refreshNonceBlock and pruneTerminal.
SetTerminal(i, status, code) ==
  LET r == [inc[i] EXCEPT !.status = status, !.retryAt = 0, !.until = 0,
                          !.code = code, !.updated = now]
      b == [inc EXCEPT ![i] = r]
  IN  \/ /\ UpdateAccepted(inc[i], r)
         /\ inc' = PruneIncidents(b)
         /\ nonceBlocked' = RefreshNonceBlock(b)
         /\ Done
      \/ /\ ~UpdateAccepted(inc[i], r)
         /\ UNCHANGED <<inc, nonceBlocked>>
         /\ Fatal

Receipts(tx) == {m \in mined : m.tx = tx}

-----------------------------------------------------------------------------
Init ==
  /\ inc = [i \in Incidents |-> Absent]
  /\ floor = 0
  /\ resv = [a \in Incidents \X AttemptNumbers |-> Unreserved]
  /\ memFloor = 0 /\ nonceBlocked = FALSE
  /\ session = "none" /\ todo = {} /\ op = Idle /\ stopped = FALSE
  /\ now = 1 /\ faults = 0 /\ sent = {} /\ mined = {}

(* Sessions: NewSession and recoverPersisted.                              *)

\* incidentHasSignedTransaction.
SignedFloors ==
  {inc[i].nonce + 1 : i \in {j \in Incidents : inc[j].tx # NoTx}}

\* Mutant of NewSession: the floor is rebuilt from the records alone.
SessionFromRecords ==
  /\ session = "none" /\ op = Idle
  /\ \E f \in SignedFloors \cup {0} :
       /\ \A g \in SignedFloors : g <= f
       /\ memFloor' = RaiseFloor(memFloor, f)
  /\ todo' = {i \in Incidents : inc[i].status \in NeedsReceipt}
  /\ session' = "recovering"
  /\ UNCHANGED <<durable, nonceBlocked, op, stopped, outside>>

\* The first loop of recoverPersisted.  Its RaiseNonceFloor transactions only
\* grow the floor, and a crash between two of them repeats them all.
NewSession ==
  /\ session = "none" /\ op = Idle
  /\ \E f \in SignedFloors \cup {floor} :
       /\ \A g \in SignedFloors \cup {floor} : g <= f
       /\ floor' = RaiseFloor(floor, f)
       /\ memFloor' = RaiseFloor(memFloor, f)
  /\ todo' = {i \in Incidents : inc[i].status \in NeedsReceipt}
  /\ session' = "recovering"
  /\ UNCHANGED <<inc, resv, nonceBlocked, op, stopped, outside>>

RecoverOne(i) ==
  /\ session = "recovering" /\ op = Idle /\ i \in todo
  /\ op' = [step |-> "reconcile", incident |-> i, from |-> "recover"]
  /\ todo' = todo \ {i}
  /\ UNCHANGED <<durable, memFloor, nonceBlocked, session, stopped, outside>>

\* Mutant of Recovered: the flag is not rebuilt.
RecoveredUnblocked ==
  /\ session = "recovering" /\ op = Idle /\ todo = {}
  /\ nonceBlocked' = FALSE
  /\ session' = "live"
  /\ UNCHANGED <<durable, memFloor, todo, op, stopped, outside>>

Recovered ==
  /\ session = "recovering" /\ op = Idle /\ todo = {}
  /\ nonceBlocked' = RefreshNonceBlock(inc)
  /\ session' = "live"
  /\ UNCHANGED <<durable, memFloor, todo, op, stopped, outside>>

-----------------------------------------------------------------------------
(* Handling an incident: Handle, handleAsset and resumeIncident.           *)

Handle(i) ==
  /\ session = "live" /\ op = Idle /\ ~stopped
  /\ inc' = PutIncident(inc, i, now)
  /\ op' = [step |-> "resume", incident |-> i, from |-> "handle"]
  /\ UNCHANGED <<floor, resv, memFloor, nonceBlocked, session, todo, stopped,
                 outside>>

ResumeReconcile(i) ==
  /\ inc[i].status \in NeedsReceipt
  /\ IF inc[i].status = "ambiguous" /\ now < inc[i].retryAt
     THEN Done ELSE Goto("reconcile")
  /\ UNCHANGED <<inc, nonceBlocked>>

ResumePrepared(i) ==
  /\ inc[i].status = "prepared"
  /\ IF nonceBlocked \/ ~inc[i].nothing
     THEN /\ IF nonceBlocked THEN Done ELSE Goto("sign")
          /\ UNCHANGED <<inc, nonceBlocked>>
     ELSE SetTerminal(i, "failed", "other")

ResumeUnprepared(i) ==
  /\ inc[i].status \in {"pending", "retryable"}
  /\ IF nonceBlocked \/ now < inc[i].retryAt
     THEN Done /\ UNCHANGED <<inc, nonceBlocked>>
     ELSE IF inc[i].attempts >= MaxAttempts
          THEN SetTerminal(i, "exhausted", inc[i].code)
          ELSE Goto("prepare") /\ UNCHANGED <<inc, nonceBlocked>>

ResumeTerminal(i) ==
  /\ inc[i].status \in Terminal
  /\ inc' = PruneIncidents(inc)
  /\ Done
  /\ UNCHANGED nonceBlocked

Resume(i) ==
  /\ Running(i, "resume")
  /\ \/ ResumeTerminal(i)
     \/ ResumeReconcile(i)
     \/ ResumePrepared(i)
     \/ ResumeUnprepared(i)
  /\ UNCHANGED <<floor, resv, memFloor, todo, stopped, outside>>

-----------------------------------------------------------------------------
(* Preparing an attempt: prepareAndSubmit.                                 *)

\* sponsorNonce, after the answer pending.
SponsorNonce(pending) == Max(memFloor, pending)

NextAttempt(r) ==
  [r EXCEPT !.attempts = @ + 1, !.nonce = 0, !.nothing = FALSE, !.tx = NoTx,
            !.retryAt = 0, !.until = 0, !.code = "", !.updated = now]

\* A read fails, before or after the sponsor nonce was read.
PrepareFails(i) ==
  /\ \E pending \in PendingAnswers \cup {memFloor} :
       memFloor' = SponsorNonce(pending)
  /\ Persist(i, Retryable(NextAttempt(inc[i])), "idle")

PrepareNothing(i) ==
  /\ Persist(i, [NextAttempt(inc[i]) EXCEPT !.status = "prepared",
                                            !.nothing = TRUE], "nothing")
  /\ UNCHANGED memFloor

Prepared(i) ==
  \E pending \in PendingAnswers :
    LET n == SponsorNonce(pending)
    IN  /\ n <= MaxNonce
        /\ memFloor' = n
        /\ Persist(i, [NextAttempt(inc[i]) EXCEPT !.status = "prepared",
                                                  !.nonce = n], "sign")

Prepare(i) ==
  /\ Running(i, "prepare")
  /\ PrepareFails(i) \/ PrepareNothing(i) \/ Prepared(i)
  /\ UNCHANGED <<floor, resv, nonceBlocked, todo, stopped, outside>>

FailNothing(i) ==
  /\ Running(i, "nothing")
  /\ SetTerminal(i, "failed", "other")
  /\ UNCHANGED <<floor, resv, memFloor, todo, stopped, outside>>

-----------------------------------------------------------------------------
(* Signing: signSubmitAndConfirm.                                          *)

ClaimExpired(i) ==
  /\ Running(i, "sign") /\ i \in Claims
  /\ SetTerminal(i, "failed", "other")
  /\ UNCHANGED <<floor, resv, memFloor, todo, stopped, outside>>

\* A read fails, or the sponsor nonce is not the prepared one any more.
BeforeSignedFailure(i) ==
  /\ Running(i, "sign")
  /\ \E pending \in PendingAnswers \cup {memFloor} :
       memFloor' = SponsorNonce(pending)
  /\ Persist(i, Retryable(inc[i]), "idle")
  /\ UNCHANGED <<floor, resv, nonceBlocked, todo, stopped, outside>>

NonceConfirmed(i) ==
  \E pending \in PendingAnswers :
    /\ SponsorNonce(pending) = inc[i].nonce
    /\ memFloor' = inc[i].nonce

\* admissionBlocked and budgetBlocked: the attempt stays prepared.
Refused(i) ==
  /\ Running(i, "sign")
  /\ NonceConfirmed(i)
  /\ Done
  /\ UNCHANGED <<durable, nonceBlocked, todo, stopped, outside>>

Reserve(i, q) ==
  /\ Running(i, "sign")
  /\ NonceConfirmed(i)
  /\ ReserveAccepts(Reservation(i), q)
  /\ resv' = [resv EXCEPT ![Attempt(i)] = AfterReserve(@, q)]
  /\ Goto("reserved")
  /\ UNCHANGED <<inc, floor, nonceBlocked, todo, stopped, outside>>

SignedRecord(i) ==
  [inc[i] EXCEPT !.status = "signed", !.retryAt = 0, !.code = "",
                 !.tx = [incident |-> i, attempt |-> inc[i].attempts,
                         nonce |-> inc[i].nonce, quote |-> Reservation(i).quote],
                 !.until = now + FinalityTimeout, !.updated = now]

\* Both signatures are made inside the gate, over an open reservation.
SignInGate(i) ==
  /\ Running(i, "reserved")
  /\ ~stopped
  /\ Reservation(i).state \in {"held", "exposed"}
  /\ Goto("signing")
  /\ UNCHANGED <<durable, memFloor, nonceBlocked, todo, stopped, outside>>

\* The record is stored after the gate was left.  The bound keeps every
\* deadline within reach of the clock.
StoreSigned(i) ==
  /\ Running(i, "signing")
  /\ now + FinalityTimeout <= MaxTime
  /\ UpdateAccepted(inc[i], SignedRecord(i))
  /\ inc' = [inc EXCEPT ![i] = SignedRecord(i)]
  /\ Goto("floor")
  /\ nonceBlocked' = TRUE
  /\ UNCHANGED <<floor, resv, memFloor, todo, stopped, outside>>

\* Anything between the reservation and the stored signature goes wrong.
SignFails(i) ==
  /\ op.incident = i /\ op.step \in {"reserved", "signing"}
  /\ \/ Goto("release")
     \/ op.step = "reserved" /\ stopped /\ Goto("releaseStopped")
  /\ UNCHANGED <<durable, memFloor, nonceBlocked, todo, stopped, outside>>

\* The record cannot be written: the reservation goes, the attempt stays.
SignedNotStored(i) ==
  /\ Running(i, "signing")
  /\ resv' = [resv EXCEPT ![Attempt(i)] = AfterRelease(@)]
  /\ Done
  /\ UNCHANGED <<inc, floor, memFloor, nonceBlocked, todo, stopped, outside>>

\* releaseBeforeSigned: an emergency stop leaves the attempt prepared, unless
\* the ledger refuses the release.
ReleaseBeforeSigned(i) ==
  /\ op.incident = i /\ op.step \in {"release", "releaseStopped"}
  /\ resv' = [resv EXCEPT ![Attempt(i)] = AfterRelease(@)]
  /\ IF op.step = "releaseStopped" /\ resv'[Attempt(i)].state = "released"
     THEN Done ELSE Goto("retry")
  /\ UNCHANGED <<inc, floor, memFloor, nonceBlocked, todo, stopped, outside>>

RetryAfterRelease(i) ==
  /\ Running(i, "retry")
  /\ Persist(i, Retryable(inc[i]), "idle")
  /\ UNCHANGED <<floor, resv, memFloor, nonceBlocked, todo, stopped, outside>>

RaiseNonceFloor(i) ==
  /\ Running(i, "floor")
  /\ floor' = RaiseFloor(floor, inc[i].nonce + 1)
  /\ memFloor' = RaiseFloor(memFloor, inc[i].nonce + 1)
  /\ Goto("broadcast")
  /\ UNCHANGED <<inc, resv, nonceBlocked, todo, stopped, outside>>

-----------------------------------------------------------------------------
(* Broadcasting: sendPersisted and broadcastAndWait.                       *)

\* Nothing was sent: only an ambiguous record notes it.
NotSent(i) ==
  /\ op.incident = i /\ op.step \in {"broadcast", "send", "exposed"}
  /\ IF inc[i].status = "ambiguous"
     THEN \E code \in {"other", "blocking"} :
            Persist(i, Ambiguous(inc[i], code), "idle")
     ELSE Done /\ inc' = inc
  /\ UNCHANGED <<floor, resv, memFloor, nonceBlocked, todo, stopped, outside>>

\* ensureReservation, the checks inside the gate, MarkExposed.
MarkExposed(i) ==
  /\ op.incident = i /\ op.step \in {"broadcast", "send"}
  /\ ~stopped
  /\ MayExpose(Reservation(i), inc[i].tx)
  /\ resv' = [resv EXCEPT ![Attempt(i)] = Exposed(inc[i].tx)]
  /\ Goto("exposed")
  /\ UNCHANGED <<inc, floor, memFloor, nonceBlocked, todo, stopped, outside>>

\* Mutant of SendTransaction: what may be lost is sent again with the next nonce.
SendRebuilt(i) ==
  /\ Running(i, "exposed")
  /\ \E tx \in {IF inc[i].status = "signed" THEN inc[i].tx
                ELSE [inc[i].tx EXCEPT !.nonce = memFloor]} :
       sent' = sent \cup {tx} /\ Goto("accepted")
  /\ UNCHANGED <<durable, memFloor, nonceBlocked, todo, stopped, now, faults,
                 mined>>

\* An error does not mean that the transaction did not get through.
SendTransaction(i) ==
  /\ Running(i, "exposed")
  /\ \/ sent' = sent \cup {inc[i].tx} /\ Goto("accepted")
     \/ sent' \in {sent, sent \cup {inc[i].tx}} /\ Goto("unsure")
  /\ UNCHANGED <<durable, memFloor, nonceBlocked, todo, stopped, now, faults,
                 mined>>

BroadcastAccepted(i) ==
  /\ Running(i, "accepted")
  /\ PersistAndRefresh(i, [inc[i] EXCEPT !.status = "broadcast", !.code = "",
                                         !.retryAt = 0, !.updated = now], "wait")
  /\ UNCHANGED <<floor, resv, memFloor, todo, stopped, outside>>

BroadcastUnsure(i) ==
  /\ Running(i, "unsure")
  /\ PersistAndRefresh(i, Ambiguous(inc[i], "blocking"), "waitUnsure")
  /\ UNCHANGED <<floor, resv, memFloor, todo, stopped, outside>>

\* waitReceipt ends with a finalized receipt, or without one.
WaitReceipt(i) ==
  /\ op.incident = i /\ op.step \in {"wait", "waitUnsure"}
  /\ \/ Receipts(inc[i].tx) # {} /\ Goto("receipt") /\ inc' = inc
     \/ /\ op.step = "wait"
        /\ \E code \in {"timeout", "other"} :
             Persist(i, Ambiguous(inc[i], code), "idle")
     \/ op.step = "waitUnsure" /\ Done /\ inc' = inc
  /\ UNCHANGED <<floor, resv, memFloor, nonceBlocked, todo, stopped, outside>>

-----------------------------------------------------------------------------
(* Reconciling: reconcileOnce and reconcileExpired.                        *)

\* A finalized receipt is found; a signed record becomes ambiguous first, at
\* the current instant.
ReconcileSeesReceipt(i) ==
  /\ Receipts(inc[i].tx) # {}
  /\ Persist(i, IF inc[i].status = "signed"
                THEN [inc[i] EXCEPT !.status = "ambiguous", !.code = "blocking",
                                    !.updated = now]
                ELSE inc[i], "receipt")
  /\ UNCHANGED <<floor, memFloor, nonceBlocked>>

ReconcileTooLate(i) ==
  /\ now >= inc[i].until
  /\ PersistAndRefresh(i, ExpiredAmbiguous(inc[i]), "idle")
  /\ UNCHANGED <<floor, memFloor>>

ReconcileInTime(i) ==
  /\ now < inc[i].until
  /\ floor' = RaiseFloor(floor, inc[i].nonce + 1)
  /\ memFloor' = RaiseFloor(memFloor, inc[i].nonce + 1)
  /\ Goto(IF inc[i].status = "broadcast" THEN "wait" ELSE "send")
  /\ UNCHANGED <<inc, nonceBlocked>>

ReconcileOnce(i) ==
  /\ Running(i, "reconcile")
  /\ \/ ReconcileSeesReceipt(i)
     \/ ReconcileTooLate(i)
     \/ ReconcileInTime(i)
  /\ UNCHANGED <<resv, todo, stopped, outside>>

\* One incident of the periodic pass over the expired ambiguous operations.
ReconcileExpired(i) ==
  /\ session = "live" /\ op = Idle
  /\ inc[i].status = "ambiguous" /\ now >= inc[i].until
  /\ \/ /\ Receipts(inc[i].tx) # {}
        /\ op' = [step |-> "receipt", incident |-> i, from |-> "expired"]
        /\ UNCHANGED <<inc, nonceBlocked, session>>
     \/ PersistAndRefresh(i, ExpiredAmbiguous(inc[i]), "idle")
     \/ Persist(i, ExpiredAmbiguous(inc[i]), "idle") /\ UNCHANGED nonceBlocked
  /\ UNCHANGED <<floor, resv, memFloor, todo, stopped, outside>>

-----------------------------------------------------------------------------
(* The outcome: applyReceipt.                                              *)

\* The receipt, its block or the charge cannot be confirmed now.
Unproven(i) ==
  /\ op.incident = i /\ op.step \in {"receipt", "settle"}
  /\ Persist(i, Ambiguous(inc[i], "other"), "idle")
  /\ UNCHANGED <<floor, resv, memFloor, nonceBlocked, todo, stopped, outside>>

\* Mutant of CommitReceiptCost: the outcome is settled before the charge.
SettleFirst(i) ==
  /\ Running(i, "receipt")
  /\ Goto("settle")
  /\ UNCHANGED <<durable, memFloor, nonceBlocked, todo, stopped, outside>>

\* commitReceiptCost, a ledger transaction at a time.
CommitReceiptCost(i) ==
  /\ Running(i, "receipt")
  /\ \/ /\ Reservation(i).state \in {"none", "held"}
        /\ resv' = [resv EXCEPT ![Attempt(i)] = Exposed(inc[i].tx)]
        /\ UNCHANGED <<op, session>>
     \/ /\ Reservation(i).state \in {"exposed", "committed"}
        /\ Reservation(i).tx = inc[i].tx
        /\ resv' = [resv EXCEPT ![Attempt(i)] = Committed(inc[i].tx)]
        /\ Goto("settle")
  /\ UNCHANGED <<inc, floor, memFloor, nonceBlocked, todo, stopped, outside>>

\* The postconditions decide between success and a lost race.
Settle(i) ==
  /\ Running(i, "settle")
  /\ \E m \in Receipts(inc[i].tx) :
       \E status \in IF m.success THEN {"succeeded", "lostrace"} ELSE {"failed"} :
         SetTerminal(i, status, IF status = "succeeded" THEN "" ELSE "other")
  /\ UNCHANGED <<floor, resv, memFloor, todo, stopped, outside>>

-----------------------------------------------------------------------------
(* The environment.                                                        *)

Fault ==
  IF CountFaults THEN faults < MaxFaults /\ faults' = faults + 1 ELSE UNCHANGED faults

\* Mutant of Stop: it does not wait for the active paid action.
StopAtOnce ==
  /\ Fault /\ ~stopped
  /\ stopped' = TRUE
  /\ UNCHANGED <<durable, memFloor, nonceBlocked, session, todo, op, now, sent, mined>>

\* Stop returns once no paid action is active.
Stop ==
  /\ Fault /\ ~stopped /\ op.step # "exposed"
  /\ stopped' = TRUE
  /\ UNCHANGED <<durable, memFloor, nonceBlocked, session, todo, op, now, sent, mined>>

\* The generation's context is cancelled, or a write fails for another reason:
\* the operation ends where it is, and no store accepts its later writes.
Cancel ==
  /\ Fault /\ session # "none"
  /\ op' = Idle /\ session' = "none" /\ todo' = {}
  /\ nonceBlocked' \in {nonceBlocked, TRUE}
  /\ UNCHANGED <<durable, memFloor, stopped, now, sent, mined>>

\* The process that comes up again may be started with the emergency stop set.
Crash ==
  /\ Fault
  /\ op' = Idle /\ session' = "none" /\ todo' = {}
  /\ memFloor' = 0 /\ nonceBlocked' = FALSE /\ stopped' \in BOOLEAN
  /\ UNCHANGED <<durable, now, sent, mined>>

Tick ==
  /\ now < MaxTime
  /\ now' = now + 1
  /\ UNCHANGED <<durable, volatile, faults, sent, mined>>

\* A transaction is finalized; the chain takes one transaction per nonce.
Mine ==
  /\ \E tx \in sent, success \in BOOLEAN :
       /\ \A m \in mined : m.tx.nonce # tx.nonce
       /\ mined' = mined \cup {[tx |-> tx, success |-> success]}
  /\ UNCHANGED <<durable, volatile, now, faults, sent>>

\* A stopped daemon keeps running, and does nothing more by itself.
Rest == stopped /\ session = "live" /\ op = Idle /\ UNCHANGED vars

Work(i) ==
  \/ RecoverOne(i)
  \/ Resume(i) \/ Prepare(i) \/ FailNothing(i)
  \/ ClaimExpired(i) \/ BeforeSignedFailure(i) \/ Refused(i)
  \/ \E q \in Quotes : Reserve(i, q)
  \/ SignInGate(i) \/ StoreSigned(i) \/ SignFails(i) \/ SignedNotStored(i)
  \/ ReleaseBeforeSigned(i) \/ RetryAfterRelease(i) \/ RaiseNonceFloor(i)
  \/ NotSent(i) \/ MarkExposed(i) \/ SendTransaction(i)
  \/ BroadcastAccepted(i) \/ BroadcastUnsure(i) \/ WaitReceipt(i)
  \/ ReconcileOnce(i) \/ ReconcileExpired(i)
  \/ Unproven(i) \/ CommitReceiptCost(i) \/ Settle(i)

Next ==
  \/ NewSession \/ Recovered
  \/ \E i \in Incidents : Handle(i) \/ Work(i)
  \/ Stop \/ Cancel \/ Crash \/ Tick \/ Mine \/ Rest

Spec == Init /\ [][Next]_vars

-----------------------------------------------------------------------------
(* Fairness.  supervise starts a new session after every failure, a running *)
(* operation proceeds, the reconciliation ticker fires, and the candidate   *)
(* loop returns to an unfinished candidate for ever.  RPC answers may fail  *)
(* any number of times, but not for ever: the outcomes in which the receipt *)
(* is found and proved are strongly fair.                                   *)

ReceiptFound(i) ==
  /\ ReconcileOnce(i) \/ WaitReceipt(i) \/ ReconcileExpired(i)
  /\ Receipts(inc[i].tx) # {}
  /\ op'.step \in {"receipt", "idle"}
  /\ op'.step = "idle" => Running(i, "reconcile") /\ inc' = inc

Fairness ==
  /\ WF_vars(NewSession) /\ WF_vars(Recovered) /\ WF_vars(Tick)
  /\ \A i \in Incidents :
       /\ WF_vars(Work(i))
       /\ SF_vars(inc[i].status \in NeedsReceipt /\ Handle(i))
       /\ SF_vars(op.step = "reconcile" /\ ReceiptFound(i))
       /\ SF_vars(op.step \in {"wait", "waitUnsure"} /\ ReceiptFound(i))
       /\ SF_vars(op.step = "idle" /\ ReceiptFound(i))
       /\ SF_vars(CommitReceiptCost(i))
       /\ SF_vars(Settle(i))

FairSpec == Spec /\ Fairness

\* No two different transactions of the sponsor are ever sent with one nonce,
\* across retries, crashes, restarts and the pruning of old records: the nonce
\* floor of rescue_state.go together with the persisted records guards this.
NonceUnique == \A t, u \in sent : t.nonce = u.nonce => t = u

\* A transaction that may be executed is charged: whatever reached the network
\* holds an exposed or committed reservation bound to that very transaction
\* (sendPersisted marks before it sends, releases accept no exposed one).
SentCovered ==
  \A t \in sent :
    LET v == resv[<<t.incident, t.attempt>>]
    IN  v.state \in {"exposed", "committed"} /\ v.tx = t

\* A record that ends with a transaction was decided by a finalized receipt of
\* that transaction, and its cost was committed first (applyReceipt).
SettledByReceipt ==
  \A i \in Incidents :
    inc[i].status \in Terminal /\ inc[i].tx # NoTx =>
      /\ \E m \in mined : m.tx = inc[i].tx /\ (m.success <=> inc[i].status # "failed")
      /\ Reservation(i).state = "committed" /\ Reservation(i).tx = inc[i].tx

\* An incident is executed by at most one transaction for as long as its record
\* is not pruned; the records of claims never are (docs/operations/
\* atomic-claims.md: a finished claim is not executed again after a restart).
OneTransactionPerClaim ==
  \A t, u \in sent : t.incident = u.incident /\ t.incident \in Claims => t = u

\* At most one stored transaction waits for its first broadcast: nonceBlocked,
\* a flag in memory that a restart forgets and recoverPersisted rebuilds, keeps
\* other incidents from signing meanwhile.
OneUnsentSignature ==
  \A i, j \in Incidents :
    inc[i].status = "signed" /\ inc[j].status = "signed" => i = j

\* After an emergency stop has returned nothing is sent any more until the
\* process restarts, even if the signature was already stored.
NothingSentWhenStopped == [][stopped /\ stopped' => sent' = sent]_vars

\* A broadcast or ambiguous operation whose transaction was finalized is
\* settled, however late the receipt appears, after emergency stops and
\* restarts as well (RunReconciliation and recoverPersisted).
FinalizedOperationSettles ==
  \A i \in Incidents :
    inc[i].status \in {"broadcast", "ambiguous"} /\ Receipts(inc[i].tx) # {}
      ~> inc[i].status \in Terminal \cup {"absent"}

\* The same for a process that restarts with only the signature on record,
\* because it ended between SendTransaction and the next write
\* (docs/operations/atomic-claims.md:64: an already signed one is reconciled by
\* receipts after its deadline).
RestartSettlesSignature ==
  \A i \in Incidents :
    session = "none" /\ inc[i].status = "signed" /\ Receipts(inc[i].tx) # {}
      ~> inc[i].status \in Terminal \cup {"absent"}

=============================================================================
