----------------------------- MODULE LatestRescue -----------------------------
(***************************************************************************)
(* The rescue coordinator with the latest-state mode: an operation leaves  *)
(* operationMu as soon as it is broadcast, several operations wait for     *)
(* finality at once, and the reconciliation pass reads receipts outside    *)
(* the mutex (fast_reconciliation.go, prefetch.go).  The mode is fixed in  *)
(* the configuration, so it may differ after a restart; a record keeps the *)
(* mode it was created under in its policy.                                *)
(*                                                                         *)
(* The actions of RescueCoordinator that do not depend on the mode are     *)
(* used as they are.  A transaction is first included in a block of the    *)
(* latest chain, which a reorganisation may take back, and then finalized. *)
(* The process fence and the lease, which a pass validates under the       *)
(* mutex, end the generation when they are lost: that is Cancel.           *)
(***************************************************************************)
EXTENDS RescueCoordinator

CONSTANTS
  Modes,           \* the values of latestState a process may be configured with
  Layouts,         \* [asset, limit, start]: assets of the incidents,
                   \* maxUnfinalizedOperations, and the mode of the first process
  Results,         \* whether a transaction of ours may succeed, or revert
  Faults,          \* of stop, cancel, crash: what may interrupt the coordinator
  MaxAge,          \* maxAttemptSnapshotAge
  ReceiptTimeout   \* Coordinator.receiptTimeout

ASSUME LatestConstants ==
  /\ Modes \subseteq BOOLEAN /\ Modes # {}
  /\ Results \subseteq BOOLEAN
  /\ \A l \in Layouts : DOMAIN l.asset = Incidents /\ l.limit \in Nat \ {0}
                          /\ l.start \in Modes
  /\ Faults \subseteq {"stop", "cancel", "crash"}
  /\ MaxAge \in Nat /\ ReceiptTimeout \in Nat \ {0}

VARIABLES
  layout,          \* rigid: which incidents share an asset, and the limit
  latest,          \* Coordinator.latestState of the running process
  policy,          \* durable: Policy.LatestState of the records
  started,         \* Session.attempt: when its prefetch began, 0 for none
  recoverLatest,   \* Session.recoverLatest
  probeIn,         \* time until lastPendingProbe is a receiptTimeout ago, or 0
  scanned,         \* Session.lastReceiptScan is the finalized head of the chain
  pass,            \* the running call of reconcileFast
  included         \* transactions in blocks that are not final yet

latestVars == <<layout, latest, policy, started, recoverLatest, probeIn, scanned,
                pass, included>>
allVars == <<vars, latestVars>>

sessionVars == <<layout, latest, policy, recoverLatest, probeIn, scanned, included>>

NoPass == [step |-> "idle", items |-> {}, active |-> {}, at |-> 0, complete |-> FALSE]

\* A step of the operation that runs: Handle drops the prefetched attempt when it
\* returns, and a pass ends with its generation.
Step ==
  /\ started' = IF op'.step = "idle" THEN 0 ELSE started
  /\ pass' = IF session' = "none" THEN NoPass ELSE pass
  /\ UNCHANGED sessionVars

-----------------------------------------------------------------------------
(* Reading the records and the chain.                                      *)

\* Items of a pass: an incident and the transaction it had when it was listed.
Item(i) == [incident |-> i, tx |-> inc[i].tx]

InFlight == {i \in Incidents : inc[i].status \in NeedsReceipt}

\* The first entries of a list in key order, as far as the limit goes.
FirstOf(S) == {i \in S : Cardinality({j \in S : j < i}) < layout.limit}

\* MinedReceipt: the transaction is in a block, final or not.
OnChain(tx) == tx \in included \/ Receipts(tx) # {}

\* The operation returns after the broadcast, whichever of the two asks for it.
Fast(i) == latest \/ policy[i]

\* reconcileFast holds operationMu while items of it are left to treat.
Holding == pass.step \in {"probing", "applying"} /\ pass.items # {}

\* Mutant of MayProceed: the limit is one too high.
MayProceedPastLimit(i) ==
  /\ \A j \in InFlight : layout.asset[j] # layout.asset[i]
  /\ Cardinality(InFlight) <= layout.limit
  /\ \A j \in InFlight : (\A k \in InFlight : inc[k].nonce <= inc[j].nonce) => OnChain(inc[j].tx)

\* Mutant of MayProceed: nothing is asked of the highest nonce.
MayProceedUnmined(i) ==
  /\ \A j \in InFlight : layout.asset[j] # layout.asset[i]
  /\ Cardinality(InFlight) < layout.limit

\* checkFastInFlight: no operation of this asset is unresolved, there is room for
\* one more, and the highest allocated sponsor nonce is in a block.
MayProceed(i) ==
  /\ \A j \in InFlight : layout.asset[j] # layout.asset[i]
  /\ Cardinality(InFlight) < layout.limit
  /\ \A j \in InFlight : (\A k \in InFlight : inc[k].nonce <= inc[j].nonce) => OnChain(inc[j].tx)

\* cachedAttempt: the prefetched snapshot of this attempt is still usable.
CachedAttempt == started # 0 /\ now - started <= MaxAge

-----------------------------------------------------------------------------
LatestInit ==
  /\ Init
  /\ layout \in Layouts
  /\ latest = layout.start
  /\ policy = [i \in Incidents |-> FALSE]
  /\ started = 0 /\ recoverLatest = FALSE /\ probeIn = 0 /\ scanned = FALSE
  /\ pass = NoPass
  /\ included = {}

\* Session.recoverLatest: an unfinished operation of the latest-state mode is stored.
FastNewSession ==
  /\ NewSession
  /\ recoverLatest' = \E i \in Incidents :
                        policy[i] /\ inc[i].status \notin Terminal \cup {"absent"}
  /\ probeIn' = 0 /\ scanned' = FALSE /\ pass' = NoPass /\ started' = 0
  /\ UNCHANGED <<layout, latest, policy, included>>

\* The record of a new incident takes over the mode of the process.
FastHandle(i) ==
  /\ ~Holding
  /\ Handle(i)
  /\ policy' = [policy EXCEPT ![i] = IF inc[i].status = "absent" THEN latest ELSE @]
  /\ UNCHANGED <<layout, latest, started, recoverLatest, probeIn, scanned, pass, included>>

-----------------------------------------------------------------------------
(* Resuming and preparing.                                                 *)

\* A coordinator in latest-state mode checks older records before it resumes them;
\* records of its own mode are checked with the prefetch.
CheckedAtResume(i) ==
  latest /\ ~policy[i] /\ inc[i].status \in {"pending", "prepared", "retryable"}

\* The check says no, or an RPC of it fails: the candidate comes back later.
FastPending(i) ==
  /\ CheckedAtResume(i)
  /\ Done
  /\ UNCHANGED <<inc, nonceBlocked>>

Blocked == nonceBlocked /\ ~latest

FastResumePrepared(i) ==
  /\ inc[i].status = "prepared"
  /\ IF Blocked \/ ~inc[i].nothing
     THEN /\ IF Blocked THEN Done ELSE Goto(IF policy[i] THEN "restart" ELSE "sign")
          /\ UNCHANGED <<inc, nonceBlocked>>
     ELSE SetTerminal(i, "failed", "other")

FastResumeUnprepared(i) ==
  /\ inc[i].status \in {"pending", "retryable"}
  /\ IF Blocked \/ now < inc[i].retryAt
     THEN Done /\ UNCHANGED <<inc, nonceBlocked>>
     ELSE IF inc[i].attempts >= MaxAttempts
          THEN SetTerminal(i, "exhausted", inc[i].code)
          ELSE Goto("prepare") /\ UNCHANGED <<inc, nonceBlocked>>

FastResume(i) ==
  /\ Running(i, "resume")
  /\ \/ FastPending(i)
     \/ /\ CheckedAtResume(i) => MayProceed(i)
        /\ \/ ResumeTerminal(i)
           \/ ResumeReconcile(i)
           \/ FastResumePrepared(i)
           \/ FastResumeUnprepared(i)
  /\ UNCHANGED <<floor, resv, memFloor, todo, stopped, outside>>
  /\ Step

\* prefetchAttempt: fees, sponsor nonce, latest block and the check of the
\* operations in flight are read together, the balances after them.
PrefetchPending(i) ==
  /\ \E pending \in PendingAnswers \cup {memFloor} : memFloor' = SponsorNonce(pending)
  /\ Done
  /\ UNCHANGED <<inc, started>>

Prefetched(i) ==
  /\ MayProceed(i)
  /\ Goto("prefetched")
  /\ started' = now
  /\ UNCHANGED <<inc, memFloor>>

PrefetchFails(i) == PrepareFails(i) /\ UNCHANGED started

Prefetch(i) ==
  /\ Running(i, "prepare") /\ policy[i]
  /\ PrefetchPending(i) \/ Prefetched(i) \/ PrefetchFails(i)
  /\ UNCHANGED <<floor, resv, nonceBlocked, todo, stopped, outside, sessionVars, pass>>

\* prepareAndSubmit after the prefetch.
PreparePrefetched(i) ==
  /\ Running(i, "prefetched")
  /\ PrepareFails(i) \/ PrepareNothing(i) \/ Prepared(i)
  /\ UNCHANGED <<floor, resv, nonceBlocked, todo, stopped, outside>>
  /\ Step

PrepareFinalized(i) == ~policy[i] /\ Prepare(i) /\ Step

-----------------------------------------------------------------------------
(* Signing with the snapshot of the attempt, signSubmitAndConfirm.         *)

\* Without a usable snapshot the prepared attempt starts over.
SnapshotExpired(i) ==
  /\ Running(i, "sign") /\ policy[i] /\ ~CachedAttempt
  /\ Goto("restart")
  /\ UNCHANGED <<durable, memFloor, nonceBlocked, todo, stopped, outside>>
  /\ Step

\* restartPreparedAttempt: the reservation goes first.
RestartPreparedAttempt(i) ==
  /\ Running(i, "restart")
  /\ resv' = [resv EXCEPT ![Attempt(i)] = AfterRelease(@)]
  /\ IF Reservation(i).state \in {"exposed", "committed"} THEN Done ELSE Goto("retry")
  /\ UNCHANGED <<inc, floor, memFloor, nonceBlocked, todo, stopped, outside>>
  /\ Step

UsesSnapshot(i) == Running(i, "sign") /\ policy[i] /\ CachedAttempt

\* The checks before the reservation fail, or postpone the attempt; no nonce is
\* read again.
FastBeforeSignedFailure(i) ==
  /\ UsesSnapshot(i)
  /\ Persist(i, Retryable(inc[i]), "idle") \/ (Done /\ inc' = inc)
  /\ UNCHANGED <<floor, resv, memFloor, nonceBlocked, todo, stopped, outside>>
  /\ Step

FastReserve(i, q) ==
  /\ UsesSnapshot(i)
  /\ ReserveAccepts(Reservation(i), q)
  /\ resv' = [resv EXCEPT ![Attempt(i)] = AfterReserve(@, q)]
  /\ Goto("reserved")
  /\ UNCHANGED <<inc, floor, memFloor, nonceBlocked, todo, stopped, outside>>
  /\ Step

\* The age of the snapshot is checked once more inside the gate.
FastSignInGate(i) == (policy[i] => CachedAttempt) /\ SignInGate(i) /\ Step

\* What records of the finalized mode do before they reserve, and what is the same
\* in both modes.
SignFinalized(i) ==
  /\ ~policy[i]
  /\ BeforeSignedFailure(i) \/ Refused(i) \/ \E q \in Quotes : Reserve(i, q)
  /\ Step

SignCommon(i) ==
  /\ \/ (policy[i] => CachedAttempt) /\ ClaimExpired(i)
     \/ FailNothing(i)
     \/ StoreSigned(i) \/ SignFails(i) \/ SignedNotStored(i)
     \/ ReleaseBeforeSigned(i) \/ RetryAfterRelease(i) \/ RaiseNonceFloor(i)
  /\ Step

-----------------------------------------------------------------------------
(* Broadcasting: broadcastAndWait returns once the outcome is stored.      *)

\* fatalReconciliationError: in a pass an error of class Signing or Internal (a stopped
\* gate, a lost fence, a failed write of an alert) ends the generation; other errors,
\* and those of Handle and of the recovery, are only recorded.
ErrorReturned == Done \/ (op.from = "fast" /\ Fatal)

\* The error is returned once the record r is stored.
StoredAndReturned(i, r) ==
  \/ Persist(i, r, "idle")
  \/ /\ op.from = "fast" /\ UpdateAccepted(inc[i], r)
     /\ inc' = [inc EXCEPT ![i] = r]
     /\ Fatal

\* Nothing was sent.  Where the coordinator waits for receipts an ambiguous record
\* notes it first.
FastNotSent(i) ==
  /\ op.incident = i /\ op.step \in {"broadcast", "send", "exposed"}
  /\ IF inc[i].status = "ambiguous" /\ ~Fast(i)
     THEN \E code \in {"other", "blocking"} : StoredAndReturned(i, Ambiguous(inc[i], code))
     ELSE ErrorReturned /\ inc' = inc
  /\ UNCHANGED <<floor, resv, memFloor, nonceBlocked, todo, stopped, outside>>
  /\ Step

BroadcastRecord(r) ==
  [r EXCEPT !.status = "broadcast", !.code = "", !.retryAt = 0, !.updated = now]

FastBroadcastStored(i) ==
  /\ Fast(i)
  /\ \/ /\ Running(i, "accepted")
        /\ PersistAndRefresh(i, BroadcastRecord(inc[i]), "idle")
     \/ /\ Running(i, "unsure")
        /\ PersistAndRefresh(i, Ambiguous(inc[i], "blocking"), "idle")
  /\ UNCHANGED <<floor, resv, memFloor, todo, stopped, outside>>
  /\ Step

Broadcast(i) ==
  /\ \/ MarkExposed(i) \/ SendTransaction(i) \/ WaitReceipt(i)
     \/ ~Fast(i) /\ (BroadcastAccepted(i) \/ BroadcastUnsure(i))
  /\ Step

-----------------------------------------------------------------------------
(* Reconciling one operation: reconcileOnce and reconcileUnfinalized.      *)

FastReconcileInTime(i) ==
  /\ now < inc[i].until
  /\ floor' = RaiseFloor(floor, inc[i].nonce + 1)
  /\ memFloor' = RaiseFloor(memFloor, inc[i].nonce + 1)
  /\ IF ~Fast(i) THEN Goto(IF inc[i].status = "broadcast" THEN "wait" ELSE "send")
     ELSE IF inc[i].status = "broadcast" THEN Done ELSE Goto("unfinalized")
  /\ UNCHANGED <<inc, nonceBlocked>>

FastReconcileOnce(i) ==
  /\ Running(i, "reconcile")
  /\ \/ ReconcileSeesReceipt(i)
     \/ ReconcileTooLate(i)
     \/ FastReconcileInTime(i)
  /\ UNCHANGED <<resv, todo, stopped, outside>>
  /\ Step

\* The transaction is seen in a block, or exactly its bytes are sent again.
ReconcileUnfinalized(i) ==
  /\ Running(i, "unfinalized")
  /\ \/ OnChain(inc[i].tx) /\ PersistAndRefresh(i, BroadcastRecord(inc[i]), "idle")
     \/ Goto("broadcast") /\ UNCHANGED <<inc, nonceBlocked>>
  /\ UNCHANGED <<floor, resv, memFloor, todo, stopped, outside>>
  /\ Step

-----------------------------------------------------------------------------
(* The periodic pass: reconcileFast and reconcileFastPending.              *)

\* Mutant of FastPasses: only the configured mode counts.
FastPassesConfigured == latest

FastPasses == latest \/ recoverLatest

\* The records are listed; those that were not accepted, and accepted ones after the
\* receipt timeout, are looked for in the latest blocks.  The reads are made outside
\* operationMu: what is seen in a block needs nothing, a read that fails sees nothing.
StartPass ==
  /\ session = "live" /\ FastPasses /\ pass.step = "idle"
  /\ LET probe == probeIn = 0
         due == {i \in InFlight : inc[i].status # "broadcast"
                                   \/ now - inc[i].updated >= ReceiptTimeout}
         pending == IF probe THEN {Item(i) : i \in FirstOf(due)} ELSE {}
     IN  \E unseen \in SUBSET pending :
           /\ \A x \in pending \ unseen : OnChain(x.tx)
           /\ probeIn' = IF probe THEN ReceiptTimeout ELSE probeIn
           /\ pass' = [NoPass EXCEPT !.step = IF unseen = {} THEN "finalized" ELSE "locking",
                                     !.items = unseen, !.at = now,
                                     !.active = {Item(i) : i \in FirstOf(InFlight)},
                                     !.complete = InFlight = FirstOf(InFlight)]
  /\ UNCHANGED <<vars, layout, latest, policy, started, recoverLatest, scanned, included>>

\* The next item under operationMu.
NextItem(i, waiting, holding, step) ==
  /\ pass.step \in {waiting, holding} /\ op = Idle /\ session = "live"
  /\ \E x \in pass.items :
       /\ x.incident = i /\ \A y \in pass.items : i <= y.incident
       /\ pass' = [pass EXCEPT !.step = holding, !.items = @ \ {x}]
       /\ op' = IF inc[i].status \in NeedsReceipt /\ inc[i].tx = x.tx
                THEN [step |-> step, incident |-> i, from |-> "fast"] ELSE Idle
  /\ UNCHANGED <<durable, memFloor, nonceBlocked, session, todo, stopped, outside,
                 sessionVars, started>>

\* An operation that was not seen in a block: expired, or sent once more.
ProbeOne(i) ==
  /\ Running(i, "probe")
  /\ IF pass.at >= inc[i].until
     THEN Persist(i, ExpiredAmbiguous(inc[i]), "idle")
     ELSE IF inc[i].status = "broadcast"
     THEN Persist(i, Ambiguous(inc[i], "timeout"), "reconcile")
     ELSE Goto("reconcile") /\ inc' = inc
  /\ UNCHANGED <<floor, resv, memFloor, nonceBlocked, todo, stopped, outside>>
  /\ Step

\* Nothing is left to probe: the finalized head is read, and the receipts of the
\* listed operations below it, still outside operationMu.  The pass ends when the
\* head cannot be read or is the one of the last complete scan.  A transaction in no
\* block, and a read that fails, leave this scan incomplete.
ReadFinalized ==
  /\ \/ pass.step = "finalized"
     \/ pass.step = "probing" /\ pass.items = {} /\ op = Idle
  /\ LET final == {x \in pass.active : Receipts(x.tx) # {}}
     IN  \/ pass' = NoPass
         \/ /\ ~scanned
            /\ \E found \in SUBSET final, complete \in BOOLEAN :
                 /\ complete => /\ pass.complete /\ found = final
                                /\ \A x \in pass.active : OnChain(x.tx)
                 /\ pass' = [NoPass EXCEPT !.step = "waiting", !.items = found,
                                           !.complete = complete]
  /\ UNCHANGED <<vars, sessionVars, started>>

\* Mutant of ApplyOne: the receipt that was read decides, without another proof.
ApplyUnproved(i) ==
  /\ Running(i, "apply")
  /\ SetTerminal(i, "succeeded", "")
  /\ UNCHANGED <<floor, resv, memFloor, todo, stopped, outside>>
  /\ Step

\* A signed record becomes ambiguous before its receipt is applied.
ApplyOne(i) ==
  /\ Running(i, "apply")
  /\ IF inc[i].status = "signed"
     THEN Persist(i, IF now >= inc[i].until THEN ExpiredAmbiguous(inc[i])
                     ELSE [inc[i] EXCEPT !.status = "ambiguous", !.code = "blocking",
                                         !.updated = now], "receipt")
     ELSE Goto("receipt") /\ inc' = inc
  /\ UNCHANGED <<floor, resv, memFloor, nonceBlocked, todo, stopped, outside>>
  /\ Step

EndPass ==
  /\ pass.step \in {"waiting", "applying"} /\ pass.items = {} /\ op = Idle
  /\ scanned' = pass.complete
  /\ nonceBlocked' = RefreshNonceBlock(inc)
  /\ pass' = NoPass
  /\ UNCHANGED <<durable, memFloor, session, todo, op, stopped, outside, layout, latest,
                 policy, started, recoverLatest, probeIn, included>>

Pass ==
  \/ StartPass \/ ReadFinalized \/ EndPass
  \/ \E i \in Incidents :
       \/ NextItem(i, "locking", "probing", "probe") \/ ProbeOne(i)
       \/ NextItem(i, "waiting", "applying", "apply") \/ ApplyOne(i)

-----------------------------------------------------------------------------
(* The outcome: applyReceipt.                                              *)

\* An unproved receipt also leaves the scan of the pass incomplete.
FastUnproven(i) ==
  /\ op.incident = i /\ op.step \in {"receipt", "settle"}
  /\ StoredAndReturned(i, Ambiguous(inc[i], "other"))
  /\ pass' = IF session' = "none" THEN NoPass
             ELSE IF op.from = "fast" THEN [pass EXCEPT !.complete = FALSE] ELSE pass
  /\ started' = 0
  /\ UNCHANGED <<floor, resv, memFloor, nonceBlocked, todo, stopped, outside, sessionVars>>

\* A successful transaction fails the operation if the balances it was prepared
\* with belong to an orphaned block.
PrestateReorg(i) ==
  /\ Running(i, "settle") /\ policy[i]
  /\ \E m \in Receipts(inc[i].tx) : m.success
  /\ SetTerminal(i, "failed", "other")
  /\ UNCHANGED <<floor, resv, memFloor, todo, stopped, outside>>
  /\ Step

Outcome(i) ==
  \/ FastUnproven(i)
  \/ PrestateReorg(i)
  \/ (CommitReceiptCost(i) \/ Settle(i)) /\ Step

-----------------------------------------------------------------------------
(* The environment.                                                        *)

\* The sponsor's transactions get into blocks in the order of their nonces.
Taken == {tx.nonce : tx \in included} \cup {m.tx.nonce : m \in mined}

Include ==
  /\ \E tx \in sent :
       /\ tx.nonce \notin Taken
       /\ \A n \in 0..tx.nonce - 1 : n \in Taken \/ \E p \in PendingAnswers : n < p
       /\ included' = included \cup {tx}
  /\ UNCHANGED <<vars, layout, latest, policy, started, recoverLatest, probeIn, scanned,
                 pass>>

\* A reorganisation takes the newest blocks back.
Reorg ==
  /\ \E tx \in included : included' = {u \in included : u.nonce < tx.nonce}
  /\ UNCHANGED <<vars, layout, latest, policy, started, recoverLatest, probeIn, scanned,
                 pass>>

\* The finalized head moves, over blocks with or without a transaction of ours.
Finalize ==
  /\ scanned' = FALSE
  /\ pass' = IF pass.step \in {"waiting", "applying"} THEN [pass EXCEPT !.complete = FALSE] ELSE pass
  /\ \/ /\ scanned \/ pass' # pass
        /\ UNCHANGED <<mined, included>>
     \/ \E tx \in included, success \in Results :
          /\ \A u \in included : tx.nonce <= u.nonce
          /\ mined' = mined \cup {[tx |-> tx, success |-> success]}
          /\ included' = included \ {tx}
  /\ UNCHANGED <<durable, volatile, now, faults, sent, layout, latest, policy, started,
                 recoverLatest, probeIn>>

FastTick ==
  /\ Tick
  /\ probeIn' = Max(probeIn - 1, 0)
  /\ UNCHANGED <<layout, latest, policy, started, recoverLatest, scanned, pass, included>>

FastStop == "stop" \in Faults /\ Stop /\ UNCHANGED latestVars

FastCancel ==
  /\ "cancel" \in Faults /\ Cancel
  /\ pass' = NoPass /\ started' = 0
  /\ recoverLatest' = FALSE /\ probeIn' = 0 /\ scanned' = FALSE
  /\ UNCHANGED <<layout, latest, policy, included>>

\* A process that comes up again may be configured for the other mode.
FastCrash ==
  /\ "crash" \in Faults /\ Crash
  /\ pass' = NoPass /\ started' = 0
  /\ latest' \in Modes
  /\ recoverLatest' = FALSE /\ probeIn' = 0 /\ scanned' = FALSE
  /\ UNCHANGED <<layout, policy, included>>

\* The expired operations are searched one by one only in the finalized mode.
Expired(i) == ~FastPasses /\ ReconcileExpired(i) /\ UNCHANGED latestVars

Operate(i) ==
  \/ RecoverOne(i) /\ UNCHANGED latestVars
  \/ FastResume(i) \/ Prefetch(i) \/ PreparePrefetched(i) \/ PrepareFinalized(i)
  \/ SnapshotExpired(i) \/ RestartPreparedAttempt(i) \/ FastBeforeSignedFailure(i)
  \/ \E q \in Quotes : FastReserve(i, q)
  \/ FastSignInGate(i) \/ SignFinalized(i) \/ SignCommon(i)
  \/ FastNotSent(i) \/ FastBroadcastStored(i) \/ Broadcast(i)
  \/ FastReconcileOnce(i) \/ ReconcileUnfinalized(i) \/ Expired(i) \/ Outcome(i)

LatestNext ==
  \/ FastNewSession
  \/ (Recovered \/ Rest) /\ UNCHANGED latestVars
  \/ FastTick
  \/ \E i \in Incidents : FastHandle(i) \/ Operate(i)
  \/ Pass
  \/ Include \/ Reorg \/ Finalize
  \/ FastStop \/ FastCancel \/ FastCrash

LatestSpec == LatestInit /\ [][LatestNext]_allVars

-----------------------------------------------------------------------------
(* Fairness.  A session is opened again, a running operation and the pass  *)
(* of the ticker proceed, and the finalized head of the chain keeps        *)
(* moving: an operation that becomes final between the listing and the     *)
(* reading of the head is only looked for again under the next one.  As in *)
(* RescueCoordinator, a receipt is found and proved at some time.  Nothing *)
(* is assumed of the consumer: it acknowledges a broadcast operation of    *)
(* the latest-state mode and does not come back to it.                     *)

\* A receipt that is there is read, by the handler, after the deadline or by the pass.
ReceiptFoundBy(i) ==
  /\ inc[i].status \in NeedsReceipt /\ Receipts(inc[i].tx) # {}
  /\ \/ FastReconcileOnce(i) /\ ReconcileSeesReceipt(i)
     \/ (WaitReceipt(i) /\ Step) /\ op'.step = "receipt"
     \/ Expired(i) /\ op'.step = "receipt"
     \/ /\ ReadFinalized /\ pass'.step = "waiting"
        /\ \E x \in pass'.items : x.incident = i

LatestFairness ==
  /\ WF_allVars(FastTick) /\ WF_allVars(Finalize) /\ WF_allVars(Pass)
  /\ \A i \in Incidents :
       /\ WF_allVars(FastNewSession \/ (Recovered /\ UNCHANGED latestVars) \/ Operate(i))
       /\ SF_allVars(ReceiptFoundBy(i))
       /\ SF_allVars(CommitReceiptCost(i) /\ Step)
       /\ SF_allVars(Settle(i) /\ Step)

FairLatestSpec == LatestSpec /\ LatestFairness

-----------------------------------------------------------------------------
(* Properties.                                                             *)

\* No transaction of the sponsor is sent above a nonce that was never sent: it
\* could not be executed, and every later rescue would wait behind it.  Holds over
\* failed broadcasts, emergency stops, restarts and reorganisations, because
\* checkFastInFlight asks for the highest allocated nonce to be in a block.
NoNonceGap ==
  \A t \in sent : \A n \in 0..t.nonce - 1 :
    \/ \E p \in PendingAnswers : n < p
    \/ \E u \in sent : u.nonce = n

\* Operations that wait for finality are bounded, and no two of them move the same
\* asset, however the candidates, the passes and restarts interleave
\* (checkFastInFlight and the comment above it).
InFlightBounded ==
  /\ Cardinality(InFlight) <= layout.limit
  /\ \A i, j \in InFlight : layout.asset[i] = layout.asset[j] => i = j

\* An operation ends with its transaction only by a finalized receipt and with its
\* cost committed: neither a receipt from a block that is not final, nor one that
\* was read outside the mutex for an earlier transaction of the incident, settles
\* it.
SettledByFinality ==
  \A i \in Incidents :
    inc[i].status \in Terminal /\ inc[i].tx # NoTx =>
      /\ \E m \in mined : m.tx = inc[i].tx /\ (~m.success => inc[i].status = "failed")
      /\ Reservation(i).state = "committed" /\ Reservation(i).tx = inc[i].tx

=============================================================================
