# A verification development for guard-daemon

guard-daemon watches the addresses of compromised accounts, and moves what arrives
there to a safe destination with transactions that a sponsor pays for. What is hard
about it is not a single transaction. It is everything around it: durable queues that
crash between two writes, providers that disagree, a nonce that must never be used
twice, a budget that must hold over restarts, two processes that must never sign for
one sponsor.

The TLA+ modules here model that part. TLC checks them on small instances, and TLAPS
proves the properties that matter most for every instance.

## The system and its parts

Every network runs in **generations**: supervise opens connections and a session,
starts the workers, and starts over when one of them ends. The **watcher** scans
finalized blocks, and in the fast mode the newest ones too, through a **quorum** of
providers, and puts candidates in a **candidate store** (a bbolt file). A **consumer**
takes them out one at a time and hands them to the **rescue coordinator**. The
coordinator asks the **admission controller** and the **budget ledger** for permission,
signs, broadcasts, and settles by the finalized receipt; its own records live in the
**rescue state** buckets of the same bbolt file. Ledger and admission are shared by all
networks. **Fences, file locks and leases** decide which process owns all this. An
**alert manager** tells the operator.

| Part | Code | Module | Covered |
|---|---|---|---|
| Budget ledger | `internal/budget` | `BudgetLedger`, `BudgetLedgerProofs` | all operations |
| Candidate queue, scan journal | `internal/store/bolt_*.go` | `CandidateStore`; its promise is `WorkJournal`; `Candidate*Proofs` | all operations |
| Waiting in the store | `internal/store/bolt_store.go` | `WakeChannel`, composed in `PipelineWake` | wakeSignal, notify, timers |
| Scanner, sightings, consumer around the store | `daemon.go` consumeCandidates, `internal/watcher` | `CandidatePipeline` | the calls into the store |
| Watcher | `internal/watcher` | `Watcher` | both scanners, subscription and polling |
| Quorum of providers | `internal/rpc/quorum.go` | `ProviderQuorum` | heads and headers |
| Generations, health | `daemon_generation.go`, `observability/health.go` | `NetworkGeneration` | start, end, rpc_degraded |
| Rescue records, nonce floor | `internal/store/rescue_state.go` | `RescueState` | all but the migration |
| Rescue coordinator, paid action gate | `internal/rescue`, `observability/gate.go` | `RescueCoordinator`, `RescueProofs` | the finalized mode |
| Latest-state mode, prefetch | `fast_reconciliation.go`, `prefetch.go` | `LatestRescue` | both modes, changed at a restart |
| Admission | `internal/rescue/policy*.go` | `Admission` | all operations |
| Leases, fences, start-up, shutdown | `internal/store/lease.go`, `process_fence*.go`, `cmd/guard-daemon` | `SponsorOwnership` | order of steps, locks, leases |
| Alerts | `internal/observability/alerts.go` | `AlertManager` | one alert, all operations |

`PROJECT.json` lists these and the parts that are not modelled, with reasons, the source
lines behind each definition, and the hazards of the code with the properties that
cover them.

## Modules

The grain of atomicity is the same everywhere: a bbolt transaction, or the body of a
mutex, is one action. A step ends where something becomes durable or visible outside,
because that is where a crash, a cancelled context, the clock or another actor can
come between. A transaction that returns an error rolls back and is not a step.

**BudgetLedger.** `book` maps an attempt to its reservation (held, exposed, committed,
released), `lastSeen` is the persisted clock. One action each for Reserve (existing,
released and new attempts, with the purge of the oldest released record at capacity),
MarkExposed, CommitFinalized, ReleaseProvenUnused, CheckSponsorCapacity, Open, Close.
`Collectable` is collectUsage: the recomputation of all sums that every operation
starts with and that fails with ErrCorrupt. Sums are a recursive function
(`IndexedSums`), because proofs need it. The 256-bit overflow of addChecked is an error
that changes nothing, so amounts are naturals.

**CandidateStore.** The file is one record `db`; every operation is one action on it.
`Promote`, `AdvanceCheckpoint`, `TrimCanonicalBlocks`, `AddTombstone` and `Forget` are
the parts the transactions are made of. `ValidateDatabase` is the validation that Open
runs. The field `waited` is not in the file: it is a history of the places one kind of
work lost to the other while it waited. `Promotions` gives the free places of the ready
list away in the order of the loop in promoteCandidates: a candidate's `Slot` follows
from its `Rank` in its own bucket and from whose turn it is. `Without` is a list some of
whose keys are deleted. Both say which member is at which place, without recursion,
because the proofs count places.

**CandidatePipeline** extends it with the three actors of a network. The consumer's
place between Next, PutIncident, handling and Ack or Nack is volatile, and `Stop` may
come at any place.

**WorkJournal** is what the store promises with none of the ways it keeps the promise:
blocks are accepted once and after their parent, work stays pending until it was
handled and confirmed, and the safe height is the end of the confirmed prefix.
`ImplementsJournal` in `CandidatePipeline` instantiates it with a refinement mapping:
the bounded lists, retries, tombstones, trimmed blocks and restarts of the store are
steps of the journal or stutters.

**WakeChannel** is the protocol by which callers wait: take the channel, run the
transaction, sleep until the channel is closed; a commit closes and replaces it in a
separate critical section. **PipelineWake** composes it with the pipeline. In
`CandidatePipeline` an operation that has to wait is one that is not enabled; here its
caller really sleeps, and `FairPipeline` states that this implements the fairness the
pipeline assumes. It also has the Put of the configured claim, which runGeneration makes
before it starts the workers.

**ProviderQuorum** gives every provider a branch of a block tree and a finalized block
of its own, and lets them move apart and back. A read counts when all agree.
**Watcher** builds the scans on it, read by read: the finalized scan from the durable
cursor, the fast scan down from the agreed head into the cache `seen` (fastSeen), and
the workers around them. **NetworkGeneration** adds runGeneration and supervise, the
workers beside the watcher, and everybody who sets or clears rpc_degraded.

**RescueState** holds the record of an incident, what validateRescueIncident accepts,
the allowed transitions and pruning. **RescueCoordinator** extends it with the one
operation that operationMu lets run, step by step: prepare, reserve, sign in the gate,
store the signature, raise the nonce floor, mark exposed, send, record, wait for the
receipt, commit the cost, settle; and with recovery at start and periodic
reconciliation. The ledger appears as far as one attempt uses it (`ReserveAccepts`,
`AfterReserve`, `AfterRelease`, `MayExpose`). RPC answers, admission, limits, lease and
fence checks are outcomes the environment chooses. `sent` and `mined` are the network.

**LatestRescue** extends the coordinator with the latest-state mode. An operation leaves
the mutex once it is broadcast, several wait for finality, and the pass of
reconcileFast lists under the mutex, reads outside it and applies under it again, one
action for each. Transactions are in blocks that may be reorganised away before they
are final. A process that comes up again may be configured for the other mode, and
meets records of the first; it may also be started under EMERGENCY_STOP. An error that
fatalReconciliationError does not forgive, such as a send that the closed gate refuses,
ends the pass and with it the generation (`ErrorReturned`); supervise starts the next.

**SponsorOwnership.** Start-up runs through the list of steps of newDaemon, a failed
step or a shutdown runs back through its clean-up. Fences are inodes with flock
owners, so a removed and recreated fence file is a new inode. The stores lie in the
state directory of a process; the ledger and the admission records lie at a path that the
sponsor alone determines (`Path`), so that processes with different state directories
still meet there. guardSigning is two steps and the signature is a third.

**AlertManager.** One alert, because alerts meet only in the state file that every
write rewrites from memory. Delivery to the sink happens outside the lock. loadState also
refuses a file with more entries than the configured networks allow; that is not about
one alert, and the file of one configuration never has so many.

**Admission.** Records in memory and on disk, cached counters, every refusal by a limit
in the order of Admit and the retry time that goes with it. A request that is refused for
good, because it is invalid or contradicts the admitted one, still prunes and writes
(`Refused`). `admitted` remembers every
attempt ever allowed, so that the limits can be stated over history, not over what
the controller still remembers.

## Runs

| Run | Instance | Shows |
|---|---|---|
| `ledger` | 2 networks (one with estimated fees), 3 attempts, 2 records, charges below, at and above the quote, clock values 1, 2, 4 in any order | the file never becomes uncollectable (`AlwaysCollectable`); limits hold over every past window (`RollingLimits`); after an overrun the ledger only drains (`OverrunDrains`); what may be public is irrevocable (`Irrevocable`); `LedgerInv` is checked before it is proved |
| `pipeline` | 5 candidates on two branches of 3 heights, ready list 1, journal 3, one tombstone, one canonical block, 2 stops | a restart always accepts the file (`ReopenAccepts`); work is not lost (`NoWorkLost`) and only taken from the finalized branch (`OnlyFinalizedWork`); new work and due retries take turns over any number of transactions (`PromotionTakesTurns`); the store implements the journal (`ImplementsJournal`) |
| `wake` | 3 goroutines, 2 blocks, a journal of one place, a claim and a periodic check, 1 stop | no wake-up is lost (`NoLostWakeup`), nobody sleeps on work it could do (`NobodySleepsOnWork`), the waiting gives the pipeline its fairness (`FairPipeline`), and with it all blocks are confirmed and all puts handled |
| `claim_at_start` | as above with one tombstone | finding 1 |
| `rescue` | 2 incidents (one a claim), 1 attempt, 2 nonces, pending nonces that lag behind, no retained records | `NonceUnique`, `SentCovered`, `SettledByReceipt`, `OneUnsentSignature`, `NothingSentWhenStopped` with a crash, stop or cancellation anywhere |
| `latest` | 2 incidents of one asset or of two, a limit of 1 or 2 unfinalized operations, any number of crashes and cancellations | no nonce is skipped (`NoNonceGap`), and operations in flight stay bounded and apart (`InFlightBounded`) |
| `latest_settles` | 1 claim, 2 attempts, 3 instants, a stop or a crash, after it either mode and perhaps an emergency stop | `OneTransactionPerClaim`, `SettledByFinality`, and `FinalizedOperationSettles` across a change of mode |
| `watcher` | 2 providers, 3 blocks and a fork of 2, lookback 2, 2 moves, 1 error, both modes | the cache is one branch whose blocks are queued (`FastSeenUnbroken`), a network is healthy only with a session (`HealthyMeansSession`), the scans catch up (`CaughtUp`) |
| `signed_expiry` | 1 incident | finding 2 |
| `ownership` | 2 processes, with one state directory or their own, a lease of 2 ticks that can be renewed before it expires, 1 crash, 1 replaced fence file | `OneOwner`, and two daemons never run at once even if fence files are replaced; what a stale one may still sign (`StaleOwnerSignsOnce`); `TakeoverWaits`, `OwnerReturns` |
| `alerts` | 2 callers, 1 fault, 1 crash | `SinkAgrees`, `LoadAccepts`, `PendingReachesSink` |
| `admission` | 6 attempts, 4 tokens (one unknown token has three of them), windows of 5 and 2 ticks, 2 attempts per token and per event, 1 per rate window, 1 unknown token, a capacity of 3, 1 failed write, 1 restart | `RollingAdmission`, `CountersAgree`, `AdmittedRemembered`, `RetryAtHelps` |

The bounds are chosen so that each limit refuses something: a ring of one tombstone is
full after one acknowledgement, a journal of one is full after one put, a ledger of
two records has to purge for the third attempt, a lookback of two is shorter than the
chain. Counters (`MaxTime`, `MaxFaults`, `MaxStops`, `MaxCrashes`, `MaxRestarts`,
`MaxReplacements`, `MaxMoves`, `MaxErrors`, `MaxNonce`, `MaxAttempts`) bound the
environment only. Hours and days are shortened to a few ticks. Deadlock is checked in
every passing run; where the system may rest, resting is an explicit action. In
`claim_at_start` standing still is the subject of the run.

Every property of a passing run has a mutant: a plausible bug in one definition under
which TLC reports the property violated.

## Fairness

* Pipeline: the goroutines go on while they are not asleep, and time passes (weak
  fairness, in `wake`). What sleeps is only promised a wake-up by the code, and that
  promise is checked rather than assumed. Stops are bounded; every generation is
  restarted by supervise.
* Network: tickers tick, a read returns within its timeout, cancelled workers return,
  supervise goes on. The bounded moves and errors let the providers settle; nothing is
  promised while they go on disagreeing.
* Coordinator: supervise opens sessions again, a running operation proceeds, the
  reconciliation ticker fires. RPC may fail any number of times but not for ever, so the
  outcomes in which a receipt is found and proved are strongly fair. In the latest-state
  mode nothing is assumed of the candidate loop, which does not come back to a broadcast
  operation; the finalized head keeps moving instead.
* Ownership: a service manager restarts the daemon; the end of the lease worker is
  strongly fair because it cancels the context of every other worker.
* Alerts: calls run to their end and the daemon keeps reporting. Nothing makes the
  sink succeed; faults are only bounded.

## Findings

1. `claim_at_start`: runGeneration puts the configured claim before it starts the
   consumer. If the journal is full, Put waits for room that only the consumer could
   make, and the generation waits for ever, after a restart as well.
   `atomic-claims.md` says the claim is queued right after the session was opened.
2. `signed_expiry`: a process that ends between SendTransaction and the next write, and
   restarts after the deadline of the record with the transaction finalized, cannot
   open a session any more: reconcileOnce stores Ambiguous with a time that
   validateRescueIncident refuses. The documents say such an operation is settled by its
   receipt, and the latest-state path does so.

Observations that are not findings:

* The store forgets an acknowledged claim, periodic check or fast sighting after 128
  later acknowledgements, although `interfaces.go` says Put never adds an acknowledged
  ID again. The rescue records still keep a claim from being executed twice.
* A resolution recorded during another delivery can be overwritten by a new raise,
  although Resolve says it sends exactly one notification.
* A crash between Reserve and the stored signature leaves a held reservation, and a
  retry with another quote is refused and stays prepared (OpenReservations has no caller
  that would clean up); a nonce mismatch leaves a held reservation as well.
* A head that jumps by more than the lookback and then falls back leaves a block outside
  the fast path. The finalized scanner finds it.
* The budget fence is not validated again after start.
* After a failed write the admission controller may keep a `latest` time that is too
  late, so one retry time is later than needed. It restores its clock only from stored
  records, so `RollingAdmission` is checked for clocks that do not go back behind an
  earlier life of the process.

## What is proved

All theorems hold for every value of the constants that the named assumptions of the
modules allow.

**BudgetLedgerProofs**: `Invariance` (`Spec => []LedgerInv`), from it `TypeCorrect`,
`NeverCorrupt` (`AlwaysCollectable`) and `RollingLimitsHold`, and the action properties
`IrrevocableHolds` and `OverrunDrainsHolds`. None of these is inductive alone. A new
reservation is checked against the sums at `lastSeen`, not at the end of every past
window, so `LedgerInv` adds that no record is newer than `lastSeen` and that the file is
collectable there. Then a window that ends later contains nothing more than what a
collectable file allows, and a window that ended earlier is not touched by the step.
Each action changes the record of one attempt (a purge, of two), so the proof rests on
lemmas about how a sum changes when one summand does. They come first in the module, and
are proved by induction over naturals written out as a set of the indices for which the
claim holds.

**RescueProofs** (the finalized mode, `RescueCoordinator!Spec`): `NoncesNeverReused`
(`NonceUnique`), `SentIsCharged` (`SentCovered`), `ClaimsExecutedOnce`
(`OneTransactionPerClaim`), `StopHolds` (`NothingSentWhenStopped`), `OutcomesHaveReceipts`
(`SettledByReceipt`) and `OneSignatureWaits` (`OneUnsentSignature`), from one inductive
invariant `RescueInv`. Uniqueness among sent transactions says nothing about the one
that is signed next, so the invariant relates all places that know a nonce: while there
is a session, the floor lies above every signed nonce but the one that is just being
stored (`FloorOK`); an operation about to sign has a nonce at or above the floor
(`StepOK`); everything sent lies below it, and a record with the nonce of a sent
transaction holds that transaction (`NoncesOK`). A restart forgets `memFloor`; NewSession
rebuilds it from the records and the durable floor, which survives the pruning of
records. Most of the 26 steps of an operation sign, expose and send nothing. They are
covered by one frame lemma (`OperationStep`), so that the argument is in the few that do:
`StoreSigned`, `RaiseNonceFloor`, `MarkExposed`, `SendTransaction` and `NewSession`.

**The candidate store** (`CandidateOrderProofs`, `CandidateStoreProofs`,
`CandidateTransactionProofs`, `CandidatePipelineProofs`), for any tree of blocks, any
candidates, limits, retry times and any number of crashes: `FileReopens`
(`ReopenAccepts`), `WorkIsKept` (`NoWorkLost`), `OnlyFinalizedIsDone`
(`OnlyFinalizedWork`), `PromotionsAlternate` (`PromotionTakesTurns`) and the refinement
`StoreImplementsJournal` (`ImplementsJournal`).

* `ReopenAccepts` is not inductive. The file does not say what was trimmed, so `StoreOK`
  relates it to two histories, the blocks ever committed and the candidates ever
  acknowledged: a committed block that is no longer stored lies below a checkpoint and all
  its candidates were acknowledged (`HistoryOK`); a candidate has become work exactly when
  its block is stored, and no sighting of a losing branch is left at a stored height
  (`MembersOK`); the stored blocks are one chain (`ChainOK`), complete up to the checkpoint
  (`CompleteOK`), which is in it and within the limits (`CheckpointOK`). `Exact` adds that
  the checkpoint cannot move, which holds between transactions only, and `WorkerOK` what
  the consumer may assume of the candidate it has taken.
* `CandidateOrderProofs` counts: who is at which place when places go out in turns, and
  what a list keeps when keys are deleted. `PromotionTakesTurns` follows from the count:
  whoever waits has lost one place at most, and the persisted turn is then its own.
* `CandidateStoreProofs` has the parts of the transactions (promotion, deletion, trimming,
  the checkpoint) and that a file with the invariant passes `ValidateDatabase`;
  `CandidateTransactionProofs` has the transactions.
* In the refinement most steps are stutters. Scan accepts a block whose work becomes
  pending, HandleForGood does an item, Acknowledge confirms it and may move the safe
  height by many blocks at once; the lemmas show that the checkpoint then is the end of the
  confirmed prefix of the history, trimmed blocks included.

`CandidatePipelineProofs` also has `JournalKeepsWork`, what a caller may conclude from the
journal that the store implements (no accepted work is lost, and below the safe height all
of it was handled), and `WakeupsKept` (`NoLostWakeup`), that no wake-up is lost for any
number of goroutines.

**ObservationProofs**, the network: `CacheStaysUnbroken` (`FastSeenUnbroken`) for any block tree, any
providers, lookback and errors, and `HealthNeedsSession` (`HealthyMeansSession`) for any
set of workers. The cache is broken in the middle of a scan, so the invariant says what a
scan in progress has built above its position and has not touched below it.

**SponsorOwnershipProofs**: `SponsorHasOneOwner` (`OneOwner`), `StaleOwnersSignOnce`
(`StaleOwnerSignsOnce`) and `TakeoversWait` (`TakeoverWaits`), for any number of processes,
networks and state directories, from the invariant `OwnInv`. That two processes exclude
each other follows from the lock on the budget fence, but only if nothing is held without
it, and that two running daemons do from the lock on the admission records, which no removal of a
fence file touches; so `LifeOK` says for every position of the start-up and of the shutdown what is
already taken or already given back. The lists of steps depend on the number of networks,
so the proof first establishes which step is at which position. `LeasesOK` says that a
lease its owner has not lost is in the file until it expires, which is what makes a
taker-over wait; `StaleOK` that a signature after a takeover leaves the process without a
guard and on a fence that is no longer at its path, so that the next validation fails.

**ObservationProofs**, the alerts: `SinkIsRight` (`SinkAgrees`) and `OwnFileLoads` (`LoadAccepts`),
for any number of callers. The sink is told outside the lock, so agreement at rest needs
to know what happens in between: the invariant `AlertInv` says that one caller at a time
delivers, that the entry stays pending until it has settled, and that the sink was last
told what a caller about to settle has sent; it settles only what is still pending then.

Model-checked only: liveness, which is out of TLAPS's reach, and with it `FairPipeline`,
whose fairness is the point of it; `NobodySleepsOnWork`, whose composition of the waiting
with the store is checked as a whole; the latest-state mode, whose invariants range over
several operations in flight and their places in blocks that may be reorganised; and
admission, whose limits are counts over windows of a clock that steps back.

## Left out

Within modelled parts: byte codecs and file formats; directory permissions and symbolic
links; power loss that reverts a finished fsync; the schema migration; a crash during
the first creation of a bbolt file (Open then refuses the blank file); validation of
payloads on reload; the buffers of the subscriptions (a log or head only starts a scan);
the token policy of a session, a filter without state; eviction of alerts, which the
capacity of 8 entries per network and 6 codes makes unreachable; a restart with fewer
networks, whose smaller capacity the alert file of the former configuration may exceed;
two processes at the alert file, which newDaemon opens before it takes a fence. The quorum of balances,
receipts and nonces is an environment choice of the coordinator modules.

## Not modelled

* Fees, signer, simulation: computations on one transaction without state, on 256-bit
  numbers. Their outcomes, good and bad, are environment choices of `RescueCoordinator`.
* Attestation and ABI codecs: stateless comparison of bytes.
* Configuration and domain types: their values are the CONSTANTS.
* Metrics, events, dry run: output that is never read back. The health condition
  rpc_degraded is part of `NetworkGeneration`.
* Process entry and credentials: run once, keep no state.
* Contract and scripts: outside the daemon. The contract has its own invariant tests.
