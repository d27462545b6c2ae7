---------------------------- MODULE PipelineWake ----------------------------
(***************************************************************************)
(* The pipeline of CandidatePipeline with the waiting its store operations *)
(* do.  The scanner waits in CommitCanonicalBlock and the watcher in Put   *)
(* while the journal is full, the consumer in Next while nothing is ready, *)
(* the last with a timer for the earliest retry.  CandidatePipeline only   *)
(* says that such an operation does not happen; here its caller takes the  *)
(* wake channel, runs the transaction and sleeps, and only the notify of a *)
(* committed change or its timer makes it look again.                      *)
(*                                                                         *)
(* A generation begins with the Put of the configured claim; its workers   *)
(* are started when that Put has returned (runGeneration).  The goroutine  *)
(* that makes it takes the place of the watcher, which comes after it.     *)
(***************************************************************************)
EXTENDS CandidatePipeline, WakeChannel

CONSTANT Claim      \* the candidate of the configured claim

ASSUME WakeConstants ==
    /\ Procs = {"scanner", "watcher", "consumer"}
    /\ Claim \in Candidates /\ Info[Claim].kind = "periodic"

VARIABLES
    running,        \* whether the workers of the generation were started
    putting,        \* the candidate of the Put in progress
    timer           \* when the Next in progress looks again by itself; 0: never

localVars == <<running, putting, timer>>

wakePipelineVars == <<pipelineVars, wakeVars, localVars>>

WakePipelineInit ==
    /\ PipelineInit
    /\ WakeInit
    /\ running = FALSE /\ putting = 0 /\ timer = 0

----------------------------------------------------------------------------
(* The scanner in CommitCanonicalBlock *)

NextBlocks ==
    {b \in Finalized : /\ db.cursor = NoBlock => b = FirstBlock
                       /\ ExtendsCursor(db, b)}

\* errJournalFull.
BlockMustWait(b) ==
    \/ ~ReserveUnconfirmedBlock(db, b)
    \/ ~ReserveJournal(db, Cardinality({c \in Members(b) : db.status[c] \in {"none", "observed"}}))

ScanBegins ==
    /\ running
    /\ WakeSignal("scanner")
    /\ NextBlocks # {}
    /\ UNCHANGED <<pipelineVars, localVars>>

ScanCommits ==
    /\ stage["scanner"] = "reading" /\ Committed("scanner")
    /\ Work
    /\ UNCHANGED localVars

ScanWaits ==
    /\ Blocked("scanner")
    /\ \E b \in NextBlocks : BlockMustWait(b)
    /\ UNCHANGED <<pipelineVars, localVars>>

----------------------------------------------------------------------------
(* The watcher in Put, and its operations that never wait *)

PutIsNew(c) == db.status[c] = "none" /\ ~CandidateAlreadyScanned(db, c)

PutMustWait(c) == PutIsNew(c) /\ ~ReserveJournal(db, 1)

\* runGeneration puts the claim, after the workers of the last generation have ended.
ClaimBegins ==
    /\ ~running
    /\ \A p \in Procs : stage[p] = "out"
    /\ WakeSignal("watcher")
    /\ putting' = Claim
    /\ UNCHANGED <<pipelineVars, running, timer>>

\* putCandidate in reconcile and scanFast.
PutBegins ==
    /\ running
    /\ WakeSignal("watcher")
    /\ \E c \in Candidates \ {Claim} : Info[c].kind # "block" /\ putting' = c
    /\ UNCHANGED <<pipelineVars, running, timer>>

PutReturns == putting' = 0 /\ running' = TRUE /\ UNCHANGED timer

PutCommits ==
    /\ stage["watcher"] = "reading" /\ Committed("watcher")
    /\ Sight(putting)
    /\ PutReturns

\* The candidate is known, or its block was scanned: merged without a change.
PutMerges ==
    /\ Returned("watcher")
    /\ ~PutIsNew(putting)
    /\ PutReturns
    /\ UNCHANGED pipelineVars

PutWaits ==
    /\ Blocked("watcher")
    /\ PutMustWait(putting)
    /\ UNCHANGED <<pipelineVars, localVars>>

Observes ==
    /\ running
    /\ stage["watcher"] = "out" /\ Committed("watcher")
    /\ \E c \in Candidates : Info[c].kind = "block" /\ Sight(c)
    /\ UNCHANGED localVars

----------------------------------------------------------------------------
(* The consumer in Next, and its operations that never wait *)

NextBegins ==
    /\ running
    /\ At("idle")
    /\ WakeSignal("consumer")
    /\ UNCHANGED <<pipelineVars, localVars>>

\* Only a promotion is announced; a candidate that was ready before is just returned.
NextReturns ==
    /\ stage["consumer"] = "reading"
    /\ \/ Committed("consumer") /\ Take /\ db'.ready # db.ready
       \/ Returned("consumer") /\ Take /\ db'.ready = db.ready
    /\ UNCHANGED localVars

\* Mutant of NextRetry: no timer is set.
NoRetryTimer == 0

\* The earliest retry of the delayed candidates; all of them are in the future.
NextRetry ==
    LET later == {db.retryAt[c] : c \in WithStatus(db, {"delayed"})}
    IN  IF later = {} THEN 0 ELSE Min(later)

NothingReady == PromoteCandidates(db, now).ready = <<>>

NextWaits ==
    /\ Blocked("consumer")
    /\ NothingReady
    /\ timer' = NextRetry
    /\ UNCHANGED <<pipelineVars, running, putting>>

TimerFires ==
    /\ timer \in 1 .. now
    /\ Again("consumer")
    /\ timer' = 0
    /\ UNCHANGED <<pipelineVars, running, putting>>

Resolves ==
    /\ stage["consumer"] = "out" /\ Committed("consumer")
    /\ Acknowledge \/ Postpone
    /\ UNCHANGED localVars

\* PutIncident changes nothing anyone waits for, and notifies nobody.
Handles ==
    /\ stage["consumer"] = "out"
    /\ UNCHANGED <<wakeVars, localVars>>
    /\ Link \/ HandleForGood \/ HandleToReplay

----------------------------------------------------------------------------

Announces(p) ==
    /\ Notify(p)
    /\ UNCHANGED <<pipelineVars, localVars>>

WakesUp(p) ==
    /\ p \in closed
    /\ Again(p)
    /\ timer' = IF p = "consumer" THEN 0 ELSE timer
    /\ UNCHANGED <<pipelineVars, running, putting>>

\* The process crashes, or the generation is cancelled.
Stops ==
    /\ Stop
    /\ Lost \/ Cancelled
    /\ running' = FALSE /\ putting' = 0 /\ timer' = 0

ClockTicks ==
    /\ Clock
    /\ UNCHANGED <<wakeVars, localVars>>

ScannerStep ==
    \/ ScanBegins \/ ScanCommits \/ ScanWaits \/ Announces("scanner") \/ WakesUp("scanner")

WatcherStep ==
    \/ ClaimBegins \/ PutCommits \/ PutMerges \/ PutWaits \/ Announces("watcher") \/ WakesUp("watcher")

ConsumerStep ==
    \/ NextBegins \/ NextReturns \/ NextWaits \/ TimerFires \/ Resolves \/ Handles
    \/ Announces("consumer") \/ WakesUp("consumer")

WakePipelineNext ==
    \/ ScannerStep \/ WatcherStep \/ ConsumerStep
    \/ PutBegins \/ Observes
    \/ Stops \/ ClockTicks

WakePipelineSpec == WakePipelineInit /\ [][WakePipelineNext]_wakePipelineVars

\* Each goroutine goes on while it is not asleep.  What the watcher puts is up to the
\* chain, but the Put of a claim is made, and a Put that began goes on.
FairWakePipeline ==
    /\ WakePipelineSpec
    /\ WF_wakePipelineVars(ScannerStep)
    /\ WF_wakePipelineVars(WatcherStep)
    /\ WF_wakePipelineVars(ConsumerStep)
    /\ WF_wakePipelineVars(ClockTicks)

----------------------------------------------------------------------------
(* Properties *)

\* Whether the transaction of p would again end in waiting.
MustWait(p) ==
    CASE p = "scanner" -> \A b \in NextBlocks : BlockMustWait(b)
      [] p = "watcher" -> PutMustWait(putting)
      [] p = "consumer" -> NothingReady

\* Nobody sleeps through his turn: whoever waits in Put, CommitCanonicalBlock or Next
\* on a channel still in place would have to wait if it looked again, unless a change is
\* about to be announced or its timer has run out.  Rests on every transaction that
\* makes room or work calling notify, and on the timer of Next for what only time makes
\* ready.
NobodySleepsOnWork ==
    \A p \in Procs :
        stage[p] = "asleep" /\ p \notin closed =>
            \/ MustWait(p)
            \/ \E q \in Procs : stage[q] = "notifying"
            \/ p = "consumer" /\ timer \in 1 .. now

\* What atomic-claims.md says: the claim is in the durable queue right after the
\* session was opened.  The Put in runGeneration waits while the journal is full, and
\* the consumer that would make room is started after it.
ClaimQueuedAtStart == ~running ~> db.status[Claim] # "none"
=============================================================================
