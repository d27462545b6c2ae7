---- MODULE CandidatePipeline ----
(***************************************************************************)
(* One network of the daemon around the candidate store: the finalized     *)
(* scanner that commits blocks, the live watcher that puts sightings and   *)
(* periodic checks, and the consumer loop consumeCandidates, which takes a *)
(* candidate, links its incident, handles it and resolves it.  The         *)
(* consumer's position is volatile: the process may stop, or a generation  *)
(* be cancelled, between any two of its calls.                             *)
(***************************************************************************)
EXTENDS CandidateStore

CONSTANTS
    Finalized,      \* the finalized chain the provider quorum agrees on
    FirstBlock,     \* where the first scan of a new store starts (lookback)
    MaxStops        \* bound on crashes and generation restarts

ASSUME PipelineConstants ==
    /\ Finalized \subseteq Blocks /\ FirstBlock \in Finalized
    /\ MaxStops \in Nat

VARIABLES
    worker,         \* the consumer: its place in the loop and its candidate
    stops,          \* crashes and restarts so far
    committed,      \* history: blocks ever committed
    handled,        \* history: candidates whose handling once ended for good
    acknowledged    \* history: candidates ever acknowledged

pipelineVars == <<storeVars, worker, stops, committed, handled, acknowledged>>

Idle == [pc |-> "idle", cand |-> 0]

At(pc) == worker.pc = pc

Goto(pc) == worker' = [worker EXCEPT !.pc = pc]

PipelineInit ==
    /\ Init
    /\ worker = Idle
    /\ stops = 0
    /\ committed = {} /\ handled = {} /\ acknowledged = {}

----------------------------------------------------------------------------
(* The watcher *)

\* One round of scan: the next finalized block after the cursor.
Scan(b) ==
    /\ b \in Finalized
    /\ db.cursor = NoBlock => b = FirstBlock
    /\ CommitCanonicalBlock(b)
    /\ committed' = committed \cup {b}
    /\ UNCHANGED <<worker, stops, handled, acknowledged>>

\* observeLog, reconcile and scanFast.
Sight(c) ==
    /\ Put(c) \/ PutObserved(c) \/ MarkRemoved(c)
    /\ UNCHANGED <<worker, stops, committed, handled, acknowledged>>

----------------------------------------------------------------------------
(* The consumer *)

Take ==
    /\ At("idle")
    /\ NextCandidate
    /\ db'.ready # <<>>
    /\ worker' = [pc |-> "taken", cand |-> Head(db'.ready)]
    /\ UNCHANGED <<stops, committed, handled, acknowledged>>

Link ==
    /\ At("taken")
    /\ PutIncident(worker.cand)
    /\ Goto("linked")
    /\ UNCHANGED <<stops, committed, handled, acknowledged>>

\* Handle ends with success or an error that no retry can mend.
HandleForGood ==
    /\ At("linked")
    /\ Goto("finished")
    /\ handled' = handled \cup {worker.cand}
    /\ UNCHANGED <<storeVars, stops, committed, acknowledged>>

\* Handle ends with a retryable or ambiguous error (shouldReplay); not any more
\* when the clock has reached its bound.
HandleToReplay ==
    /\ At("linked")
    /\ now < MaxTime
    /\ Goto("replay")
    /\ UNCHANGED <<storeVars, stops, committed, handled, acknowledged>>

Acknowledge ==
    /\ At("finished")
    /\ Ack(worker.cand)
    /\ worker' = Idle
    /\ acknowledged' = acknowledged \cup {worker.cand}
    /\ UNCHANGED <<stops, committed, handled>>

Postpone ==
    /\ At("replay")
    /\ \E t \in RetryTimes : (t > now \/ t = MaxTime) /\ Nack(worker.cand, t)
    /\ worker' = Idle
    /\ UNCHANGED <<stops, committed, handled, acknowledged>>

\* A crash, or a generation whose context is cancelled: the loop starts over.
Stop ==
    /\ stops < MaxStops
    /\ worker' = Idle
    /\ stops' = stops + 1
    /\ UNCHANGED <<storeVars, committed, handled, acknowledged>>

Clock ==
    /\ Tick
    /\ UNCHANGED <<worker, stops, committed, handled, acknowledged>>

\* Everything there was is confirmed; scanner and consumer wait for the chain to grow.
Rest ==
    /\ committed = Finalized
    /\ WithStatus(db, Unfinished) = {} /\ At("idle")
    /\ UNCHANGED pipelineVars

Consume == Take \/ Link \/ HandleForGood \/ HandleToReplay \/ Acknowledge \/ Postpone

Work == \E b \in Blocks : Scan(b)

PipelineNext ==
    \/ Work
    \/ \E c \in Candidates : Sight(c)
    \/ Take
    \/ Link
    \/ HandleForGood
    \/ HandleToReplay
    \/ Acknowledge
    \/ Postpone
    \/ Stop
    \/ Clock
    \/ Rest

PipelineSpec == PipelineInit /\ [][PipelineNext]_pipelineVars

\* The scanner's ticker, the consumer goroutine and the clock keep running.
FairPipeline ==
    /\ PipelineSpec
    /\ WF_pipelineVars(Work)
    /\ WF_pipelineVars(Consume)
    /\ WF_pipelineVars(Clock)

----------------------------------------------------------------------------
(* Properties *)

\* Every candidate of a block the scan has passed is still in the journal or was
\* handled to the end before it was acknowledged, whatever crashes, trims and expired
\* tombstones did in between (docs: a failure between the transitions leads to the same
\* work being handed out again, not to its loss).
NoWorkLost ==
    \A b \in committed : \A c \in Members(b) :
        \/ db.status[c] \in Unfinished
        \/ c \in acknowledged /\ c \in handled

\* Only the finalized branch is worked on: a sighting of another branch never gets
\* past "observed", so a reorganisation cannot make the consumer act on it.
OnlyFinalizedWork ==
    \A c \in Candidates : Indexed(c) /\ Info[c].block \notin Finalized =>
        db.status[c] \in {"none", "observed"}

\* What the callers see of the store, without ready list, retries, tombstones and
\* trimmed blocks.
Journal == INSTANCE WorkJournal WITH
    Items <- Candidates, Chain <- Blocks, HeightOf <- Number, ParentOf <- Parent,
    WorkOf <- [b \in Blocks |-> Members(b)], Capacity <- JournalCapacity,
    accepted <- committed, pending <- WithStatus(db, Unfinished), done <- handled,
    confirmed <- acknowledged, safe <- db.checkpoint

\* The bounded store implements the journal that forgets nothing: a block is accepted
\* once and as a whole, its work is never handed out again after it was confirmed, the
\* checkpoint is exactly the end of the confirmed prefix, across late sightings,
\* expired tombstones, trimmed blocks and restarts (Put, CommitCanonicalBlock, Ack).
ImplementsJournal == Journal!JournalSpec

\* The scanner waits on a full journal and on the unconfirmed limit, the consumer on
\* the ready list: they never wait on each other for ever, and every block gets
\* confirmed (Put, CommitCanonicalBlock, Next and their wake channel).
EveryBlockConfirmed == <>[](committed = Finalized /\ \A b \in Finalized : Number[b] <= db.checkpoint)

\* No candidate waits in the journal for ever: again and again everything in it has
\* been handled at least once, whatever else arrives and is postponed.
EveryPutHandled ==
    []<>(\A c \in Candidates : db.status[c] \in Unfinished => c \in handled)
====
