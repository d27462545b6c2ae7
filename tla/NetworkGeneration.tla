-------------------------- MODULE NetworkGeneration --------------------------
(***************************************************************************)
(* One network under supervise and runGeneration (daemon_generation.go):   *)
(* a generation opens its connections and its session, starts the watcher, *)
(* the consumer and the reconciliation, cancels them all with the first    *)
(* result, waits for every one of them, and is followed by the next.       *)
(*                                                                         *)
(* What the consumer and the reconciliation do to the journal and to the   *)
(* rescue operations is in the other modules.  Here they run, end, and     *)
(* report the providers as failing or healthy.  Dialing, the quorum, the   *)
(* session and the Put of the claim are one step that succeeds or fails;   *)
(* the Put that waits for ever is the subject of PipelineWake.             *)
(***************************************************************************)
EXTENDS Watcher

CONSTANT Helpers    \* the workers beside the watcher: the consumer and, in live
                    \* mode, the reconciliation

VARIABLES
  up,               \* whether the workers of a generation exist
  helper            \* helper |-> "off", "running" or "ended"

generationVars == <<up, helper>>

networkVars == <<quorumVars, watcherVars, generationVars>>

NetworkInit ==
  /\ QuorumInit
  /\ WatcherInit
  /\ up = FALSE
  /\ helper = [h \in Helpers |-> "off"]

\* runGeneration opens everything and starts the workers, with a new watcher Service.
StartGeneration ==
  /\ ~up
  /\ up' = TRUE
  /\ helper' = [h \in Helpers |-> "running"]
  /\ worker' = [w \in Workers |-> IF w = "live" THEN "first" ELSE IF fast THEN "again" ELSE "off"]
  /\ scan' = [w \in Workers |-> IF w = "live" \/ fast THEN Begin ELSE Idle]
  /\ seen' = NothingSeen
  /\ UNCHANGED <<quorumVars, fast, queued, cursor, cancelled, degraded, errors>>

\* runGeneration fails before that, and supervise reports it.
StartFails ==
  /\ ~up
  /\ errors < MaxErrors /\ errors' = errors + 1
  /\ degraded' = TRUE
  /\ UNCHANGED <<quorumVars, generationVars, fast, worker, scan, seen, queued, cursor, cancelled>>

\* A worker returns its error: a fatal one, or that of the cancelled context.
HelperEnds(h) ==
  /\ helper[h] = "running"
  /\ \/ cancelled /\ UNCHANGED errors
     \/ errors < MaxErrors /\ errors' = errors + 1
  /\ helper' = [helper EXCEPT ![h] = "ended"]
  /\ UNCHANGED <<quorumVars, up, fast, worker, scan, seen, queued, cursor, cancelled, degraded>>

\* recordFailure and recordRPCHealthy of the coordinator.
HelperReports(h) ==
  /\ helper[h] = "running"
  /\ degraded' \in BOOLEAN
  /\ UNCHANGED <<quorumVars, generationVars, fast, worker, scan, seen, queued, cursor, cancelled, errors>>

\* The first result cancels the context of the generation.
FirstResult ==
  /\ up /\ ~cancelled
  /\ Returned \/ \E h \in Helpers : helper[h] = "ended"
  /\ cancelled' = TRUE
  /\ UNCHANGED <<quorumVars, generationVars, fast, worker, scan, seen, queued, cursor, degraded, errors>>

\* Mutant of Joined: runGeneration returns with the first result.
NotJoined == Returned \/ \E h \in Helpers : helper[h] = "ended"

\* Every result is in.
Joined == Returned /\ \A h \in Helpers : helper[h] = "ended"

\* runGeneration returns its results, supervise reports the network degraded.
GenerationEnds ==
  /\ up /\ cancelled
  /\ Joined
  /\ up' = FALSE
  /\ cancelled' = FALSE
  /\ degraded' = TRUE
  /\ worker' = [w \in Workers |-> IF worker[w] = "ended" THEN "off" ELSE worker[w]]
  /\ helper' = [h \in Helpers |-> IF helper[h] = "ended" THEN "off" ELSE helper[h]]
  /\ UNCHANGED <<quorumVars, fast, scan, seen, queued, cursor, errors>>

WatcherRuns ==
  /\ \/ \E w \in Workers : Step(w) \/ ScanFails(w) \/ LoopEnds(w)
     \/ Ready
     \/ Subscribe
  /\ UNCHANGED <<quorumVars, generationVars>>

ProvidersMove ==
  /\ \E p \in Providers : HeadMoves(p) \/ FinalityMoves(p)
  /\ UNCHANGED <<watcherVars, generationVars>>

NetworkNext ==
  \/ ProvidersMove
  \/ WatcherRuns
  \/ StartGeneration
  \/ StartFails
  \/ \E h \in Helpers : HelperEnds(h) \/ HelperReports(h)
  \/ FirstResult
  \/ GenerationEnds

NetworkSpec == NetworkInit /\ [][NetworkNext]_networkVars

-----------------------------------------------------------------------------
(* Fairness: tickers tick, reads return within the read timeout, a cancelled   *)
(* worker returns, and supervise goes on.                                      *)

Progress(w) ==
  /\ \/ Step(w)
     \/ w = "live" /\ (Ready \/ Subscribe)
     \/ (Refused(w) \/ Cancelled(w)) /\ (ScanFails(w) \/ LoopEnds(w))
  /\ UNCHANGED <<quorumVars, generationVars>>

FairNetwork ==
  /\ NetworkSpec
  /\ \A w \in Workers : WF_networkVars(Progress(w))
  /\ \A h \in Helpers : WF_networkVars(cancelled /\ HelperEnds(h))
  /\ WF_networkVars(StartGeneration)
  /\ WF_networkVars(FirstResult)
  /\ WF_networkVars(GenerationEnds)

-----------------------------------------------------------------------------
(* Properties *)

\* Whenever no fast scan is under way, fastSeen is one unbroken piece of one branch,
\* and the logs of all its blocks are in the journal.  A later scan stops at the first
\* block it has seen and leaves everything below it to this: scans walk down, so one
\* that ended half-way, or crossed a reorganisation, must not leave its upper part
\* behind (scanFast).
FastSeenUnbroken ==
  fast /\ worker["live"] \notin Scans \cup {"ended", "off"} =>
    /\ \A n \in Heights : seen[n] # NoBlock => seen[n] \in queued
    /\ \A m, n \in Heights :
         m < n /\ seen[m] # NoBlock /\ seen[n] # NoBlock =>
           seen[n - 1] # NoBlock /\ seen[n - 1] = Parent[seen[n]]

\* A network is reported healthy only while it has a session: supervise waits for every
\* worker before it reports the end of a generation, so no late callback of the watcher
\* and no late success of the consumer takes the report back (docs/operations/monitoring.md:
\* the condition is cleared only after a session was opened).
HealthyMeansSession == degraded \/ up

\* The providers name the same heads, and finality is not told by a node that lags behind
\* what was committed.
ProvidersInOrder ==
  /\ ProvidersAgree
  /\ cursor # NoBlock => \A p \in Providers : cursor \in Branch[finalized[p]]

\* Once the providers are in order for good, the network catches up, whatever errors,
\* lagging heads, reorganisations and restarts came before: the cursor reaches the
\* finalized block, and in fast mode the newest block is queued (Run, scan, scanFast,
\* supervise).
CaughtUp ==
  <>[]ProvidersInOrder =>
    <>[](\A p \in Providers : cursor = finalized[p] /\ (fast => latest[p] \in queued))
=============================================================================
