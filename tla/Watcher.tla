------------------------------- MODULE Watcher -------------------------------
(***************************************************************************)
(* The watcher of one network, internal/watcher: the finalized scanner and,*)
(* in fast mode, the scanner of the newest blocks beside it.               *)
(*                                                                         *)
(* Run starts one worker, "live", and in fast mode a second, "backfill".   *)
(* live scans, reports ready, subscribes, scans again and then waits for   *)
(* ticks, heads and logs; without a subscription it only polls.  backfill  *)
(* scans on its ticker.  The finalized scan belongs to live or, in fast    *)
(* mode, to backfill; it commits the blocks after the durable cursor in    *)
(* ascending order.  The fast scan walks down from the agreed head until   *)
(* it meets a block of fastSeen or has covered the lookback window.        *)
(*                                                                         *)
(* Abstractions.  The candidates of a block are put as one: queued holds   *)
(* the blocks whose every log was put by a fast scan, and a failure among  *)
(* them leaves the block out.  What the journal does with them, and that a *)
(* put may wait, is CandidateStore and PipelineWake.  Observed logs and    *)
(* periodic checks leave no trace here but the scan they start.  An error  *)
(* that does not follow from the state of the providers (a timeout, a lost *)
(* subscription, a failing store) comes out of the budget MaxErrors.       *)
(***************************************************************************)
EXTENDS ProviderQuorum

CONSTANTS
  Lookback,     \* lookbackBlocks
  Modes,        \* the values of Dependencies.Fast to consider
  MaxErrors     \* bound on such errors

ASSUME WatcherConstants ==
  /\ Lookback \in Nat \ {0} /\ MaxErrors \in Nat
  /\ Modes \subseteq BOOLEAN

VARIABLES
  fast,         \* Service.fast
  worker,       \* worker |-> where it is
  scan,         \* worker |-> its scan in progress
  seen,         \* Service.fastSeen: height |-> block
  queued,       \* the durable effect of the fast scans
  cursor,       \* the durable scan cursor
  cancelled,    \* whether the context given to Run is cancelled
  degraded,     \* ConditionRPCDegraded of the network
  errors        \* errors so far

watcherVars == <<fast, worker, scan, seen, queued, cursor, cancelled, degraded, errors>>

Workers == {"live", "backfill"}

Scans == {"first", "again"}

\* No map entry is the zero hash, which is the value of a missing entry.
NothingSeen == [n \in Heights |-> NoBlock]

\* A scan: what it reads next, its head, and the height and hash it is at.
ScanAt(step, head, number, expected) ==
  [step |-> step, head |-> head, number |-> number, expected |-> expected]

Idle == ScanAt("idle", NoBlock, 0, NoBlock)

Begin == ScanAt("heads", NoBlock, 0, NoBlock)

\* The oldest height of the window below and with height n.
First(n) == IF n >= Lookback - 1 THEN n - Lookback + 1 ELSE 0

IsFast(w) == fast /\ w = "live"

\* The context of a worker: that of Run, and in Run the first result cancels it.
Cancelled(w) == cancelled \/ \E v \in Workers : worker[v] = "ended"

Reading(w, step) == worker[w] \in Scans /\ scan[w].step = step

WatcherInit ==
  /\ fast \in Modes
  /\ worker = [w \in Workers |-> "off"]
  /\ scan = [w \in Workers |-> Idle]
  /\ seen = NothingSeen
  /\ queued = {} /\ cursor = NoBlock
  /\ cancelled = FALSE /\ degraded = TRUE /\ errors = 0

-----------------------------------------------------------------------------
(* Both scans: the head, and the end *)

Continue(w, s) == scan' = [scan EXCEPT ![w] = s] /\ UNCHANGED worker

\* The scan returns nil: the first one of live is followed by the ready callback.
Finish(w) ==
  /\ scan' = [scan EXCEPT ![w] = Idle]
  /\ worker' = [worker EXCEPT ![w] = IF @ = "first" THEN "ready" ELSE "loop"]

\* Mutant of WithHead: a height that was seen counts, whatever the block.
WithHeadByHeight(w, b) ==
  IF IsFast(w)
  THEN IF seen[Number[b]] # NoBlock
       THEN Finish(w)
       ELSE Continue(w, ScanAt("walk", b, Number[b], b))
  ELSE Continue(w, ScanAt("cursor", b, 0, NoBlock))

\* The scan has its head b.
WithHead(w, b) ==
  IF IsFast(w)
  THEN IF seen[Number[b]] = b
       THEN Finish(w)
       ELSE Continue(w, ScanAt("walk", b, Number[b], b))
  ELSE Continue(w, ScanAt("cursor", b, 0, NoBlock))

\* commonHead: the first collection, for the latest or the finalized head.
ReadHeads(w) ==
  /\ Reading(w, "heads")
  /\ LET heads == IF IsFast(w) THEN latest ELSE finalized
     IN  \/ \E b \in AgreedHead(heads) : WithHead(w, b)
         \/ /\ AgreedHead(heads) = {}
            /\ \E n \in LowestHead(heads) : Continue(w, ScanAt("common", NoBlock, n, NoBlock))
  /\ UNCHANGED <<fast, seen, queued, cursor, cancelled, degraded, errors>>

\* commonHead: the second one, at the lowest height named in the first.
ReadCommon(w) ==
  /\ Reading(w, "common")
  /\ \E b \in Header(scan[w].number) : WithHead(w, b)
  /\ UNCHANGED <<fast, seen, queued, cursor, cancelled, degraded, errors>>

-----------------------------------------------------------------------------
(* The finalized scan *)

\* scan verifies that the cursor is still canonical and has not overtaken finality.
CursorStands(w) ==
  /\ cursor \in Header(Number[cursor])
  /\ Number[scan[w].head] >= Number[cursor]

CheckCursor(w) ==
  /\ Reading(w, "cursor")
  /\ LET head == scan[w].head
     IN  \/ /\ cursor = NoBlock
            /\ Continue(w, ScanAt("walk", head, First(Number[head]), NoBlock))
         \/ /\ cursor # NoBlock /\ CursorStands(w)
            /\ IF Number[head] = Number[cursor]
               THEN Finish(w)
               ELSE Continue(w, ScanAt("walk", head, Number[cursor] + 1, cursor))
  /\ UNCHANGED <<fast, seen, queued, cursor, cancelled, degraded, errors>>

\* The block the loop of scan may commit next.
NextFinal(w) ==
  {b \in Header(scan[w].number) : scan[w].expected \in {NoBlock, Parent[b]}}

CommitBlock(w) ==
  /\ Reading(w, "walk") /\ ~IsFast(w)
  /\ \E b \in NextFinal(w) :
       /\ cursor' = b
       /\ IF scan[w].number = Number[scan[w].head]
          THEN Finish(w)
          ELSE Continue(w, ScanAt("walk", scan[w].head, scan[w].number + 1, b))
  /\ UNCHANGED <<fast, seen, queued, cancelled, degraded, errors>>

-----------------------------------------------------------------------------
(* The fast scan *)

\* The block at the current height; it must be the parent of the one above.
NextFast(w) ==
  IF scan[w].number = Number[scan[w].head] THEN {scan[w].head}
  ELSE Header(scan[w].number) \cap {scan[w].expected}

\* Only the window of the head stays in the cache.
Trimmed(s, head) ==
  [n \in Heights |-> IF n \in First(Number[head])..Number[head] THEN s[n] ELSE NoBlock]

\* The walk meets a block it has seen.
MeetSeen(w) ==
  /\ Reading(w, "walk") /\ IsFast(w)
  /\ \E b \in NextFast(w) : seen[scan[w].number] = b
  /\ seen' = Trimmed(seen, scan[w].head)
  /\ Finish(w)
  /\ UNCHANGED <<fast, queued, cursor, cancelled, degraded, errors>>

\* The logs of a block are put, then the block is marked.
WalkBlock(w) ==
  /\ Reading(w, "walk") /\ IsFast(w)
  /\ \E b \in NextFast(w) :
       LET n == scan[w].number
           marked == [seen EXCEPT ![n] = b]
       IN  /\ seen[n] # b
           /\ queued' = queued \cup {b}
           /\ \/ /\ n = First(Number[scan[w].head])
                 /\ seen' = Trimmed(marked, scan[w].head)
                 /\ Finish(w)
              \/ /\ n # First(Number[scan[w].head])
                 /\ seen' = marked
                 /\ Continue(w, ScanAt("walk", scan[w].head, n - 1, Parent[b]))
  /\ UNCHANGED <<fast, cursor, cancelled, degraded, errors>>

-----------------------------------------------------------------------------
(* The workers around the scans *)

\* The next read of the scan cannot succeed as the providers stand.
Refused(w) ==
  \/ Reading(w, "common") /\ Header(scan[w].number) = {}
  \/ Reading(w, "cursor") /\ cursor # NoBlock /\ ~CursorStands(w)
  \/ Reading(w, "walk") /\ (IF IsFast(w) THEN NextFast(w) ELSE NextFinal(w)) = {}

Ends(w) ==
  /\ worker' = [worker EXCEPT ![w] = "ended"]
  /\ scan' = [scan EXCEPT ![w] = Idle]

\* Mutant of ScanFails: the loop goes on after an error, with the cache as it is.
ScanErrorIgnored(w) ==
  /\ worker[w] \in Scans
  /\ \/ (Refused(w) \/ Cancelled(w)) /\ UNCHANGED errors
     \/ errors < MaxErrors /\ errors' = errors + 1
  /\ Finish(w)
  /\ UNCHANGED <<fast, seen, queued, cursor, cancelled, degraded>>

\* An error of a scan, of its store operations or of the context ends the worker.
ScanFails(w) ==
  /\ worker[w] \in Scans
  /\ \/ (Refused(w) \/ Cancelled(w)) /\ UNCHANGED errors
     \/ errors < MaxErrors /\ errors' = errors + 1
  /\ Ends(w)
  /\ UNCHANGED <<fast, seen, queued, cursor, cancelled, degraded>>

\* The ready callback clears the condition, whatever has become of the context.
Ready ==
  /\ worker["live"] = "ready"
  /\ worker' = [worker EXCEPT !["live"] = "subscribe"]
  /\ degraded' = FALSE
  /\ UNCHANGED <<fast, scan, seen, queued, cursor, cancelled, errors>>

\* watchSubscriptions scans once more when it has its subscription; without one the
\* worker polls.
Subscribe ==
  /\ worker["live"] = "subscribe" /\ ~Cancelled("live")
  /\ \/ /\ worker' = [worker EXCEPT !["live"] = "again"]
        /\ scan' = [scan EXCEPT !["live"] = Begin]
     \/ /\ worker' = [worker EXCEPT !["live"] = "loop"]
        /\ UNCHANGED scan
  /\ UNCHANGED <<fast, seen, queued, cursor, cancelled, degraded, errors>>

\* A tick, a head or, in fast mode, a log that was not removed starts a scan.
LoopScans(w) ==
  /\ worker[w] = "loop"
  /\ worker' = [worker EXCEPT ![w] = "again"]
  /\ scan' = [scan EXCEPT ![w] = Begin]
  /\ UNCHANGED <<fast, seen, queued, cursor, cancelled, degraded, errors>>

\* The context ends the wait; so does a lost subscription, or an error of the ready
\* callback, of observeLog or of reconcile.
LoopEnds(w) ==
  /\ \/ worker[w] \in {"subscribe", "loop"} /\ Cancelled(w) /\ UNCHANGED errors
     \/ worker[w] \in {"ready", "loop"} /\ errors < MaxErrors /\ errors' = errors + 1
  /\ Ends(w)
  /\ UNCHANGED <<fast, seen, queued, cursor, cancelled, degraded>>

\* A read whose context is cancelled fails (collectProviders looks at it after the call),
\* and only a read makes a scan go on.
Step(w) ==
  /\ worker[w] \in Scans \cup {"loop"} /\ ~Cancelled(w)
  /\ \/ ReadHeads(w)
     \/ ReadCommon(w)
     \/ CheckCursor(w)
     \/ CommitBlock(w)
     \/ MeetSeen(w)
     \/ WalkBlock(w)
     \/ LoopScans(w)

\* Run has returned: both of its workers have.
Returned == worker["live"] = "ended" /\ (fast => worker["backfill"] = "ended")
=============================================================================
