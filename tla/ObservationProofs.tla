-------------------------- MODULE ObservationProofs --------------------------
(***************************************************************************)
(* What the daemon knows of a network and what it tells its operators.     *)
(*                                                                         *)
(* First a network, for any tree of blocks, any providers, any lookback    *)
(* and any helpers: the cache of the fast scanner is one unbroken branch   *)
(* between scans, and a network without a session is reported degraded.    *)
(* The first rests on what a scan in progress has built so far (Walked)    *)
(* and on what it has not touched yet (Linked below it).                   *)
(*                                                                         *)
(* Then the alerts, for any callers, faults and crashes: what the sink was *)
(* told last is what the alert is, and the state file is one that          *)
(* loadState accepts.                                                      *)
(***************************************************************************)
EXTENDS NetworkGeneration, AlertManager, TLAPS

MaybeBlocks == Blocks \cup {NoBlock}

Places == Scans \cup {"off", "ready", "subscribe", "loop", "ended"}

ScanRecords ==
  [step : {"idle", "heads", "common", "cursor", "walk"}, head : MaybeBlocks,
   number : Int, expected : MaybeBlocks]

NetworkTypeOK ==
  /\ worker \in [Workers -> Places]
  /\ scan \in [Workers -> ScanRecords]
  /\ \A w \in Workers : scan[w].step \in {"cursor", "walk"} => scan[w].head \in Blocks
  /\ seen \in [Heights -> MaybeBlocks]
  /\ helper \in [Helpers -> {"off", "running", "ended"}]
  /\ cursor \in MaybeBlocks

\* Workers exist only in a generation, and backfill only in fast mode.
WorkersInGeneration ==
  /\ ~up => /\ \A w \in Workers : worker[w] = "off"
            /\ \A h \in Helpers : helper[h] = "off"
  /\ ~fast => worker["backfill"] = "off"

\* The entries of s up to height top are one piece of one branch.
Linked(s, top) ==
  \A m, n \in Heights :
    m < n /\ n <= top /\ s[m] # NoBlock /\ s[n] # NoBlock =>
      s[n - 1] # NoBlock /\ s[n - 1] = Parent[s[n]]

\* A fast scan in progress: the heights above r.number are done, down from the head.
Walked(s, r) ==
  /\ r.head \in Blocks
  /\ r.number \in First(Number[r.head])..Number[r.head]
  /\ r.expected \in Blocks /\ Number[r.expected] = r.number
  /\ r.number = Number[r.head] => r.expected = r.head
  /\ \A m \in Heights : r.number < m /\ m <= Number[r.head] =>
       /\ s[m] # NoBlock
       /\ Parent[s[m]] = IF m = r.number + 1 THEN r.expected ELSE s[m - 1]

CacheInv ==
  fast /\ worker["live"] \notin {"ended", "off"} =>
    /\ \A n \in Heights : seen[n] # NoBlock => Number[seen[n]] = n /\ seen[n] \in queued
    /\ worker["live"] \in Scans => scan["live"].step # "cursor"
    /\ IF worker["live"] \in Scans /\ scan["live"].step = "walk"
       THEN Walked(seen, scan["live"]) /\ Linked(seen, scan["live"].number)
       ELSE Linked(seen, MaxNumber)

NetworkInv ==
  /\ NetworkTypeOK
  /\ WorkersInGeneration
  /\ HealthyMeansSession
  /\ CacheInv
-----------------------------------------------------------------------------
(* Heights.                                                                *)

LEMMA HeightsAreNumbers ==
  /\ MaxNumber \in Int
  /\ \A n \in Heights : n \in Int /\ 0 <= n /\ n <= MaxNumber
  /\ \A n \in Int : 0 <= n /\ n <= MaxNumber => n \in Heights
BY QuorumConstants DEF Heights

LEMMA BlocksHaveHeights == \A b \in Blocks : b # NoBlock /\ Number[b] \in Heights
BY QuorumConstants

\* The window of lookbackBlocks below a height has its oldest height.
LEMMA WindowStarts == \A n \in Heights : First(n) \in Int /\ 0 <= First(n) /\ First(n) <= n
BY HeightsAreNumbers, WatcherConstants DEF First

-----------------------------------------------------------------------------
(* What the steps do to the types and to the workers.                      *)

LEMMA NetworkStart == NetworkInit => NetworkInv
<1> SUFFICES ASSUME NetworkInit
             PROVE  NetworkInv
  OBVIOUS
<1> USE DEF NetworkInit, WatcherInit
<1>1. NetworkTypeOK
  BY DEF NetworkTypeOK, Workers, Places, Scans, ScanRecords, ScanAt, Idle, MaybeBlocks, NothingSeen
<1>2. WorkersInGeneration /\ HealthyMeansSession
  BY DEF WorkersInGeneration, Workers, HealthyMeansSession
<1>3. CacheInv
  BY DEF CacheInv, Workers
<1>4. QED
  BY <1>1, <1>2, <1>3 DEF NetworkInv

\* A scan that goes on with a well-formed record, or ends, leaves the types as they are.
LEMMA ScanMoves ==
  ASSUME NetworkTypeOK, NEW w \in Workers,
         \/ Finish(w)
         \/ Ends(w)
         \/ \E r \in ScanRecords :
              (r.step \in {"cursor", "walk"} => r.head \in Blocks) /\ Continue(w, r)
  PROVE  /\ worker' \in [Workers -> Places]
         /\ scan' \in [Workers -> ScanRecords]
         /\ \A v \in Workers : scan'[v].step \in {"cursor", "walk"} => scan'[v].head \in Blocks
<1> DEFINE Good(r) == r \in ScanRecords /\ (r.step \in {"cursor", "walk"} => r.head \in Blocks)
<1>1. /\ worker \in [Workers -> Places] /\ scan \in [Workers -> ScanRecords]
      /\ \A v \in Workers : Good(scan[v])
  BY DEF NetworkTypeOK
<1>2. Good(Idle)
  BY DEF Idle, ScanAt, ScanRecords, MaybeBlocks
<1> HIDE DEF Good
<1>3. CASE Finish(w) \/ Ends(w)
  BY <1>1, <1>2, <1>3 DEF Finish, Ends, Places, Good
<1>4. CASE \E r \in ScanRecords : Good(r) /\ Continue(w, r)
  BY <1>1, <1>4 DEF Continue, Good
<1>5. QED
  BY <1>3, <1>4 DEF Good

LEMMA StepTypes ==
  ASSUME NetworkTypeOK, NEW w \in Workers, Step(w)
  PROVE  /\ worker' \in [Workers -> Places]
         /\ scan' \in [Workers -> ScanRecords]
         /\ \A v \in Workers : scan'[v].step \in {"cursor", "walk"} => scan'[v].head \in Blocks
         /\ seen' \in [Heights -> MaybeBlocks]
         /\ cursor' \in MaybeBlocks
         /\ UNCHANGED <<fast, cancelled, degraded>>
<1> USE DEF NetworkTypeOK
<1> DEFINE Good(r) == r \in ScanRecords /\ (r.step \in {"cursor", "walk"} => r.head \in Blocks)
<1>1. ASSUME NEW b \in Blocks, WithHead(w, b)
      PROVE  Finish(w) \/ \E r \in ScanRecords : Good(r) /\ Continue(w, r)
  BY <1>1, QuorumConstants DEF Heights, ScanRecords, MaybeBlocks, ScanAt, WithHead
<1>2. CASE ReadHeads(w)
  <2>1. PICK heads : heads \in {latest, finalized} /\
          \/ \E b \in AgreedHead(heads) : WithHead(w, b)
          \/ \E n \in LowestHead(heads) : Continue(w, ScanAt("common", NoBlock, n, NoBlock))
    BY <1>2 DEF ReadHeads
  <2>2. CASE \E b \in AgreedHead(heads) : WithHead(w, b)
    BY <2>2, <1>1, <1>2, ScanMoves DEF AgreedHead, ReadHeads
  <2>3. ASSUME NEW n \in LowestHead(heads), Continue(w, ScanAt("common", NoBlock, n, NoBlock))
        PROVE  Good(ScanAt("common", NoBlock, n, NoBlock))
    BY QuorumConstants DEF LowestHead, Heights, ScanRecords, ScanAt, MaybeBlocks
  <2>4. CASE \E n \in LowestHead(heads) : Continue(w, ScanAt("common", NoBlock, n, NoBlock))
    BY <2>4, <2>3, <1>2, ScanMoves DEF ReadHeads
  <2>5. QED
    BY <2>1, <2>2, <2>4
<1>3. CASE ReadCommon(w)
  BY <1>3, <1>1, ScanMoves DEF ReadCommon, Header
<1>4. CASE CheckCursor(w)
  BY <1>4, QuorumConstants, WatcherConstants, ScanMoves DEF CheckCursor, Reading, First,
     Heights, ScanRecords, ScanAt, MaybeBlocks
<1>5. CASE CommitBlock(w)
  BY <1>5, ScanMoves DEF CommitBlock, Reading, ScanRecords, ScanAt, MaybeBlocks, NextFinal,
     Header
<1>6. CASE MeetSeen(w)
  BY <1>6, ScanMoves DEF MeetSeen, Trimmed, MaybeBlocks
<1>7. CASE WalkBlock(w)
  <2>1. scan[w].head \in Blocks /\ scan[w] \in ScanRecords
    BY <1>7 DEF WalkBlock, Reading
  <2>2. PICK b \in NextFast(w) :
          LET n == scan[w].number
              marked == [seen EXCEPT ![n] = b]
          IN  \/ seen' = Trimmed(marked, scan[w].head) /\ Finish(w)
              \/ seen' = marked /\ Continue(w, ScanAt("walk", scan[w].head, n - 1, Parent[b]))
    BY <1>7, Zenon DEF WalkBlock
  <2>3. b \in Blocks
    BY <2>1 DEF NextFast, Header
  <2>4. Parent[b] \in MaybeBlocks
    BY <2>3, QuorumConstants DEF MaybeBlocks
  <2>5. Good(ScanAt("walk", scan[w].head, scan[w].number - 1, Parent[b]))
    BY <2>1, <2>4 DEF ScanRecords, ScanAt, MaybeBlocks
  <2>6. seen' \in [Heights -> MaybeBlocks]
    BY <2>2, <2>3 DEF Trimmed, MaybeBlocks
  <2>7. Finish(w) \/ \E r \in ScanRecords : Good(r) /\ Continue(w, r)
    BY <2>2, <2>5
  <2>8. QED
    BY <1>7, <2>6, <2>7, ScanMoves DEF WalkBlock
<1>8. CASE LoopScans(w)
  BY <1>8 DEF LoopScans, Begin, ScanAt, Places, Scans, ScanRecords, MaybeBlocks
<1>9. QED
  BY <1>2, <1>3, <1>4, <1>5, <1>6, <1>7, <1>8 DEF Step

\* Every step keeps the types.
LEMMA TypesKept == NetworkTypeOK /\ [NetworkNext]_networkVars => NetworkTypeOK'
<1> SUFFICES ASSUME NetworkTypeOK, [NetworkNext]_networkVars
             PROVE  NetworkTypeOK'
  OBVIOUS
<1> USE DEF NetworkTypeOK
<1>1. CASE ProvidersMove
  BY <1>1 DEF ProvidersMove, watcherVars, generationVars
<1>2. CASE WatcherRuns
  <2>1. UNCHANGED helper
    BY <1>2 DEF WatcherRuns, generationVars
  <2>2. ASSUME NEW w \in Workers, Step(w)
        PROVE  NetworkTypeOK'
    BY <2>1, <2>2, StepTypes
  <2>3. ASSUME NEW w \in Workers, ScanFails(w) \/ LoopEnds(w)
        PROVE  NetworkTypeOK'
    BY <2>1, <2>3, ScanMoves DEF ScanFails, LoopEnds
  <2>4. CASE Ready
    BY <2>1, <2>4 DEF Ready, Workers, Places
  <2>5. CASE Subscribe
    BY <2>1, <2>5 DEF Subscribe, Workers, Places, Scans, Begin, ScanAt, ScanRecords, MaybeBlocks
  <2>6. QED
    BY <1>2, <2>2, <2>3, <2>4, <2>5 DEF WatcherRuns
<1>3. CASE StartGeneration
  BY <1>3 DEF StartGeneration, Workers, Places, Scans, Begin, Idle, ScanAt, ScanRecords, MaybeBlocks, NothingSeen
<1>4. CASE StartFails
  BY <1>4 DEF StartFails, generationVars
<1>5. ASSUME NEW h \in Helpers, HelperEnds(h) \/ HelperReports(h)
      PROVE  NetworkTypeOK'
  BY <1>5 DEF HelperEnds, HelperReports, generationVars
<1>6. CASE FirstResult
  BY <1>6 DEF FirstResult, generationVars
<1>7. CASE GenerationEnds
  BY <1>7 DEF GenerationEnds, Places
<1>8. CASE UNCHANGED networkVars
  BY <1>8 DEF networkVars, watcherVars, generationVars
<1>9. QED
  BY <1>1, <1>2, <1>3, <1>4, <1>5, <1>6, <1>7, <1>8 DEF NetworkNext

\* A step of the watcher makes no worker out of nothing.
LEMMA WatcherStarts ==
  ASSUME NetworkTypeOK, WatcherRuns
  PROVE  /\ \A w \in Workers : worker[w] = "off" => worker'[w] = "off"
         /\ UNCHANGED <<fast, up, helper>>
         /\ (\A w \in Workers : worker[w] = "off") => UNCHANGED degraded
<1> USE DEF NetworkTypeOK
<1>1. ASSUME NEW w \in Workers, Step(w)
      PROVE  /\ worker[w] # "off"
             /\ \A v \in Workers \ {w} : worker'[v] = worker[v]
             /\ UNCHANGED <<fast, degraded>>
  <2>1. worker[w] # "off"
    BY <1>1 DEF Step, Scans
  <2>2. \A v \in Workers \ {w} : worker'[v] = worker[v]
    BY <1>1, Zenon DEF Step, ReadHeads, ReadCommon, CheckCursor, CommitBlock, MeetSeen, WalkBlock,
                LoopScans, WithHead, Continue, Finish
  <2>3. QED
    BY <1>1, <2>1, <2>2, StepTypes
<1>2. ASSUME NEW w \in Workers, ScanFails(w) \/ LoopEnds(w)
      PROVE  /\ worker[w] # "off"
             /\ \A v \in Workers \ {w} : worker'[v] = worker[v]
             /\ UNCHANGED <<fast, degraded>>
  BY <1>2 DEF ScanFails, LoopEnds, Ends, Scans
<1>3. ASSUME Ready \/ Subscribe
      PROVE  /\ worker["live"] # "off"
             /\ worker'["backfill"] = worker["backfill"]
             /\ UNCHANGED fast
  BY <1>3 DEF Ready, Subscribe, Workers
<1>4. UNCHANGED <<up, helper>>
  BY DEF WatcherRuns, generationVars
<1>5. QED
  BY <1>1, <1>2, <1>3, <1>4 DEF WatcherRuns, Workers

\* Every step keeps the workers inside a generation, and health with it.
LEMMA WorkersKept ==
  NetworkInv /\ [NetworkNext]_networkVars => WorkersInGeneration' /\ HealthyMeansSession'
<1> SUFFICES ASSUME NetworkTypeOK, WorkersInGeneration, HealthyMeansSession, [NetworkNext]_networkVars
             PROVE  WorkersInGeneration' /\ HealthyMeansSession'
  BY DEF NetworkInv
<1> USE DEF WorkersInGeneration, HealthyMeansSession
<1>1. CASE ProvidersMove
  BY <1>1 DEF ProvidersMove, watcherVars, generationVars
<1>2. CASE WatcherRuns
  BY <1>2, WatcherStarts DEF Workers
<1>3. CASE StartGeneration
  BY <1>3 DEF StartGeneration, Workers
<1>4. CASE StartFails
  BY <1>4 DEF StartFails, generationVars
<1>5. ASSUME NEW h \in Helpers, HelperEnds(h) \/ HelperReports(h)
      PROVE  WorkersInGeneration' /\ HealthyMeansSession'
  BY <1>5 DEF HelperEnds, HelperReports, generationVars
<1>6. CASE FirstResult
  BY <1>6 DEF FirstResult, generationVars
<1>7. CASE GenerationEnds
  BY <1>7 DEF GenerationEnds, Joined, Returned, Workers, NetworkTypeOK
<1>8. CASE UNCHANGED networkVars
  BY <1>8 DEF networkVars, watcherVars, generationVars
<1>9. QED
  BY <1>1, <1>2, <1>3, <1>4, <1>5, <1>6, <1>7, <1>8, Zenon DEF NetworkNext

-----------------------------------------------------------------------------
(* What the steps do to the cache of the fast scanner.                     *)

\* Blocks of the cache are kept under their height and are queued.
Recorded(s, q) == \A n \in Heights : s[n] # NoBlock => Number[s[n]] = n /\ s[n] \in q

\* A finished walk leaves, within its window, one piece of one branch.
LEMMA TrimmedIsLinked ==
  ASSUME NEW s \in [Heights -> MaybeBlocks], NEW head \in Blocks, NEW low \in Int,
         First(Number[head]) <= low,
         low = First(Number[head]) \/ Linked(s, low),
         \A m \in Heights : low < m /\ m <= Number[head] =>
           s[m - 1] # NoBlock /\ s[m - 1] = Parent[s[m]]
  PROVE  Linked(Trimmed(s, head), MaxNumber)
<1> SUFFICES ASSUME NEW m \in Heights, NEW n \in Heights, m < n,
                    Trimmed(s, head)[m] # NoBlock, Trimmed(s, head)[n] # NoBlock
             PROVE  /\ Trimmed(s, head)[n - 1] # NoBlock
                    /\ Trimmed(s, head)[n - 1] = Parent[Trimmed(s, head)[n]]
  BY DEF Linked
<1> DEFINE window == First(Number[head])..Number[head]
<1>1. m \in window /\ n \in window /\ n - 1 \in window /\ n - 1 \in Heights
  BY HeightsAreNumbers, BlocksHaveHeights, WindowStarts DEF Trimmed
<1>2. Trimmed(s, head)[m] = s[m] /\ Trimmed(s, head)[n] = s[n] /\ Trimmed(s, head)[n - 1] = s[n - 1]
  BY <1>1 DEF Trimmed
<1>3. s[n - 1] # NoBlock /\ s[n - 1] = Parent[s[n]]
  BY <1>1, <1>2, HeightsAreNumbers, BlocksHaveHeights DEF Linked
<1>4. QED
  BY <1>2, <1>3

LEMMA TrimmedIsRecorded ==
  ASSUME NEW s \in [Heights -> MaybeBlocks], NEW head \in Blocks, NEW q, Recorded(s, q)
  PROVE  Recorded(Trimmed(s, head), q)
BY DEF Recorded, Trimmed

\* The walk at a block it has seen: everything below is linked already.
LEMMA MeetSeenKeeps ==
  ASSUME NetworkTypeOK, CacheInv, fast, MeetSeen("live")
  PROVE  Recorded(seen', queued') /\ Linked(seen', MaxNumber)
<1> DEFINE r == scan["live"]
<1>1. /\ r.step = "walk" /\ Walked(seen, r) /\ Linked(seen, r.number) /\ Recorded(seen, queued)
      /\ seen \in [Heights -> MaybeBlocks]
  BY DEF MeetSeen, Reading, CacheInv, Recorded, Scans, NetworkTypeOK
<1>2. seen[r.number] = r.expected /\ r.expected \in Blocks
  BY <1>1 DEF MeetSeen, NextFast, Walked
<1> HIDE DEF r
<1>3. /\ r.head \in Blocks /\ r.number \in Int /\ First(Number[r.head]) <= r.number
      /\ Number[r.head] \in Heights /\ 0 <= r.number
  BY <1>1, BlocksHaveHeights, HeightsAreNumbers, WindowStarts DEF Walked
<1>4. \A m \in Heights : r.number < m /\ m <= Number[r.head] =>
        seen[m - 1] # NoBlock /\ seen[m - 1] = Parent[seen[m]]
  BY <1>1, <1>2, <1>3, BlocksHaveHeights, HeightsAreNumbers DEF Walked
<1>5. Linked(Trimmed(seen, r.head), MaxNumber)
  BY <1>1, <1>3, <1>4, TrimmedIsLinked
<1>6. Recorded(Trimmed(seen, r.head), queued)
  BY <1>1, <1>3, TrimmedIsRecorded
<1>7. seen' = Trimmed(seen, r.head) /\ queued' = queued
  BY DEF MeetSeen, r
<1>8. QED
  BY <1>5, <1>6, <1>7

\* The walk at a new block: it joins the part above, and the walk ends or goes on below.
LEMMA WalkBlockKeeps ==
  ASSUME NetworkTypeOK, CacheInv, fast, WalkBlock("live")
  PROVE  /\ Recorded(seen', queued')
         /\ \/ Finish("live") /\ Linked(seen', MaxNumber)
            \/ /\ UNCHANGED worker /\ worker["live"] \in Scans
               /\ scan'["live"].step = "walk"
               /\ Walked(seen', scan'["live"]) /\ Linked(seen', scan'["live"].number)
<1> DEFINE r == scan["live"]
           n == r.number
<1>1. /\ r.step = "walk" /\ Walked(seen, r) /\ Linked(seen, n) /\ Recorded(seen, queued)
      /\ seen \in [Heights -> MaybeBlocks] /\ worker["live"] \in Scans
  BY DEF WalkBlock, Reading, CacheInv, Recorded, Scans, NetworkTypeOK
<1>2. PICK b \in NextFast("live") :
        /\ queued' = queued \cup {b}
        /\ \/ /\ n = First(Number[r.head])
              /\ seen' = Trimmed([seen EXCEPT ![n] = b], r.head)
              /\ Finish("live")
           \/ /\ n # First(Number[r.head])
              /\ seen' = [seen EXCEPT ![n] = b]
              /\ Continue("live", ScanAt("walk", r.head, n - 1, Parent[b]))
  BY DEF WalkBlock
<1>3. b = r.expected /\ b \in Blocks /\ Number[b] = n /\ b # NoBlock
  <2>1. b = r.expected \/ (b = r.head /\ n = Number[r.head])
    BY DEF NextFast
  <2> HIDE DEF r
  <2>2. QED
    BY <1>1, <2>1, BlocksHaveHeights DEF Walked
<1> HIDE DEF r, n
<1>4. /\ r.head \in Blocks /\ n \in Heights /\ n \in Int /\ Number[r.head] \in Int
      /\ First(Number[r.head]) \in Int /\ First(Number[r.head]) <= n /\ n <= Number[r.head]
      /\ 0 <= First(Number[r.head]) /\ Number[r.head] <= MaxNumber
  BY <1>1, BlocksHaveHeights, HeightsAreNumbers, WindowStarts DEF Walked, n
<1> DEFINE marked == [seen EXCEPT ![n] = b]
<1>5. /\ marked \in [Heights -> MaybeBlocks]
      /\ marked[n] = b
      /\ \A m \in Heights \ {n} : marked[m] = seen[m]
  BY <1>1, <1>3, <1>4 DEF MaybeBlocks
<1>6. \/ /\ n = First(Number[r.head])
         /\ seen' = Trimmed(marked, r.head)
         /\ Finish("live")
      \/ /\ n # First(Number[r.head])
         /\ seen' = marked
         /\ Continue("live", ScanAt("walk", r.head, n - 1, Parent[b]))
  BY <1>2, Zenon
<1> HIDE DEF marked
<1>7. Recorded(marked, queued')
  BY <1>1, <1>2, <1>3, <1>5 DEF Recorded
<1>8. \A m \in Heights : n < m /\ m <= Number[r.head] =>
        /\ m - 1 \in Heights /\ marked[m] # NoBlock
        /\ marked[m - 1] # NoBlock /\ marked[m - 1] = Parent[marked[m]]
  <2> SUFFICES ASSUME NEW m \in Heights, n < m, m <= Number[r.head]
               PROVE  /\ m - 1 \in Heights /\ marked[m] # NoBlock
                      /\ marked[m - 1] # NoBlock /\ marked[m - 1] = Parent[marked[m]]
    OBVIOUS
  <2>1. m \in Int /\ m # n /\ m - 1 \in Heights /\ 0 <= n
    BY <1>4, HeightsAreNumbers
  <2>2. /\ marked[m] = seen[m] /\ seen[m] # NoBlock
        /\ Parent[seen[m]] = IF m = n + 1 THEN b ELSE seen[m - 1]
    BY <1>1, <1>3, <1>5, <2>1 DEF Walked, n
  <2>3. CASE m = n + 1
    BY <1>3, <1>4, <1>5, <2>1, <2>2, <2>3
  <2>4. CASE m # n + 1
    BY <1>1, <1>4, <1>5, <2>1, <2>2, <2>4 DEF Walked, n
  <2>5. QED
    BY <2>3, <2>4
<1>9. \A k \in Int : k < n => Linked(marked, k)
  BY <1>1, <1>4, <1>5, HeightsAreNumbers DEF Linked
<1>10. CASE n = First(Number[r.head])
  BY <1>4, <1>5, <1>6, <1>7, <1>8, <1>10, TrimmedIsLinked, TrimmedIsRecorded, Zenon
<1>11. CASE n # First(Number[r.head])
  <2>1. seen' = marked /\ Continue("live", ScanAt("walk", r.head, n - 1, Parent[b]))
    BY <1>6, <1>11
  <2>2. scan'["live"] = ScanAt("walk", r.head, n - 1, Parent[b]) /\ UNCHANGED worker
    BY <2>1 DEF Continue, NetworkTypeOK, Workers
  <2>3. n > 0 /\ n - 1 \in First(Number[r.head])..Number[r.head] /\ n - 1 # Number[r.head]
    BY <1>4, <1>11
  <2>4. Parent[b] \in Blocks /\ Number[Parent[b]] = n - 1
    BY <1>3, <1>4, <2>3, QuorumConstants
  <2>5. \A m \in Heights : n - 1 < m /\ m <= Number[r.head] =>
          /\ marked[m] # NoBlock
          /\ Parent[marked[m]] = IF m = (n - 1) + 1 THEN Parent[b] ELSE marked[m - 1]
    <3> SUFFICES ASSUME NEW m \in Heights, n - 1 < m, m <= Number[r.head]
                 PROVE  /\ marked[m] # NoBlock
                        /\ Parent[marked[m]] = IF m = (n - 1) + 1 THEN Parent[b] ELSE marked[m - 1]
      OBVIOUS
    <3>1. m \in Int
      BY HeightsAreNumbers
    <3>2. CASE m = n
      BY <1>3, <1>4, <1>5, <3>2
    <3>3. CASE n < m
      BY <1>4, <1>8, <3>1, <3>3
    <3>4. QED
      BY <1>4, <3>1, <3>2, <3>3
  <2> DEFINE q == ScanAt("walk", r.head, n - 1, Parent[b])
  <2>6. q.step = "walk" /\ q.head = r.head /\ q.number = n - 1 /\ q.expected = Parent[b]
    BY DEF ScanAt
  <2>7. scan'["live"] = q
    BY <2>2
  <2> HIDE DEF q
  <2>8. Walked(seen', q)
    BY <1>4, <2>1, <2>3, <2>4, <2>5, <2>6 DEF Walked
  <2>9. n - 1 \in Int /\ n - 1 < n
    BY <1>4
  <2>10. Linked(seen', n - 1)
    BY <1>9, <2>1, <2>9
  <2>11. QED
    BY <1>1, <1>7, <2>1, <2>2, <2>6, <2>7, <2>8, <2>10, Zenon
<1>12. QED
  BY <1>10, <1>11

\* What the invariant asks of the cache in the next state.
CacheAfter ==
  /\ Recorded(seen', queued')
  /\ worker'["live"] \in Scans => scan'["live"].step # "cursor"
  /\ IF worker'["live"] \in Scans /\ scan'["live"].step = "walk"
     THEN Walked(seen', scan'["live"]) /\ Linked(seen', scan'["live"].number)
     ELSE Linked(seen', MaxNumber)

\* The end of a scan leaves no walk behind.
LEMMA FinishIsNoWalk ==
  ASSUME NetworkTypeOK, worker["live"] \in Scans, Finish("live")
  PROVE  worker'["live"] \notin Scans
BY DEF NetworkTypeOK, Finish, Scans, Workers

\* The head of a fast scan starts the walk over a cache that is linked.
LEMMA HeadKeeps ==
  ASSUME NetworkTypeOK, fast, worker["live"] \in Scans, NEW b \in Blocks, WithHead("live", b),
         Recorded(seen, queued), Linked(seen, MaxNumber), UNCHANGED <<seen, queued>>
  PROVE  CacheAfter
<1>1. CASE Finish("live")
  BY <1>1, FinishIsNoWalk DEF CacheAfter
<1>2. CASE Continue("live", ScanAt("walk", b, Number[b], b))
  <2>1. scan'["live"] = ScanAt("walk", b, Number[b], b)
    BY <1>2 DEF Continue, NetworkTypeOK, Workers
  <2>2. /\ Number[b] \in Heights /\ Number[b] \in Int /\ Number[b] <= MaxNumber
        /\ Number[b] \in First(Number[b])..Number[b]
    BY BlocksHaveHeights, HeightsAreNumbers, WindowStarts
  <2>3. \A m \in Heights : ~(Number[b] < m /\ m <= Number[b])
    BY <2>2, HeightsAreNumbers
  <2> DEFINE q == ScanAt("walk", b, Number[b], b)
  <2>4. q.step = "walk" /\ q.head = b /\ q.number = Number[b] /\ q.expected = b
    BY DEF ScanAt
  <2>5. scan'["live"] = q /\ UNCHANGED worker
    BY <1>2, <2>1 DEF Continue
  <2> HIDE DEF q
  <2>6. Walked(seen, q)
    BY <2>2, <2>3, <2>4 DEF Walked
  <2>7. Linked(seen, Number[b])
    BY <2>2, HeightsAreNumbers DEF Linked
  <2>8. QED
    BY <2>4, <2>5, <2>6, <2>7 DEF CacheAfter
<1>3. QED
  BY <1>1, <1>2 DEF WithHead, IsFast

\* Every step of the fast scanner keeps the cache.
LEMMA LiveStepKeeps ==
  ASSUME NetworkTypeOK, CacheInv, fast, Step("live")
  PROVE  CacheAfter
<1>1. worker["live"] \notin {"ended", "off"} /\ IsFast("live") /\ "live" \in Workers
  BY DEF Step, Scans, IsFast, Workers
<1>2. Recorded(seen, queued)
  BY <1>1 DEF CacheInv, Recorded
<1>3. ~(worker["live"] \in Scans /\ scan["live"].step = "walk") => Linked(seen, MaxNumber)
  BY <1>1 DEF CacheInv
<1>4. CASE ReadHeads("live")
  BY <1>1, <1>2, <1>3, <1>4, HeadKeeps DEF ReadHeads, Reading, Continue, ScanAt,
     NetworkTypeOK, CacheAfter, AgreedHead
<1>5. CASE ReadCommon("live")
  BY <1>2, <1>3, <1>5, HeadKeeps, Zenon DEF ReadCommon, Reading, Header
<1>6. ~CheckCursor("live")
  BY <1>1, Zenon DEF CheckCursor, Reading, CacheInv
<1>7. ~CommitBlock("live")
  BY <1>1, Zenon DEF CommitBlock
<1>8. CASE MeetSeen("live")
  BY <1>8, MeetSeenKeeps, FinishIsNoWalk DEF MeetSeen, Reading, CacheAfter
<1>9. CASE WalkBlock("live")
  BY <1>9, WalkBlockKeeps, FinishIsNoWalk, Zenon DEF WalkBlock, Reading, CacheAfter
<1>10. CASE LoopScans("live")
  BY <1>1, <1>2, <1>3, <1>10 DEF LoopScans, Scans, Begin, ScanAt, NetworkTypeOK, CacheAfter
<1>11. QED
  BY <1>4, <1>5, <1>6, <1>7, <1>8, <1>9, <1>10 DEF Step

\* A step that leaves the live worker and the cache alone keeps it.
LEMMA CacheUntouched ==
  ASSUME CacheInv, UNCHANGED <<fast, seen, queued>>,
         worker'["live"] = worker["live"], scan'["live"] = scan["live"]
  PROVE  CacheInv'
BY DEF CacheInv

LEMMA CacheFromAfter ==
  ASSUME CacheAfter
  PROVE  CacheInv'
BY DEF CacheAfter, CacheInv, Recorded

\* Every step keeps the cache.
LEMMA CacheKept == NetworkInv /\ [NetworkNext]_networkVars => CacheInv'
<1> SUFFICES ASSUME NetworkTypeOK, WorkersInGeneration, CacheInv, [NetworkNext]_networkVars
             PROVE  CacheInv'
  BY DEF NetworkInv
<1>1. CASE ProvidersMove
  BY <1>1, CacheUntouched DEF ProvidersMove, watcherVars
<1>2. CASE WatcherRuns
  <2>1. CASE Step("live")
    BY <2>1, LiveStepKeeps, CacheFromAfter, StepTypes, Zenon DEF CacheInv, Workers
  <2>2. CASE Step("backfill")
    <3>1. ~MeetSeen("backfill") /\ ~WalkBlock("backfill")
      BY DEF MeetSeen, WalkBlock, IsFast
    <3>2. UNCHANGED <<fast, seen, queued>>
      BY <2>2, <3>1, Zenon DEF Step, ReadHeads, ReadCommon, CheckCursor, CommitBlock, LoopScans
    <3>3. worker'["live"] = worker["live"] /\ scan'["live"] = scan["live"]
      BY <2>2, <3>1, Zenon DEF Step, ReadHeads, ReadCommon, CheckCursor, CommitBlock, LoopScans,
                        WithHead, Continue, Finish, NetworkTypeOK, Workers
    <3>4. QED
      BY <3>2, <3>3, CacheUntouched
  <2>3. ASSUME NEW w \in Workers, ScanFails(w) \/ LoopEnds(w)
        PROVE  CacheInv'
    BY <2>3, CacheUntouched, Zenon DEF ScanFails, LoopEnds, Ends, CacheInv, NetworkTypeOK,
       Workers
  <2>4. ASSUME Ready \/ Subscribe
        PROVE  CacheInv'
    <3>1. CASE ~fast
      BY <2>4, <3>1, Zenon DEF Ready, Subscribe, CacheInv
    <3>2. CASE fast
      <4>1. Recorded(seen, queued) /\ Linked(seen, MaxNumber) /\ UNCHANGED <<seen, queued>>
        BY <2>4, <3>2, Zenon DEF Ready, Subscribe, CacheInv, Scans, Recorded
      <4>2. worker'["live"] \in Scans => scan'["live"].step = "heads"
        BY <2>4 DEF Ready, Subscribe, Scans, Begin, ScanAt, NetworkTypeOK, Workers
      <4>3. QED
        BY <4>1, <4>2, CacheFromAfter, Zenon DEF CacheAfter
    <3>3. QED
      BY <3>1, <3>2
  <2>5. QED
    BY <1>2, <2>1, <2>2, <2>3, <2>4 DEF WatcherRuns, Workers
<1>3. CASE StartGeneration
  BY <1>3, CacheFromAfter DEF StartGeneration, Workers, Begin, ScanAt, Recorded, Linked,
     NothingSeen, CacheAfter
<1>4. CASE StartFails
  BY <1>4, CacheUntouched DEF StartFails
<1>5. ASSUME NEW h \in Helpers, HelperEnds(h) \/ HelperReports(h)
      PROVE  CacheInv'
  BY <1>5, CacheUntouched DEF HelperEnds, HelperReports
<1>6. CASE FirstResult
  BY <1>6, CacheUntouched DEF FirstResult
<1>7. CASE GenerationEnds
  BY <1>7 DEF GenerationEnds, Joined, Returned, CacheInv, Workers
<1>8. CASE UNCHANGED networkVars
  BY <1>8, CacheUntouched DEF networkVars, watcherVars
<1>9. QED
  BY <1>1, <1>2, <1>3, <1>4, <1>5, <1>6, <1>7, <1>8 DEF NetworkNext

-----------------------------------------------------------------------------
(* The theorems                                                            *)

LEMMA NetworkInvariant == NetworkSpec => []NetworkInv
<1>1. NetworkInv /\ [NetworkNext]_networkVars => NetworkInv'
  BY TypesKept, WorkersKept, CacheKept DEF NetworkInv
<1>2. QED
  BY NetworkStart, <1>1, PTL DEF NetworkSpec

\* Between scans fastSeen is one unbroken piece of one branch with all its logs queued,
\* for any tree of blocks, any number of providers and any lookback (scanFast).
THEOREM CacheStaysUnbroken == NetworkSpec => []FastSeenUnbroken
<1>1. NetworkInv => FastSeenUnbroken
  BY HeightsAreNumbers DEF NetworkInv, FastSeenUnbroken, CacheInv, Linked
<1>2. QED
  BY NetworkInvariant, <1>1, PTL

\* However many workers a generation has, none of their late reports outlives it: a
\* network without a session is degraded (supervise, runGeneration).
THEOREM HealthNeedsSession == NetworkSpec => []HealthyMeansSession
<1>1. NetworkInv => HealthyMeansSession
  BY DEF NetworkInv
<1>2. QED
  BY NetworkInvariant, <1>1, PTL

-----------------------------------------------------------------------------
(* The invariant of the alerts.                                            *)

CallFields == {"op", "at", "at_pc", "then", "alert"}
EntryFields == {"exists", "active", "lastNotified", "pendingState", "pendingAt"}

Delivery == {"notify", "settle", "unclaim"}

\* A call knows when it began, and goes on outside of the delivery.
CallsOK ==
  /\ DOMAIN calls = Callers
  /\ \A c \in Callers : /\ DOMAIN calls[c] = CallFields
                        /\ calls[c].then \notin Delivery
                        /\ calls[c].at_pc # "idle" => calls[c].at # 0

\* The entry in memory is the one in the file, and what is pending is its state.
EntryOK ==
  /\ DOMAIN entry = EntryFields /\ disk = entry
  /\ entry.active \in BOOLEAN /\ entry.exists \in BOOLEAN
  /\ entry.active => entry.exists
  /\ entry.pendingState \in States
  /\ entry.pendingState = "none" <=> entry.pendingAt = 0
  /\ entry.pendingState = "firing" => entry.active
  /\ entry.pendingState = "resolved" => ~entry.active
  /\ entry.exists => entry.lastNotified # 0 \/ entry.pendingState # "none"

Claiming(c) == calls[c].at_pc \in Delivery

\* One caller delivers, something stays pending meanwhile, and nobody else talks to
\* the sink.
ClaimsOK ==
  /\ \A c \in Callers : Claiming(c) => delivering /\ entry.pendingState # "none"
  /\ \A c, d \in Callers : Claiming(c) /\ Claiming(d) => c = d
  /\ \A c \in Callers : calls[c].at_pc = "settle" => sink = calls[c].alert.state

\* A process that is down runs no call, one that replays runs one.
ProcessOK ==
  /\ process \in {"down", "replaying", "up"}
  /\ process = "down" => \A c \in Callers : calls[c].at_pc = "idle"
  /\ process = "replaying" =>
       \A c, d \in Callers : calls[c].at_pc # "idle" /\ calls[d].at_pc # "idle" => c = d

ClockOK == now \in Nat \ {0}

AlertInv ==
  CallsOK /\ EntryOK /\ ClaimsOK /\ ProcessOK /\ ClockOK /\ SinkAgrees

LEMMA InvParts ==
  ASSUME AlertInv
  PROVE  CallsOK /\ EntryOK /\ ClaimsOK /\ ProcessOK /\ ClockOK /\ SinkAgrees
BY DEF AlertInv

-----------------------------------------------------------------------------
(* How a call moves.                                                       *)

\* Caller c moves to where; the others stay.
Moved(c, where, then, alert) ==
  /\ DOMAIN calls' = Callers /\ DOMAIN calls'[c] = CallFields
  /\ calls'[c].at_pc = where /\ calls'[c].at = calls[c].at
  /\ calls'[c].then = then /\ calls'[c].alert = alert
  /\ \A d \in Callers \ {c} : calls'[d] = calls[d]

LEMMA GotoMoves ==
  ASSUME CallsOK, NEW c \in Callers, NEW where, Goto(c, where)
  PROVE  Moved(c, where, calls[c].then, calls[c].alert)
<1> DEFINE r == [calls[c] EXCEPT !.at_pc = where]
<1>1. DOMAIN calls = Callers /\ DOMAIN calls[c] = CallFields
  BY DEF CallsOK
<1>2. calls' = [calls EXCEPT ![c] = r]
  BY Zenon DEF Goto
<1>3. /\ DOMAIN r = CallFields /\ r.at_pc = where /\ r.at = calls[c].at
      /\ r.then = calls[c].then /\ r.alert = calls[c].alert
  BY <1>1, Zenon DEF CallFields
<1> HIDE DEF r
<1>4. DOMAIN calls' = Callers /\ calls'[c] = r /\ \A d \in Callers \ {c} : calls'[d] = calls[d]
  BY <1>1, <1>2
<1>5. QED
  BY <1>3, <1>4 DEF Moved

LEMMA ThenMoves ==
  ASSUME CallsOK, NEW c \in Callers, NEW where, NEW then,
         calls' = [calls EXCEPT ![c].at_pc = where, ![c].then = then]
  PROVE  Moved(c, where, then, calls[c].alert)
<1> DEFINE q == [calls[c] EXCEPT !.at_pc = where]
           r == [q EXCEPT !.then = then]
<1>1. DOMAIN calls = Callers /\ DOMAIN calls[c] = CallFields
  BY DEF CallsOK
<1>2. calls' = [[calls EXCEPT ![c] = q] EXCEPT ![c].then = then]
  BY Zenon
<1>3. /\ DOMAIN q = CallFields /\ q.at_pc = where /\ q.at = calls[c].at
      /\ q.then = calls[c].then /\ q.alert = calls[c].alert
  BY <1>1, Zenon DEF CallFields
<1> HIDE DEF q
<1>4. DOMAIN r = CallFields /\ r.at_pc = q.at_pc /\ r.at = q.at /\ r.then = then /\ r.alert = q.alert
  BY <1>3, Zenon DEF CallFields
<1>5. [calls EXCEPT ![c] = q][c] = q /\ DOMAIN [calls EXCEPT ![c] = q] = Callers
      /\ \A d \in Callers \ {c} : [calls EXCEPT ![c] = q][d] = calls[d]
  BY <1>1
<1>6. calls' = [[calls EXCEPT ![c] = q] EXCEPT ![c] = r]
  BY <1>2, <1>5, Zenon
<1> HIDE DEF r
<1>7. DOMAIN calls' = Callers /\ calls'[c] = r /\ \A d \in Callers \ {c} : calls'[d] = calls[d]
  BY <1>1, <1>6, Zenon
<1>8. QED
  BY <1>3, <1>4, <1>7 DEF Moved

LEMMA AlertMoves ==
  ASSUME CallsOK, NEW c \in Callers, NEW where, NEW alert,
         calls' = [calls EXCEPT ![c].at_pc = where, ![c].alert = alert]
  PROVE  Moved(c, where, calls[c].then, alert)
<1> DEFINE q == [calls[c] EXCEPT !.at_pc = where]
           r == [q EXCEPT !.alert = alert]
<1>1. DOMAIN calls = Callers /\ DOMAIN calls[c] = CallFields
  BY DEF CallsOK
<1>2. calls' = [[calls EXCEPT ![c] = q] EXCEPT ![c].alert = alert]
  BY Zenon
<1>3. /\ DOMAIN q = CallFields /\ q.at_pc = where /\ q.at = calls[c].at
      /\ q.then = calls[c].then /\ q.alert = calls[c].alert
  BY <1>1, Zenon DEF CallFields
<1> HIDE DEF q
<1>4. DOMAIN r = CallFields /\ r.at_pc = q.at_pc /\ r.at = q.at /\ r.then = q.then /\ r.alert = alert
  BY <1>3, Zenon DEF CallFields
<1>5. [calls EXCEPT ![c] = q][c] = q /\ DOMAIN [calls EXCEPT ![c] = q] = Callers
      /\ \A d \in Callers \ {c} : [calls EXCEPT ![c] = q][d] = calls[d]
  BY <1>1
<1>6. calls' = [[calls EXCEPT ![c] = q] EXCEPT ![c] = r]
  BY <1>2, <1>5, Zenon
<1> HIDE DEF r
<1>7. DOMAIN calls' = Callers /\ calls'[c] = r /\ \A d \in Callers \ {c} : calls'[d] = calls[d]
  BY <1>1, <1>6, Zenon
<1>8. QED
  BY <1>3, <1>4, <1>7 DEF Moved

\* A call that is under way moves: the calls stay in shape.
LEMMA MovedCalls ==
  ASSUME CallsOK, NEW c \in Callers, NEW where, NEW then, NEW alert,
         Moved(c, where, then, alert), then \notin Delivery, calls[c].at_pc # "idle"
  PROVE  CallsOK'
BY DEF CallsOK, Moved

LEMMA MovedProcess ==
  ASSUME ProcessOK, NEW c \in Callers, NEW where, NEW then, NEW alert,
         Moved(c, where, then, alert), calls[c].at_pc # "idle", UNCHANGED process
  PROVE  ProcessOK'
BY DEF ProcessOK, Moved

\* After the step c does not deliver.
LEMMA MovedAway ==
  ASSUME ClaimsOK, NEW c \in Callers, NEW where, NEW then, NEW alert,
         Moved(c, where, then, alert), where \notin Delivery, UNCHANGED sink,
         \A d \in Callers \ {c} : Claiming(d) => delivering' /\ entry'.pendingState # "none"
  PROVE  ClaimsOK'
BY DEF Moved, Claiming, Delivery, ClaimsOK

\* Only c delivers.
LEMMA Alone ==
  ASSUME ClaimsOK, NEW c \in Callers, Claiming(c), NEW d \in Callers \ {c}
  PROVE  ~Claiming(d) /\ calls[d].at_pc # "settle"
BY DEF ClaimsOK, Claiming, Delivery

-----------------------------------------------------------------------------
(* What is written.                                                        *)

LEMMA AcknowledgedFields ==
  ASSUME EntryOK
  PROVE  /\ DOMAIN Acknowledged = EntryFields
         /\ Acknowledged.exists = entry.exists /\ Acknowledged.active = entry.active
         /\ Acknowledged.lastNotified = entry.pendingAt
         /\ Acknowledged.pendingState = "none" /\ Acknowledged.pendingAt = 0
BY DEF EntryOK, Acknowledged, EntryFields

LEMMA ResolvedFields ==
  ASSUME EntryOK, NEW at
  PROVE  /\ DOMAIN Resolved(at) = EntryFields
         /\ Resolved(at).exists = entry.exists /\ Resolved(at).active = FALSE
         /\ Resolved(at).lastNotified = entry.lastNotified
         /\ Resolved(at).pendingState = "resolved" /\ Resolved(at).pendingAt = at
BY DEF EntryOK, Resolved, EntryFields

\* An alert that is raised is new or a reminder, or was active before.
LEMMA RaisedFields ==
  ASSUME EntryOK, NEW at
  PROVE  /\ DOMAIN Raised(at) = EntryFields
         /\ Raised(at).active = TRUE /\ Raised(at).lastNotified = entry.lastNotified
         /\ Emit(at) => /\ Raised(at).exists = TRUE /\ Raised(at).pendingState = "firing"
                        /\ Raised(at).pendingAt = at
         /\ ~Emit(at) => /\ entry.active /\ Raised(at).exists = entry.exists
                         /\ Raised(at).pendingState = entry.pendingState
                         /\ Raised(at).pendingAt = entry.pendingAt
<1> DEFINE e == [entry EXCEPT !.exists = TRUE, !.active = TRUE,
                              !.pendingState = "firing", !.pendingAt = at]
           k == [entry EXCEPT !.active = TRUE]
<1>1. DOMAIN entry = EntryFields
  BY DEF EntryOK
<1>2. /\ DOMAIN e = EntryFields /\ e.active = TRUE /\ e.lastNotified = entry.lastNotified
      /\ e.exists = TRUE /\ e.pendingState = "firing" /\ e.pendingAt = at
  BY <1>1, Zenon DEF EntryFields
<1>3. /\ DOMAIN k = EntryFields /\ k.active = TRUE /\ k.lastNotified = entry.lastNotified
      /\ k.exists = entry.exists /\ k.pendingState = entry.pendingState
      /\ k.pendingAt = entry.pendingAt
  BY <1>1, Zenon DEF EntryFields
<1>4. Emit(at) => Raised(at) = e
  BY Zenon DEF Raised
<1>5. ~Emit(at) => Raised(at) = k
  BY Zenon DEF Raised
<1>6. ~Emit(at) => entry.active
  BY DEF Emit
<1> HIDE DEF e, k
<1>7. CASE Emit(at)
  BY <1>2, <1>4, <1>7, Zenon
<1>8. CASE ~Emit(at)
  BY <1>3, <1>5, <1>6, <1>8, Zenon
<1>9. QED
  BY <1>7, <1>8, Zenon

\* persistLocked leaves memory and file the same, the old entry or the new one.
Writes(e) == entry' = e /\ disk' = e

LEMMA Persists ==
  ASSUME EntryOK, NEW e, Persisted(e) \/ RolledBack \/ CommittedWithError(e)
  PROVE  Writes(e) \/ UNCHANGED <<entry, disk>>
BY DEF Persisted, RolledBack, CommittedWithError, Writes

LEMMA RaisedOK ==
  ASSUME EntryOK, SinkAgrees, NEW at, at # 0, Writes(Raised(at)), UNCHANGED sink
  PROVE  /\ EntryOK' /\ SinkAgrees'
         /\ entry.pendingState # "none" => entry'.pendingState # "none"
<1> DEFINE e == Raised(at)
<1>1. /\ DOMAIN e = EntryFields
      /\ e.active = TRUE /\ e.lastNotified = entry.lastNotified
      /\ Emit(at) => e.exists = TRUE /\ e.pendingState = "firing" /\ e.pendingAt = at
      /\ ~Emit(at) => /\ entry.active /\ e.exists = entry.exists
                      /\ e.pendingState = entry.pendingState /\ e.pendingAt = entry.pendingAt
  BY RaisedFields, Zenon
<1>2. entry' = e /\ disk' = e /\ disk = entry
  BY DEF Writes, EntryOK
<1> HIDE DEF e
<1>3. CASE Emit(at)
  BY <1>1, <1>2, <1>3, Zenon DEF EntryOK, States, SinkAgrees
<1>4. CASE ~Emit(at)
  BY <1>1, <1>2, <1>4, Zenon DEF EntryOK, SinkAgrees
<1>5. QED
  BY <1>3, <1>4

LEMMA ResolvedOK ==
  ASSUME EntryOK, NEW at, at # 0, Writes(Resolved(at))
  PROVE  EntryOK' /\ SinkAgrees' /\ entry'.pendingState # "none"
<1> DEFINE e == Resolved(at)
<1>1. /\ DOMAIN e = EntryFields /\ e.exists = entry.exists /\ e.active = FALSE
      /\ e.lastNotified = entry.lastNotified
      /\ e.pendingState = "resolved" /\ e.pendingAt = at
  BY ResolvedFields, Zenon
<1>2. entry' = e /\ disk' = e /\ entry.exists \in BOOLEAN
  BY DEF Writes, EntryOK
<1> HIDE DEF e
<1>3. EntryOK'
  BY <1>1, <1>2, Zenon DEF EntryOK, States
<1>4. QED
  BY <1>1, <1>2, <1>3 DEF SinkAgrees

\* What is struck off is what the sink was told.
LEMMA AcknowledgedOK ==
  ASSUME EntryOK, entry.pendingState # "none", sink = entry.pendingState,
         Writes(Acknowledged), UNCHANGED sink
  PROVE  EntryOK' /\ SinkAgrees'
<1> DEFINE e == Acknowledged
<1>1. /\ DOMAIN e = EntryFields /\ e.exists = entry.exists /\ e.active = entry.active
      /\ e.lastNotified = entry.pendingAt /\ e.pendingState = "none" /\ e.pendingAt = 0
  BY AcknowledgedFields
<1>2. entry' = e /\ disk' = e
  BY DEF Writes
<1> HIDE DEF e
<1>3. EntryOK'
  BY <1>1, <1>2 DEF EntryOK, States
<1>4. sink = IF entry.active THEN "firing" ELSE "resolved"
  BY DEF EntryOK, States
<1>5. QED
  BY <1>1, <1>2, <1>3, <1>4 DEF SinkAgrees

LEMMA SameEntry ==
  ASSUME EntryOK, SinkAgrees, UNCHANGED <<entry, disk>>,
         sink' = sink \/ entry.pendingState # "none"
  PROVE  EntryOK' /\ SinkAgrees'
BY DEF EntryOK, SinkAgrees

-----------------------------------------------------------------------------
(* deliverPending.                                                         *)

LEMMA TakePendingKeeps ==
  ASSUME AlertInv, NEW c \in Callers, TakePending(c)
  PROVE  AlertInv'
<1>1. calls[c].at_pc = "take" /\ UNCHANGED <<process, entry, disk, sink, now>>
  BY DEF TakePending
<1>2. EntryOK' /\ SinkAgrees' /\ ClockOK' /\ calls[c].then \notin Delivery /\ CallsOK
  BY <1>1, InvParts, SameEntry DEF ClockOK, CallsOK
<1>3. CASE entry.pendingState = "none" \/ delivering
  <2>1. Goto(c, calls[c].then) /\ UNCHANGED delivering
    BY <1>3 DEF TakePending, Goto
  <2>2. Moved(c, calls[c].then, calls[c].then, calls[c].alert)
    BY <1>2, <2>1, GotoMoves
  <2>3. CallsOK' /\ ProcessOK'
    BY <1>1, <1>2, <2>2, MovedCalls, MovedProcess, InvParts
  <2>4. \A d \in Callers \ {c} : Claiming(d) => delivering' /\ entry'.pendingState # "none"
    BY <1>1, <2>1, InvParts DEF ClaimsOK
  <2>5. ClaimsOK'
    BY <1>1, <1>2, <2>2, <2>4, MovedAway, InvParts, Zenon
  <2>6. QED
    BY <1>2, <2>3, <2>5 DEF AlertInv
<1>4. CASE ~(entry.pendingState = "none" \/ delivering)
  <2> DEFINE alert == Alert(entry.pendingState, entry.pendingAt)
  <2>1. /\ delivering' = TRUE
        /\ calls' = [calls EXCEPT ![c].at_pc = "notify", ![c].alert = alert]
    BY <1>4 DEF TakePending
  <2> HIDE DEF alert
  <2>2. Moved(c, "notify", calls[c].then, alert)
    BY <1>2, <2>1, AlertMoves, Zenon
  <2>3. CallsOK' /\ ProcessOK'
    BY <1>1, <1>2, <2>2, MovedCalls, MovedProcess, InvParts
  <2>4. \A d \in Callers : ~Claiming(d)
    BY <1>4, InvParts DEF ClaimsOK
  <2>5. \A d \in Callers \ {c} : ~Claiming(d)' /\ calls'[d].at_pc # "settle"
    BY <2>2, <2>4 DEF Claiming, Moved, Delivery
  <2>6. calls'[c].at_pc # "settle"
    BY <2>2 DEF Moved
  <2>7. ClaimsOK'
    BY <1>1, <1>4, <2>1, <2>5, <2>6, Zenon DEF ClaimsOK
  <2>8. QED
    BY <1>2, <2>3, <2>7 DEF AlertInv
<1>5. QED
  BY <1>3, <1>4

\* The caller that delivers stays the only one, and knows what it told the sink.
LEMMA DeliveryKeeps ==
  ASSUME AlertInv, NEW c \in Callers, Claiming(c), NEW where \in {"settle", "unclaim"},
         Goto(c, where), where = "settle" => sink' = calls[c].alert.state,
         UNCHANGED <<process, entry, delivering, disk, now>>
  PROVE  AlertInv'
<1>1. calls[c].at_pc # "idle" /\ calls[c].then \notin Delivery /\ CallsOK
  BY InvParts DEF Claiming, Delivery, CallsOK
<1>2. delivering /\ entry.pendingState # "none"
  BY InvParts DEF ClaimsOK
<1>3. EntryOK' /\ SinkAgrees' /\ ClockOK'
  BY <1>2, InvParts, SameEntry DEF ClockOK
<1>4. Moved(c, where, calls[c].then, calls[c].alert)
  BY <1>1, GotoMoves
<1>5. CallsOK' /\ ProcessOK'
  BY <1>1, <1>4, MovedCalls, MovedProcess, InvParts
<1>6. \A d \in Callers \ {c} : ~Claiming(d) /\ calls[d].at_pc # "settle" /\ calls'[d] = calls[d]
  BY <1>4, Alone, InvParts DEF Moved
<1>7. \A d \in Callers \ {c} : ~Claiming(d)' /\ calls'[d].at_pc # "settle"
  BY <1>6 DEF Claiming
<1>8. calls'[c].at_pc = where /\ calls'[c].alert = calls[c].alert
  BY <1>4 DEF Moved
<1>9. ClaimsOK'
  BY <1>2, <1>7, <1>8 DEF ClaimsOK
<1>10. QED
  BY <1>3, <1>5, <1>9 DEF AlertInv

LEMMA NotifyKeeps ==
  ASSUME AlertInv, NEW c \in Callers, Notify(c)
  PROVE  AlertInv'
BY DeliveryKeeps DEF Notify, Claiming, Delivery

LEMMA NotifyFailsKeeps ==
  ASSUME AlertInv, NEW c \in Callers, NotifyFails(c)
  PROVE  AlertInv'
BY DeliveryKeeps DEF NotifyFails, Claiming, Delivery

\* The caller gives up its claim and goes on outside of the delivery.
LEMMA ClaimEnds ==
  ASSUME AlertInv, NEW c \in Callers, Claiming(c), NEW where, where \notin Delivery,
         Goto(c, where), EntryOK', SinkAgrees', UNCHANGED <<process, sink, now>>
  PROVE  AlertInv'
<1>1. calls[c].at_pc # "idle" /\ calls[c].then \notin Delivery /\ CallsOK
  BY InvParts DEF Claiming, Delivery, CallsOK
<1>2. Moved(c, where, calls[c].then, calls[c].alert)
  BY <1>1, GotoMoves
<1>3. CallsOK' /\ ProcessOK' /\ ClockOK'
  BY <1>1, <1>2, MovedCalls, MovedProcess, InvParts DEF ClockOK
<1>4. \A d \in Callers \ {c} : ~Claiming(d)
  BY Alone, InvParts
<1>5. ClaimsOK'
  BY <1>2, <1>4, MovedAway, InvParts
<1>6. QED
  BY <1>3, <1>5 DEF AlertInv

LEMMA UnclaimKeeps ==
  ASSUME AlertInv, NEW c \in Callers, Unclaim(c)
  PROVE  AlertInv'
BY InvParts, SameEntry, ClaimEnds DEF Unclaim, Claiming, Delivery

LEMMA SettleKeeps ==
  ASSUME AlertInv, NEW c \in Callers, Settle(c)
  PROVE  AlertInv'
<1>1. calls[c].at_pc = "settle" /\ UNCHANGED <<process, sink, now>>
  BY DEF Settle
<1>2. Claiming(c) /\ calls[c].then \notin Delivery /\ "fail" \notin Delivery /\ "take" \notin Delivery
  BY <1>1, InvParts DEF Claiming, Delivery, CallsOK
<1>3. entry.pendingState # "none" /\ sink = calls[c].alert.state
  BY <1>1, <1>2, InvParts DEF ClaimsOK
<1>4. PICK where : where \notin Delivery /\ Goto(c, where)
  BY <1>2 DEF Settle
<1>5. CASE ~StillPending(c)
  BY <1>1, <1>2, <1>4, <1>5, InvParts, SameEntry, ClaimEnds, Zenon DEF Settle
<1>6. CASE StillPending(c)
  <2>1. Persisted(Acknowledged) \/ RolledBack \/ CommittedWithError(Acknowledged)
    BY <1>6 DEF Settle
  <2>2. Writes(Acknowledged) \/ UNCHANGED <<entry, disk>>
    BY <2>1, Persists, InvParts
  <2>3. sink = entry.pendingState
    BY <1>3, <1>6 DEF StillPending, Alert
  <2>4. EntryOK' /\ SinkAgrees'
    BY <1>1, <1>3, <2>2, <2>3, AcknowledgedOK, SameEntry, InvParts
  <2>5. QED
    BY <1>1, <1>2, <1>4, <2>4, ClaimEnds
<1>7. QED
  BY <1>5, <1>6

-----------------------------------------------------------------------------
(* Raise and Resolve.                                                      *)

\* An update leaves something pending while somebody delivers.
LEMMA UpdateKeeps ==
  ASSUME AlertInv, NEW c \in Callers, calls[c].at_pc = "update", NEW where, NEW then, NEW alert,
         where \notin Delivery, then \notin Delivery, Moved(c, where, then, alert),
         EntryOK', SinkAgrees', UNCHANGED <<process, delivering, sink, now>>,
         entry.pendingState # "none" => entry'.pendingState # "none"
  PROVE  AlertInv'
BY MovedCalls, MovedProcess, InvParts, MovedAway, Zenon DEF ClockOK, ClaimsOK, AlertInv

LEMMA RaiseUpdateKeeps ==
  ASSUME AlertInv, NEW c \in Callers, RaiseUpdate(c)
  PROVE  AlertInv'
<1> DEFINE at == calls[c].at
<1>1. calls[c].at_pc = "update" /\ UNCHANGED <<process, delivering, sink, now>>
  BY DEF RaiseUpdate
<1>2. /\ at # 0 /\ calls[c].then \notin Delivery /\ CallsOK
      /\ "take" \notin Delivery /\ "return" \notin Delivery /\ "fail" \notin Delivery
  BY <1>1, InvParts DEF CallsOK, Delivery
<1>3. Persisted(Raised(at)) \/ RolledBack \/ CommittedWithError(Raised(at))
  BY DEF RaiseUpdate
<1>4. \/ calls' = [calls EXCEPT ![c].at_pc = "take", ![c].then = "return"]
      \/ Goto(c, "return") \/ Goto(c, "fail")
  BY Zenon DEF RaiseUpdate
<1> HIDE DEF at
<1>5. Writes(Raised(at)) \/ UNCHANGED <<entry, disk>>
  BY <1>3, Persists, InvParts
<1>6. EntryOK' /\ SinkAgrees' /\ (entry.pendingState # "none" => entry'.pendingState # "none")
  BY <1>1, <1>2, <1>5, RaisedOK, SameEntry, InvParts
<1>7. CASE calls' = [calls EXCEPT ![c].at_pc = "take", ![c].then = "return"]
  BY <1>1, <1>2, <1>6, <1>7, ThenMoves, UpdateKeeps, Zenon
<1>8. CASE Goto(c, "return") \/ Goto(c, "fail")
  BY <1>1, <1>2, <1>6, <1>8, GotoMoves, UpdateKeeps
<1>9. QED
  BY <1>4, <1>7, <1>8

LEMMA ResolveUpdateKeeps ==
  ASSUME AlertInv, NEW c \in Callers, ResolveUpdate(c)
  PROVE  AlertInv'
<1> DEFINE at == calls[c].at
<1>1. calls[c].at_pc = "update" /\ UNCHANGED <<process, delivering, sink, now>>
  BY DEF ResolveUpdate
<1>2. /\ at # 0 /\ calls[c].then \notin Delivery /\ CallsOK
      /\ "take" \notin Delivery /\ "return" \notin Delivery /\ "fail" \notin Delivery
  BY <1>1, InvParts DEF CallsOK, Delivery
<1>3. UNCHANGED <<entry, disk>> \/ Persisted(Resolved(at)) \/ RolledBack
      \/ CommittedWithError(Resolved(at))
  BY DEF ResolveUpdate
<1>4. \/ calls' = [calls EXCEPT ![c].at_pc = "take", ![c].then = "return"]
      \/ Goto(c, "return") \/ Goto(c, "fail")
  BY Zenon DEF ResolveUpdate
<1> HIDE DEF at
<1>5. Writes(Resolved(at)) \/ UNCHANGED <<entry, disk>>
  BY <1>3, Persists, InvParts
<1>6. EntryOK' /\ SinkAgrees' /\ (entry.pendingState # "none" => entry'.pendingState # "none")
  BY <1>1, <1>2, <1>5, ResolvedOK, SameEntry, InvParts
<1>7. CASE calls' = [calls EXCEPT ![c].at_pc = "take", ![c].then = "return"]
  BY <1>1, <1>2, <1>6, <1>7, ThenMoves, UpdateKeeps, Zenon
<1>8. CASE Goto(c, "return") \/ Goto(c, "fail")
  BY <1>1, <1>2, <1>6, <1>8, GotoMoves, UpdateKeeps
<1>9. QED
  BY <1>4, <1>7, <1>8

-----------------------------------------------------------------------------
(* Calls, crashes and restarts.                                            *)

LEMMA ReturnsKeeps ==
  ASSUME AlertInv, NEW c \in Callers, Returns(c)
  PROVE  AlertInv'
<1>1. /\ calls[c].at_pc \in {"return", "fail"} /\ calls' = [calls EXCEPT ![c] = NoCall]
      /\ process' = IF process = "up" THEN "up"
                    ELSE IF calls[c].at_pc = "fail" THEN "down" ELSE "up"
      /\ UNCHANGED <<entry, delivering, disk, sink, now>>
  BY DEF Returns, Return
<1>2. /\ DOMAIN NoCall = CallFields /\ NoCall.at_pc = "idle" /\ NoCall.then = "idle"
  BY Zenon DEF NoCall, CallFields
<1>3. DOMAIN calls = Callers
  BY InvParts DEF CallsOK
<1>4. /\ DOMAIN calls' = Callers /\ calls'[c] = NoCall
      /\ \A d \in Callers \ {c} : calls'[d] = calls[d]
  BY <1>1, <1>3
<1>5. CallsOK'
  BY <1>2, <1>4, InvParts DEF CallsOK, Delivery
<1>6. EntryOK' /\ SinkAgrees' /\ ClockOK'
  BY <1>1, InvParts, SameEntry DEF ClockOK
<1>7. ClaimsOK'
  BY <1>1, <1>2, <1>4, InvParts DEF Claiming, Delivery, ClaimsOK
<1>8. ProcessOK'
  BY <1>1, <1>2, <1>4, InvParts DEF ProcessOK
<1>9. QED
  BY <1>5, <1>6, <1>7, <1>8 DEF AlertInv

\* A call begins: it takes what is pending first.
LEMMA BeginKeeps ==
  ASSUME CallsOK, ClockOK, NEW c \in Callers, calls[c].at_pc \notin Delivery, NEW r,
         DOMAIN r = CallFields, r.at = now, r.at_pc = "take",
         r.then \in {"update", "return"}, calls' = [calls EXCEPT ![c] = r]
  PROVE  /\ CallsOK' /\ \A d \in Callers \ {c} : calls'[d] = calls[d]
         /\ calls'[c].at_pc = "take"
         /\ \A d \in Callers : Claiming(d)' <=> Claiming(d)
<1>1. DOMAIN calls = Callers /\ now # 0
  BY DEF CallsOK, ClockOK
<1>2. DOMAIN calls' = Callers /\ calls'[c] = r /\ \A d \in Callers \ {c} : calls'[d] = calls[d]
  BY <1>1
<1>3. r.then \notin Delivery
  BY DEF Delivery
<1>4. CallsOK'
  BY <1>1, <1>2, <1>3 DEF CallsOK
<1>5. \A d \in Callers : Claiming(d)' <=> Claiming(d)
  BY <1>2 DEF Claiming, Delivery
<1>6. QED
  BY <1>2, <1>4, <1>5

LEMMA CallKeeps ==
  ASSUME AlertInv, NEW c \in Callers, NEW op, Call(c, op)
  PROVE  AlertInv'
<1> DEFINE r == [op |-> op, at |-> now, at_pc |-> "take", then |-> "update", alert |-> NoAlert]
<1>1. /\ process = "up" /\ calls[c] = NoCall /\ calls' = [calls EXCEPT ![c] = r]
      /\ UNCHANGED <<process, entry, delivering, disk, sink, now>>
  BY DEF Call
<1>2. NoCall.at_pc = "idle"
  BY DEF NoCall
<1>3. DOMAIN r = CallFields /\ r.at = now /\ r.at_pc = "take" /\ r.then = "update"
  BY Zenon DEF CallFields
<1> HIDE DEF r
<1>4. calls[c].at_pc \notin Delivery
  BY <1>1, <1>2 DEF Delivery
<1>5. /\ CallsOK' /\ \A d \in Callers \ {c} : calls'[d] = calls[d]
      /\ calls'[c].at_pc = "take"
      /\ \A d \in Callers : Claiming(d)' <=> Claiming(d)
  BY <1>1, <1>3, <1>4, BeginKeeps, InvParts, Zenon
<1>6. EntryOK' /\ SinkAgrees' /\ ClockOK'
  BY <1>1, InvParts, SameEntry DEF ClockOK
<1>7. ClaimsOK'
  BY <1>1, <1>5, InvParts DEF ClaimsOK
<1>8. ProcessOK'
  BY <1>1 DEF ProcessOK
<1>9. QED
  BY <1>5, <1>6, <1>7, <1>8 DEF AlertInv

LEMMA StartKeeps ==
  ASSUME AlertInv, NEW c \in Callers, Start(c)
  PROVE  AlertInv'
<1> DEFINE r == [op |-> "replay", at |-> now, at_pc |-> "take", then |-> "return",
                 alert |-> NoAlert]
<1>1. /\ process = "down" /\ entry' = disk /\ process' = "replaying"
      /\ calls' = [calls EXCEPT ![c] = r] /\ UNCHANGED <<disk, sink, now>>
  BY DEF Start
<1>2. DOMAIN r = CallFields /\ r.at = now /\ r.at_pc = "take" /\ r.then = "return"
  BY Zenon DEF CallFields
<1> HIDE DEF r
<1>3. \A d \in Callers : calls[d].at_pc = "idle"
  BY <1>1, InvParts DEF ProcessOK
<1>4. calls[c].at_pc \notin Delivery
  BY <1>3 DEF Delivery
<1>5. /\ CallsOK' /\ \A d \in Callers \ {c} : calls'[d] = calls[d]
      /\ calls'[c].at_pc = "take"
      /\ \A d \in Callers : Claiming(d)' <=> Claiming(d)
  BY <1>1, <1>2, <1>4, BeginKeeps, InvParts, Zenon
<1>6. entry' = entry
  BY <1>1, InvParts DEF EntryOK
<1>7. EntryOK' /\ SinkAgrees' /\ ClockOK'
  BY <1>1, <1>6, InvParts, SameEntry DEF ClockOK
<1>8. \A d \in Callers : ~Claiming(d)' /\ calls'[d].at_pc # "settle"
  BY <1>3, <1>5 DEF Claiming, Delivery
<1>9. ClaimsOK'
  BY <1>8 DEF ClaimsOK
<1>10. ProcessOK'
  BY <1>1, <1>3, <1>5 DEF ProcessOK
<1>11. QED
  BY <1>5, <1>7, <1>9, <1>10 DEF AlertInv

LEMMA CrashKeeps ==
  ASSUME AlertInv, Crash
  PROVE  AlertInv'
<1>1. /\ process' = "down" /\ calls' = [c \in Callers |-> NoCall]
      /\ UNCHANGED <<entry, disk, sink, now>>
  BY DEF Crash
<1>2. DOMAIN NoCall = CallFields /\ NoCall.at_pc = "idle" /\ NoCall.then = "idle"
  BY Zenon DEF NoCall, CallFields
<1>3. DOMAIN calls' = Callers /\ \A c \in Callers : calls'[c] = NoCall
  BY <1>1
<1>4. CallsOK' /\ ProcessOK'
  BY <1>1, <1>2, <1>3 DEF CallsOK, ProcessOK, Delivery
<1>5. ClaimsOK'
  BY <1>2, <1>3 DEF ClaimsOK, Claiming, Delivery
<1>6. EntryOK' /\ SinkAgrees' /\ ClockOK'
  BY <1>1, InvParts, SameEntry DEF ClockOK
<1>7. QED
  BY <1>4, <1>5, <1>6 DEF AlertInv

LEMMA TickKeeps ==
  ASSUME AlertInv, Tick
  PROVE  AlertInv'
<1>1. now' = now + 1 /\ UNCHANGED <<process, entry, delivering, disk, calls, sink>>
  BY DEF Tick
<1>2. CallsOK' /\ ProcessOK' /\ ClaimsOK'
  BY <1>1, InvParts DEF CallsOK, ProcessOK, ClaimsOK, Claiming
<1>3. ClockOK'
  BY <1>1, InvParts DEF ClockOK
<1>4. EntryOK' /\ SinkAgrees'
  BY <1>1, InvParts, SameEntry
<1>5. QED
  BY <1>2, <1>3, <1>4 DEF AlertInv

LEMMA InitHolds == Init => AlertInv
<1>1. SUFFICES ASSUME Init PROVE AlertInv
  OBVIOUS
<1>2. DOMAIN NoCall = CallFields /\ NoCall.at_pc = "idle" /\ NoCall.then = "idle"
  BY Zenon DEF NoCall, CallFields
<1>3. /\ DOMAIN NoEntry = EntryFields /\ NoEntry.exists = FALSE /\ NoEntry.active = FALSE
      /\ NoEntry.pendingState = "none" /\ NoEntry.pendingAt = 0
  BY Zenon DEF NoEntry, EntryFields
<1>4. /\ DOMAIN calls = Callers /\ \A c \in Callers : calls[c] = NoCall
      /\ process = "up" /\ entry = NoEntry /\ disk = NoEntry /\ now = 1
  BY <1>1 DEF Init
<1>5. CallsOK /\ ProcessOK
  BY <1>2, <1>4 DEF CallsOK, ProcessOK, Delivery
<1>6. ClaimsOK
  BY <1>2, <1>4 DEF ClaimsOK, Claiming, Delivery
<1>7. EntryOK /\ SinkAgrees
  BY <1>3, <1>4, Zenon DEF EntryOK, SinkAgrees, States
<1>8. QED
  BY <1>4, <1>5, <1>6, <1>7 DEF AlertInv, ClockOK

-----------------------------------------------------------------------------
\* AlertInv is inductive over the calls, the deliveries, the writes of the state
\* file that succeed or fail, the crashes and the replay.
THEOREM AlertInvariant == Spec => []AlertInv
<1>1. ASSUME AlertInv, [Next]_vars PROVE AlertInv'
  <2>1. ASSUME NEW c \in Callers, DeliverStep(c) PROVE AlertInv'
    BY <1>1, <2>1, TakePendingKeeps, NotifyKeeps, NotifyFailsKeeps, UnclaimKeeps, SettleKeeps
    DEF DeliverStep
  <2>2. ASSUME NEW c \in Callers, CallStep(c) PROVE AlertInv'
    BY <1>1, <2>1, <2>2, RaiseUpdateKeeps, ResolveUpdateKeeps, ReturnsKeeps DEF CallStep
  <2>3. ASSUME NEW c \in Callers, Start(c) \/ \E op \in {"raise", "resolve"} : Call(c, op)
        PROVE  AlertInv'
    BY <1>1, <2>3, StartKeeps, CallKeeps
  <2>4. CASE UNCHANGED vars
    BY <1>1, <2>4, InvParts, SameEntry, Zenon DEF vars, CallsOK, ProcessOK, ClaimsOK,
       Claiming, ClockOK, AlertInv
  <2>5. QED
    BY <1>1, <2>2, <2>3, <2>4, CrashKeeps, TickKeeps DEF Next
<1>2. QED
  BY <1>1, InitHolds, PTL DEF Spec

\* Whenever nothing is pending in the state file, the sink was last told what the
\* alert is: one caller of deliverPending has the claim at a time, it strikes off
\* only what it delivered, and persistLocked keeps memory and file the same.
THEOREM SinkIsRight == Spec => []SinkAgrees
<1>1. AlertInv => SinkAgrees
  BY DEF AlertInv
<1>2. QED
  BY <1>1, AlertInvariant, PTL

\* Every state file that Raise, Resolve and deliverPending write is one that loadState
\* accepts after a crash: the daemon is never kept from starting by its own file.
THEOREM OwnFileLoads == Spec => []LoadAccepts
<1>1. AlertInv => LoadAccepts
  BY InvParts DEF EntryOK, LoadAccepts
<1>2. QED
  BY <1>1, AlertInvariant, PTL

=============================================================================
