--------------------------- MODULE ProviderQuorum ---------------------------
(***************************************************************************)
(* The reads of the watcher through QuorumReader, internal/rpc/quorum.go:  *)
(* every provider answers, and only an answer they all give counts.        *)
(*                                                                         *)
(* A provider is the branch it takes for canonical, named by its newest    *)
(* block, and the newest block it calls finalized.  Providers move on      *)
(* their own: heads grow, fall back to a node that lags and change branch; *)
(* only the finalized blocks all lie on one branch.                        *)
(*                                                                         *)
(* One collectProviders is one step.  Its answers are given at different   *)
(* moments, but providers move independently, so the moves of one that has *)
(* answered may as well come after the last answer.  The two collections   *)
(* of commonHead are two steps.  A block is its BlockRef; logs are read by *)
(* block hash and belong to the block, so agreement on them is not a       *)
(* question of views and a failure to agree is an error of the read.       *)
(***************************************************************************)
EXTENDS Integers

CONSTANTS
  Providers,    \* the read providers
  Blocks,       \* the blocks that may be seen, a tree
  NoBlock,      \* the zero hash
  Number,       \* block |-> its height
  Parent,       \* block |-> its parent
  MaxNumber,    \* bound on heights
  Trunk,        \* the branch that gets finalized
  MaxMoves      \* bound on the moves of the providers

Heights == 0..MaxNumber

ASSUME QuorumConstants ==
  /\ MaxNumber \in Nat /\ MaxMoves \in Nat
  /\ NoBlock \notin Blocks
  /\ Number \in [Blocks -> Heights]
  /\ \A b \in Blocks :
       IF Number[b] = 0 THEN Parent[b] = NoBlock
       ELSE Parent[b] \in Blocks /\ Number[Parent[b]] = Number[b] - 1
  /\ Trunk \subseteq Blocks

VARIABLES
  latest,       \* provider |-> the newest block of its branch
  finalized,    \* provider |-> the newest block it calls finalized
  moves         \* moves so far

quorumVars == <<latest, finalized, moves>>

\* A block and its ancestors.
Branch[b \in Blocks] ==
  IF Number[b] = 0 THEN {b} ELSE {b} \cup Branch[Parent[b]]

-----------------------------------------------------------------------------
(* Reads *)

\* Header: the block every provider has at height n; empty stands for the error.
Header(n) ==
  {b \in Blocks : Number[b] = n /\ \A p \in Providers : b \in Branch[latest[p]]}

\* commonHead, when all providers name the same head.
AgreedHead(heads) == {b \in Blocks : \A p \in Providers : heads[p] = b}

\* commonHead, otherwise: the height it asks Header for.
LowestHead(heads) ==
  {n \in Heights : /\ \E p \in Providers : Number[heads[p]] = n
                   /\ \A p \in Providers : Number[heads[p]] >= n}

-----------------------------------------------------------------------------
(* The providers *)

QuorumInit ==
  /\ \E b \in Trunk : latest = [p \in Providers |-> b]
  /\ \E b \in Trunk :
       /\ finalized = [p \in Providers |-> b]
       /\ \A p \in Providers : b \in Branch[latest[p]]
  /\ moves = 0

\* The branch of p grows, is reorganised above the finalized block, or is told by a
\* node that lags.
HeadMoves(p) ==
  /\ moves < MaxMoves
  /\ \E b \in Blocks : b # latest[p] /\ finalized[p] \in Branch[b]
                       /\ latest' = [latest EXCEPT ![p] = b]
  /\ moves' = moves + 1
  /\ UNCHANGED finalized

\* Finality advances, or a node that lags tells an older one.
FinalityMoves(p) ==
  /\ moves < MaxMoves
  /\ \E b \in Trunk \cap Branch[latest[p]] :
       b # finalized[p] /\ finalized' = [finalized EXCEPT ![p] = b]
  /\ moves' = moves + 1
  /\ UNCHANGED latest

ProvidersAgree ==
  \A p, q \in Providers : latest[p] = latest[q] /\ finalized[p] = finalized[q]
=============================================================================
