----------------------------- MODULE WorkJournal -----------------------------
(***************************************************************************)
(* What the candidate store promises its callers, with none of the ways it *)
(* keeps the promise: no ready list, no retries, no tombstones, no         *)
(* trimming of old blocks.  A block is accepted once, with all its work    *)
(* and after its parent; work stays pending until it was handled and then  *)
(* confirmed; the safe height is the end of the confirmed prefix of the    *)
(* chain.  Work that belongs to no block may come again.                   *)
(***************************************************************************)
EXTENDS Integers, FiniteSets

CONSTANTS
    Items,          \* pieces of work
    Chain,          \* blocks
    HeightOf,       \* height of a block
    ParentOf,       \* parent of a block
    WorkOf,         \* the work of a block
    Capacity        \* how much may be pending

VARIABLES
    accepted,       \* blocks
    pending,        \* work accepted and not yet confirmed
    done,           \* work ever handled to the end
    confirmed,      \* work ever confirmed
    safe            \* height up to which all work is confirmed, 0 at first

journalVars == <<accepted, pending, done, confirmed, safe>>

BlockWork == UNION {WorkOf[b] : b \in Chain}

JournalInit ==
    /\ accepted = {} /\ pending = {} /\ done = {} /\ confirmed = {}
    /\ safe = 0

ConfirmedUpTo(blocks, work, n) ==
    \A b \in blocks : HeightOf[b] <= n => WorkOf[b] \subseteq work

SafeHeight(n, blocks, work) ==
    /\ n \in {HeightOf[b] : b \in blocks} \cup {0}
    /\ ConfirmedUpTo(blocks, work, n)
    /\ \A b \in blocks : ConfirmedUpTo(blocks, work, HeightOf[b]) => HeightOf[b] <= n

AcceptBlock(b) ==
    /\ b \notin accepted
    /\ accepted # {} => ParentOf[b] \in accepted
    /\ accepted' = accepted \cup {b}
    /\ pending' = pending \cup WorkOf[b]
    /\ Cardinality(pending') <= Capacity
    /\ SafeHeight(safe', accepted', confirmed)
    /\ UNCHANGED <<done, confirmed>>

Accept(c) ==
    /\ c \notin pending
    /\ pending' = pending \cup {c}
    /\ c \notin BlockWork
    /\ Cardinality(pending') <= Capacity
    /\ UNCHANGED <<accepted, done, confirmed, safe>>

Do(c) ==
    /\ c \in pending
    /\ done' = done \cup {c}
    /\ UNCHANGED <<accepted, pending, confirmed, safe>>

Confirm(c) ==
    /\ c \in pending \cap done
    /\ pending' = pending \ {c}
    /\ confirmed' = confirmed \cup {c}
    /\ SafeHeight(safe', accepted, confirmed')
    /\ UNCHANGED <<accepted, done>>

JournalNext ==
    \/ \E b \in Chain : AcceptBlock(b)
    \/ \E c \in Items : Accept(c) \/ Do(c) \/ Confirm(c)

JournalSpec == JournalInit /\ [][JournalNext]_journalVars

-----------------------------------------------------------------------------
(* Consequences.                                                           *)

\* All work of an accepted block is pending or was handled and confirmed.
NothingLost ==
    \A b \in accepted : WorkOf[b] \subseteq pending \cup (confirmed \cap done)

\* Up to the safe height all work was handled.
SafeMeansDone == ConfirmedUpTo(accepted, done, safe)

JournalInv ==
    /\ accepted \subseteq Chain
    /\ NothingLost
    /\ confirmed \subseteq done
    /\ ConfirmedUpTo(accepted, confirmed, safe)

=============================================================================
