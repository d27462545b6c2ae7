----------------------------- MODULE WakeChannel -----------------------------
(***************************************************************************)
(* How callers of the candidate store wait, internal/store/bolt_store.go.  *)
(* The store holds one channel.  An operation that may have to wait takes  *)
(* it (wakeSignal) before its transaction; if the transaction finds that   *)
(* it cannot proceed, it waits until that channel is closed.  Whoever      *)
(* committed a change closes the channel and puts a new one in its place   *)
(* (notify), after the commit and in a separate critical section.          *)
(*                                                                         *)
(* A channel is only told apart by whether it is still the one in place:   *)
(* closed holds the callers whose channel is not.  The content of the      *)
(* store does not matter here: fresh is a history variable that holds the  *)
(* sleepers whose last transaction has seen the last commit.               *)
(***************************************************************************)

CONSTANT Procs        \* the goroutines that use the store

VARIABLES
  stage,              \* where each of them is in its operation
  closed,             \* those that hold a channel which was closed since
  fresh               \* history: the sleepers that have seen the last commit

wakeVars == <<stage, closed, fresh>>

Stages == {"out", "reading", "asleep", "notifying"}

WakeInit ==
  /\ stage = [p \in Procs |-> "out"]
  /\ closed = {} /\ fresh = {}

Move(p, from, to) == stage[p] \in from /\ stage' = [stage EXCEPT ![p] = to]

\* wakeSignal, before the transaction.
WakeSignal(p) ==
  /\ Move(p, {"out"}, "reading")
  /\ closed' = closed \ {p}
  /\ UNCHANGED fresh

\* The transaction found no room, or nothing to hand out.
Blocked(p) ==
  /\ Move(p, {"reading"}, "asleep")
  /\ fresh' = fresh \cup {p}
  /\ UNCHANGED closed

\* Mutant of Committed: the callers that wait are not told.
CommittedSilently(p) ==
  /\ Move(p, {"out", "reading"}, "out")
  /\ closed' = closed \ {p} /\ fresh' = {}

\* The transaction changed the store; operations that never wait do not take the
\* channel before it.
Committed(p) ==
  /\ Move(p, {"out", "reading"}, "notifying")
  /\ closed' = closed \ {p}
  /\ fresh' = {}

\* The transaction changed nothing, or ended with an error.
Returned(p) ==
  /\ Move(p, {"reading"}, "out")
  /\ closed' = closed \ {p}
  /\ UNCHANGED fresh

Holders == {p \in Procs : stage[p] \in {"reading", "asleep"}}

\* Mutant of Notify: the channel is sent to, which wakes one of them.
NotifyOne(p) ==
  /\ Move(p, {"notifying"}, "out")
  /\ IF Holders \subseteq closed THEN UNCHANGED closed
     ELSE \E q \in Holders \ closed : closed' = closed \cup {q}
  /\ UNCHANGED fresh

\* notify.
Notify(p) ==
  /\ Move(p, {"notifying"}, "out")
  /\ closed' = Holders
  /\ UNCHANGED fresh

\* The channel was closed, or a timer ran out: the loop starts over.
Again(p) ==
  /\ Move(p, {"asleep"}, "reading")
  /\ closed' = closed \ {p} /\ fresh' = fresh \ {p}

\* The context of the callers is cancelled; a change that was committed is still
\* announced.
Cancelled ==
  /\ stage' = [p \in Procs |-> IF stage[p] = "notifying" THEN "notifying" ELSE "out"]
  /\ closed' = {} /\ fresh' = {}

\* The process ends, and the channel with it.
Lost == stage' = [p \in Procs |-> "out"] /\ closed' = {} /\ fresh' = {}

WakeNext ==
  \/ \E p \in Procs :
       \/ WakeSignal(p) \/ Blocked(p) \/ Committed(p) \/ Returned(p) \/ Notify(p)
       \/ Again(p)
  \/ Cancelled \/ Lost

WakeSpec == WakeInit /\ [][WakeNext]_wakeVars

-----------------------------------------------------------------------------
(* Properties.                                                             *)

WakeTypeOK ==
  /\ stage \in [Procs -> Stages]
  /\ closed \subseteq Procs /\ fresh \subseteq Procs

\* No wake-up is lost: a caller that waits on a channel still in place has seen the
\* last commit, or the one who made it is about to close the channel.  Rests on
\* wakeSignal being called before the transaction and notify after the commit.
NoLostWakeup ==
  \A p \in Procs :
    stage[p] = "asleep" /\ p \notin closed =>
      p \in fresh \/ \E q \in Procs : stage[q] = "notifying"

WakeInv == WakeTypeOK /\ NoLostWakeup

=============================================================================
