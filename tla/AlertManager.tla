----------------------------- MODULE AlertManager -----------------------------
(***************************************************************************)
(* One alert (a network and a code) of the AlertManager: concurrent calls  *)
(* of Raise and Resolve, delivery to the sink outside the lock, the state  *)
(* file, crashes and the replay of what was not delivered.                 *)
(*                                                                         *)
(* Alerts only meet in the state file, which every persistLocked rewrites  *)
(* from memory under the lock; memory and file agree for every alert, so   *)
(* one alert shows all there is.  Eviction is left out: newDaemon sets a   *)
(* capacity of 8 entries per network and there are 6 codes.                *)
(***************************************************************************)
EXTENDS Integers, FiniteSets

CONSTANTS
  Callers,     \* goroutines that raise and resolve the alert
  Cooldown,    \* AlertManagerConfig.Cooldown
  MaxTime,     \* bound on the clock
  MaxFaults,   \* bound on failed writes and failed deliveries
  MaxCrashes   \* bound on crashes

ASSUME AlertConstants ==
  Cooldown \in Nat \ {0} /\ {MaxTime, MaxFaults, MaxCrashes} \subseteq Nat

VARIABLES
  process,   \* down, replaying or up
  entry,     \* alertEntry in memory, without delivering
  delivering,
  disk,      \* durable: the entry of the state file
  calls,     \* what each caller is doing
  sink,      \* the last state the sink was told
  now, faults, crashes

vars == <<process, entry, delivering, disk, calls, sink, now, faults, crashes>>

-----------------------------------------------------------------------------
States == {"none", "firing", "resolved"}

\* 0 is the zero time; the clock starts at 1.
Times == 0..MaxTime

\* exists stands for an entry of the map; one is made by the first Raise.
NoEntry == [exists |-> FALSE, active |-> FALSE, lastNotified |-> 0,
            pendingState |-> "none", pendingAt |-> 0]

Alert(state, at) == [state |-> state, at |-> at]

NoAlert == Alert("none", 0)

NoCall == [op |-> "none", at |-> 0, at_pc |-> "idle", then |-> "idle", alert |-> NoAlert]

Latest(x, y) == IF x > y THEN x ELSE y

Init ==
  /\ process = "up"
  /\ entry = NoEntry /\ disk = NoEntry /\ delivering = FALSE
  /\ calls = [c \in Callers |-> NoCall]
  /\ sink = "none"
  /\ now = 1 /\ faults = 0 /\ crashes = 0

Goto(c, where) == calls' = [calls EXCEPT ![c].at_pc = where]

Return(c) == calls' = [calls EXCEPT ![c] = NoCall]

-----------------------------------------------------------------------------
(* persistLocked, called with the lock held: the file is replaced, or the  *)
(* change is rolled back, or it is in the file and reported as an error.   *)

Persisted(e) == entry' = e /\ disk' = e /\ UNCHANGED faults

RolledBack == faults < MaxFaults /\ faults' = faults + 1 /\ UNCHANGED <<entry, disk>>

CommittedWithError(e) ==
  faults < MaxFaults /\ faults' = faults + 1 /\ entry' = e /\ disk' = e

-----------------------------------------------------------------------------
(* deliverPending, entered with what to do when it returns nil.            *)

\* Mutant of TakePending: an alert that is being delivered is taken again.
TakeAgain(c) ==
  /\ calls[c].at_pc = "take"
  /\ IF entry.pendingState = "none"
     THEN /\ calls' = [calls EXCEPT ![c].at_pc = calls[c].then]
          /\ UNCHANGED delivering
     ELSE /\ delivering' = TRUE
          /\ calls' = [calls EXCEPT ![c].at_pc = "notify",
                         ![c].alert = Alert(entry.pendingState, entry.pendingAt)]
  /\ UNCHANGED <<process, entry, disk, sink, now, faults, crashes>>

\* Nothing to deliver, or another caller is at it: done.
TakePending(c) ==
  /\ calls[c].at_pc = "take"
  /\ IF entry.pendingState = "none" \/ delivering
     THEN /\ calls' = [calls EXCEPT ![c].at_pc = calls[c].then]
          /\ UNCHANGED delivering
     ELSE /\ delivering' = TRUE
          /\ calls' = [calls EXCEPT ![c].at_pc = "notify",
                         ![c].alert = Alert(entry.pendingState, entry.pendingAt)]
  /\ UNCHANGED <<process, entry, disk, sink, now, faults, crashes>>

\* The sink is called without the lock.
Notify(c) ==
  /\ calls[c].at_pc = "notify"
  /\ sink' = calls[c].alert.state
  /\ Goto(c, "settle")
  /\ UNCHANGED <<process, entry, delivering, disk, now, faults, crashes>>

\* An error of the sink, which may have seen the alert all the same.
NotifyFails(c) ==
  /\ calls[c].at_pc = "notify" /\ faults < MaxFaults
  /\ faults' = faults + 1
  /\ sink' \in {sink, calls[c].alert.state}
  /\ Goto(c, "unclaim")
  /\ UNCHANGED <<process, entry, delivering, disk, now, crashes>>

\* Mutant of Unclaim: the entry stays claimed after a failed delivery.
KeepClaim(c) ==
  /\ calls[c].at_pc = "unclaim"
  /\ Goto(c, "fail")
  /\ UNCHANGED <<process, entry, delivering, disk, sink, now, faults, crashes>>

Unclaim(c) ==
  /\ calls[c].at_pc = "unclaim"
  /\ delivering' = FALSE
  /\ Goto(c, "fail")
  /\ UNCHANGED <<process, entry, disk, sink, now, faults, crashes>>

\* Mutant of Acknowledged: the time of the delivered alert stays.
AcknowledgedAt == [entry EXCEPT !.lastNotified = entry.pendingAt,
                                !.pendingState = "none"]

Acknowledged == [entry EXCEPT !.lastNotified = entry.pendingAt,
                              !.pendingState = "none", !.pendingAt = 0]

StillPending(c) == calls[c].alert = Alert(entry.pendingState, entry.pendingAt)

\* The delivered alert is struck off, unless it was replaced meanwhile.
Settle(c) ==
  /\ calls[c].at_pc = "settle"
  /\ delivering' = FALSE
  /\ \/ /\ StillPending(c) /\ Persisted(Acknowledged)
        /\ Goto(c, calls[c].then)
     \/ /\ StillPending(c) /\ (RolledBack \/ CommittedWithError(Acknowledged))
        /\ Goto(c, "fail")
     \/ /\ ~StillPending(c)
        /\ Goto(c, IF entry.pendingState = "none" THEN calls[c].then ELSE "take")
        /\ UNCHANGED <<entry, disk, faults>>
  /\ UNCHANGED <<process, sink, now, crashes>>

-----------------------------------------------------------------------------
(* Raise and Resolve.  The clock is read before the first delivery.        *)

Call(c, op) ==
  /\ process = "up" /\ calls[c] = NoCall
  /\ calls' = [calls EXCEPT ![c] = [op |-> op, at |-> now, at_pc |-> "take",
                                    then |-> "update", alert |-> NoAlert]]
  /\ UNCHANGED <<process, entry, delivering, disk, sink, now, faults, crashes>>

\* Whether Raise has something to tell: a new alert, or a reminder.
Emit(at) ==
  LET last == Latest(entry.lastNotified, entry.pendingAt)
  IN  ~entry.active \/ last = 0 \/ at >= last + Cooldown

Raised(at) ==
  IF Emit(at)
  THEN [entry EXCEPT !.exists = TRUE, !.active = TRUE,
                     !.pendingState = "firing", !.pendingAt = at]
  ELSE [entry EXCEPT !.active = TRUE]

RaiseUpdate(c) ==
  /\ calls[c].at_pc = "update" /\ calls[c].op = "raise"
  /\ LET at == calls[c].at
     IN  \/ /\ Persisted(Raised(at))
            /\ IF Emit(at)
               THEN calls' = [calls EXCEPT ![c].at_pc = "take", ![c].then = "return"]
               ELSE Goto(c, "return")
         \/ (RolledBack \/ CommittedWithError(Raised(at))) /\ Goto(c, "fail")
  /\ UNCHANGED <<process, delivering, sink, now, crashes>>

Resolved(at) ==
  [entry EXCEPT !.active = FALSE, !.pendingState = "resolved", !.pendingAt = at]

ResolveUpdate(c) ==
  /\ calls[c].at_pc = "update" /\ calls[c].op = "resolve"
  /\ \/ /\ ~entry.active
        /\ Goto(c, "return") /\ UNCHANGED <<entry, disk, faults>>
     \/ /\ entry.active /\ Persisted(Resolved(calls[c].at))
        /\ calls' = [calls EXCEPT ![c].at_pc = "take", ![c].then = "return"]
     \/ /\ entry.active
        /\ RolledBack \/ CommittedWithError(Resolved(calls[c].at))
        /\ Goto(c, "fail")
  /\ UNCHANGED <<process, delivering, sink, now, crashes>>

\* The call returns; during the replay an error ends NewAlertManager.
Returns(c) ==
  /\ calls[c].at_pc \in {"return", "fail"}
  /\ Return(c)
  /\ process' = IF process = "up" THEN "up"
                ELSE IF calls[c].at_pc = "fail" THEN "down" ELSE "up"
  /\ UNCHANGED <<entry, delivering, disk, sink, now, faults, crashes>>

-----------------------------------------------------------------------------
Crash ==
  /\ process # "down" /\ crashes < MaxCrashes
  /\ crashes' = crashes + 1
  /\ process' = "down"
  /\ calls' = [c \in Callers |-> NoCall]
  /\ UNCHANGED <<entry, delivering, disk, sink, now, faults>>

\* NewAlertManager: loadState, then replayPending.
Start(c) ==
  /\ process = "down"
  /\ entry' = disk /\ delivering' = FALSE
  /\ process' = "replaying"
  /\ calls' = [calls EXCEPT ![c] = [op |-> "replay", at |-> now, at_pc |-> "take",
                                    then |-> "return", alert |-> NoAlert]]
  /\ UNCHANGED <<disk, sink, now, faults, crashes>>

Tick == now < MaxTime /\ now' = now + 1
        /\ UNCHANGED <<process, entry, delivering, disk, calls, sink, faults, crashes>>

DeliverStep(c) ==
  TakePending(c) \/ Notify(c) \/ NotifyFails(c) \/ Unclaim(c) \/ Settle(c)

CallStep(c) == DeliverStep(c) \/ RaiseUpdate(c) \/ ResolveUpdate(c) \/ Returns(c)

Next ==
  \/ \E c \in Callers :
       CallStep(c) \/ Start(c) \/ \E op \in {"raise", "resolve"} : Call(c, op)
  \/ Crash
  \/ Tick

Spec == Init /\ [][Next]_vars

\* Every call runs to its end, a supervisor restarts the daemon, and the daemon
\* keeps reporting the condition, as every generation and every reconciliation
\* does.  Nothing makes the sink or the file succeed: faults are only bounded.
Fairness ==
  /\ \A c \in Callers : WF_vars(CallStep(c))
  /\ WF_vars(\E c \in Callers : Start(c))
  /\ \A c \in Callers : WF_vars(\E op \in {"raise", "resolve"} : Call(c, op))

FairSpec == Spec /\ Fairness

-----------------------------------------------------------------------------
(* Properties.                                                             *)

\* Whenever nothing is left to deliver, the sink was last told what the alert is:
\* no interleaving of raises, resolutions and deliveries, no failed write or
\* delivery and no crash leaves the operator with the opposite state and nothing
\* pending that would correct it.
SinkAgrees ==
  disk.exists /\ disk.pendingState = "none" =>
    sink = IF disk.active THEN "firing" ELSE "resolved"

\* What loadState accepts of an entry: it was notified or has something to notify.
\* The limit on the number of entries is not about one alert: under one configuration
\* it leaves room for all of them.
LoadAccepts ==
  disk.exists => /\ disk.lastNotified # 0 \/ disk.pendingState # "none"
                 /\ disk.pendingState = "none" <=> disk.pendingAt = 0

\* A pending alert reaches the sink in the end: a failed delivery gives up its
\* claim on the entry, and the next call or the next start delivers it.
PendingReachesSink ==
  disk.pendingState # "none" ~> \E c \in Callers : calls[c].at_pc = "settle"

=============================================================================
