------------------------------- MODULE Admission -------------------------------
(***************************************************************************)
(* The AdmissionController: the rolling limits on paid attempts that the   *)
(* coordinators of all networks share, its cached counters, its database   *)
(* and its clock.  Admit holds a mutex, so a call is one action.           *)
(*                                                                         *)
(* An attempt stands for a network, an incident and an attempt number; its *)
(* token, source event and unknown flag come with it.                      *)
(***************************************************************************)
EXTENDS Integers, Sequences, FiniteSets, FiniteSetsExt

CONSTANTS
  Attempts,
  Token, Event,        \* of an attempt
  UnknownTokens,       \* tokens that are not configured
  Window, RateWindow, RateLimit,
  MaxAttemptsPerToken, MaxAttemptsPerSourceEvent, MaxNewUnknownTokens, Capacity,
  MaxTime,             \* bound on the clock
  MaxFaults,           \* bound on failed writes
  MaxRestarts          \* bound on restarts

\* What NewAdmissionController requires of its configuration.
ASSUME AdmissionConfig ==
  /\ {Window, RateWindow, RateLimit, MaxAttemptsPerToken, MaxAttemptsPerSourceEvent,
      MaxNewUnknownTokens, Capacity} \subseteq Nat \ {0}
  /\ RateWindow <= Window
  /\ {MaxTime, MaxFaults, MaxRestarts} \subseteq Nat

VARIABLES
  records,    \* admitted attempts in memory, oldest first
  counts,     \* cached counters: tokens, events, unknown and latest
  disk,       \* durable: the records
  lastNow,    \* the latest time the controller has acted on
  clock,
  floor,      \* history: the latest time an earlier life of the process acted on
  admitted,   \* history: every attempt that was allowed, with its time
  faults, restarts

vars == <<records, counts, disk, lastNow, clock, floor, admitted, faults, restarts>>

Tokens == {Token[a] : a \in Attempts}
Events == {Event[a] : a \in Attempts}

Unknown(a) == Token[a] \in UnknownTokens

-----------------------------------------------------------------------------
(* The counters.                                                           *)

NoCounts ==
  [tokens |-> [t \in Tokens |-> 0], events |-> [e \in Events |-> 0],
   unknown |-> [t \in Tokens |-> 0], latest |-> [t \in Tokens |-> 0]]

Add(c, r) ==
  LET t == Token[r.attempt]
      more == [c EXCEPT !.tokens[t] = @ + 1, !.events[Event[r.attempt]] = @ + 1]
  IN  IF Unknown(r.attempt)
      THEN [more EXCEPT !.unknown[t] = @ + 1,
                        !.latest[t] = IF r.at > @ THEN r.at ELSE @]
      ELSE more

\* Mutant of Less: the counter goes with the first record that leaves.
LessAll(n) == 0

\* decrementAdmissionCount.
Less(n) == IF n <= 1 THEN 0 ELSE n - 1

\* remove.  recomputeLatest runs while the record is still in the list, so that
\* a latest time equal to the record's stays as it is.
Remove(c, r) ==
  LET t == Token[r.attempt]
      less == [c EXCEPT !.tokens[t] = Less(@), !.events[Event[r.attempt]] = Less(@)]
  IN  IF Unknown(r.attempt)
      THEN [less EXCEPT !.unknown[t] = Less(@),
                        !.latest[t] = IF c.unknown[t] <= 1 THEN 0 ELSE @]
      ELSE less

\* What OpenAdmissionController counts over the records it loads.
CountsOf(s) ==
  LET upTo[k \in 0..Len(s)] == IF k = 0 THEN NoCounts ELSE Add(upTo[k - 1], s[k])
  IN  upTo[Len(s)]

\* prune: records leave from the front, up to the first one still in the window.
Expired(s, now) ==
  Max({0} \cup {k \in 1..Len(s) : \A i \in 1..k : now >= s[i].at + Window})

Prune(now) ==
  LET n == Expired(records, now)
      without[k \in 0..n] ==
        IF k = 0 THEN counts ELSE Remove(without[k - 1], records[k])
  IN  [records |-> SubSeq(records, n + 1, Len(records)), counts |-> without[n]]

-----------------------------------------------------------------------------
(* The limits, over a pruned state m and the effective time.               *)

Ats(m, Sel(_)) == {i \in 1..Len(m.records) : Sel(m.records[i].attempt)}

\* Mutant of RateCount: the rate window is one too short.
RateCountShort(m, now) ==
  Cardinality({i \in 1..Len(m.records) : m.records[i].at > now - RateWindow + 1})

RateCount(m, now) ==
  Cardinality({i \in 1..Len(m.records) : m.records[i].at > now - RateWindow})

UnknownCount(m) == Cardinality({t \in Tokens : m.counts.unknown[t] > 0})

Found(m, a) == \E i \in 1..Len(m.records) : m.records[i].attempt = a

\* The first limit that refuses an attempt, in the order Admit looks at them.
Reason(m, a, now) ==
  CASE RateCount(m, now) >= RateLimit -> "rate"
    [] m.counts.tokens[Token[a]] >= MaxAttemptsPerToken -> "token"
    [] m.counts.events[Event[a]] >= MaxAttemptsPerSourceEvent -> "event"
    [] /\ Unknown(a) /\ m.counts.unknown[Token[a]] = 0
       /\ UnknownCount(m) >= MaxNewUnknownTokens -> "unknown"
    [] Len(m.records) >= Capacity -> "capacity"
    [] OTHER -> "allowed"

FirstAt(m, Sel(_)) == m.records[Min(Ats(m, Sel))].at

\* Mutant of RetryAt: every limit is thought to go with the oldest record.
RetryAtFirst(m, a, now, why) ==
  m.records[1].at + (IF why = "rate" THEN RateWindow ELSE Window)

\* When Admit tells the caller to try again.
RetryAt(m, a, now, why) ==
  CASE why = "rate" ->
         Min({m.records[i].at : i \in {j \in 1..Len(m.records) :
                m.records[j].at > now - RateWindow}}) + RateWindow
    [] why = "token" -> FirstAt(m, LAMBDA b : Token[b] = Token[a]) + Window
    [] why = "event" -> FirstAt(m, LAMBDA b : Event[b] = Event[a]) + Window
    [] why = "unknown" ->
         Min({m.counts.latest[t] : t \in {u \in Tokens : m.counts.unknown[u] > 0}}) + Window
    [] why = "capacity" -> m.records[1].at + Window

-----------------------------------------------------------------------------
Init ==
  /\ records = <<>> /\ disk = <<>> /\ counts = NoCounts
  /\ lastNow = 0 /\ clock = 1 /\ floor = 0
  /\ admitted = {} /\ faults = 0 /\ restarts = 0

EffectiveNow == IF clock < lastNow THEN lastNow ELSE clock

Memory(m) == records' = m.records /\ counts' = m.counts

StoreFails == faults < MaxFaults /\ faults' = faults + 1 /\ UNCHANGED disk

\* Mutant of Store: nothing is written before the process ends.
StoreSkipped(m) == UNCHANGED <<disk, faults>>

\* Store(records): the bucket is rewritten in one transaction.
Store(m) == disk' = m.records /\ UNCHANGED faults

\* The first write of Admit fails: memory is pruned, the file is not.
PruneNotStored ==
  \E m \in {Prune(EffectiveNow)} :
    Memory(m) /\ StoreFails /\ UNCHANGED admitted

\* An invalid request, or one that contradicts the admitted attempt of its key, is
\* refused for good.  One whose observation lies too far from the clock is refused
\* before anything is read or pruned, and changes nothing.
Refused ==
  \E m \in {Prune(EffectiveNow)} : Memory(m) /\ Store(m) /\ UNCHANGED admitted

\* Already admitted, or refused by a limit: nothing is counted.
NotCounted(a) ==
  \E m \in {Prune(EffectiveNow)} :
    /\ Found(m, a) \/ Reason(m, a, EffectiveNow) # "allowed"
    /\ Memory(m) /\ Store(m) /\ UNCHANGED admitted

With(m, r) == [records |-> Append(m.records, r), counts |-> Add(m.counts, r)]

Counted(a) ==
  \E m \in {Prune(EffectiveNow)} : \E r \in {[attempt |-> a, at |-> EffectiveNow]} :
    /\ ~Found(m, a) /\ Reason(m, a, EffectiveNow) = "allowed"
    /\ \/ /\ Memory(With(m, r)) /\ Store(With(m, r))
          /\ admitted' = admitted \cup {r}
       \/ \* The second write fails: the record is taken out of memory again.
          /\ Memory([records |-> m.records, counts |-> Remove(Add(m.counts, r), r)])
          /\ faults < MaxFaults /\ faults' = faults + 1 /\ disk' = m.records
          /\ UNCHANGED admitted

Admit(a) ==
  /\ PruneNotStored \/ Refused \/ NotCounted(a) \/ Counted(a)
  /\ lastNow' = EffectiveNow
  /\ UNCHANGED <<clock, floor, restarts>>

\* A restart, after a crash or a Close: OpenAdmissionController.  Only the records
\* carry the time over, so the clock is assumed not to have gone back by then.
Open ==
  /\ restarts < MaxRestarts /\ restarts' = restarts + 1
  /\ clock >= lastNow /\ floor' = lastNow
  /\ records' = disk /\ counts' = CountsOf(disk)
  /\ lastNow' = Max({0} \cup {disk[i].at : i \in 1..Len(disk)})
  /\ UNCHANGED <<disk, clock, admitted, faults>>

\* The clock moves on or is set back, though not behind an earlier life.
Tick ==
  /\ \/ clock < MaxTime /\ clock' = clock + 1
     \/ clock > 1 /\ clock > floor /\ clock' = clock - 1
  /\ UNCHANGED <<records, counts, disk, lastNow, floor, admitted, faults, restarts>>

Next == (\E a \in Attempts : Admit(a)) \/ Open \/ Tick

Spec == Init /\ [][Next]_vars

-----------------------------------------------------------------------------
(* Properties.                                                             *)

Within(t, length) == {r \in admitted : t - length < r.at /\ r.at <= t}

\* Over any interval of the windows' length, counting every attempt ever allowed
\* and not only the remembered ones, no limit is exceeded: not by restarts, failed
\* writes, pruned records or a clock that runs back.
RollingAdmission ==
  \A t \in 1..MaxTime :
    /\ Cardinality(Within(t, RateWindow)) <= RateLimit
    /\ \A k \in Tokens :
         Cardinality({r \in Within(t, Window) : Token[r.attempt] = k}) <= MaxAttemptsPerToken
    /\ \A e \in Events :
         Cardinality({r \in Within(t, Window) : Event[r.attempt] = e})
           <= MaxAttemptsPerSourceEvent
    /\ Cardinality({Token[r.attempt] : r \in Within(t, Window)} \cap UnknownTokens)
         <= MaxNewUnknownTokens

\* The cached counters are the ones of the remembered records: what Add counts
\* in, every way of leaving counts out again.
CountersAgree ==
  LET fresh == CountsOf(records)
  IN  /\ counts.tokens = fresh.tokens /\ counts.events = fresh.events
      /\ counts.unknown = fresh.unknown

\* Every attempt ever allowed is in the file for as long as it counts, and the list
\* is ordered by time, which prune, rateCount and the retry times rely on.
AdmittedRemembered ==
  /\ \A s \in {records, disk} : \A i, j \in 1..Len(s) : i < j => s[i].at <= s[j].at
  /\ \A r \in admitted : EffectiveNow < r.at + Window =>
       \E i \in 1..Len(disk) : disk[i] = r

\* The time a refused caller is told to come back at lies ahead, and the limit
\* that refused it no longer does then, if nothing else was admitted meanwhile: a
\* refusal never sends its caller round in circles.
RetryAtHelps ==
  \A a \in Attempts :
    LET now == EffectiveNow
        m == Prune(now)
        why == Reason(m, a, now)
        at == RetryAt(m, a, now, why)
    IN  ~Found(m, a) /\ why # "allowed" =>
          /\ at > now
          /\ Reason(Prune(at), a, at) # why

=============================================================================
