--------------------------- MODULE SponsorOwnership ---------------------------
(***************************************************************************)
(* Which process may sign for the sponsor: the start-up of newDaemon, the  *)
(* shutdown, the kernel fences (flock) of the host, the bbolt file locks   *)
(* of the stores, the ledger and the admission records, the leases in the  *)
(* stores, and guardSigning.                                               *)
(*                                                                         *)
(* A fence is a file at a fixed path; a lock belongs to the inode, so a    *)
(* file that was removed and created again is a new inode, which a second  *)
(* process can lock.  Networks are numbered in configuration order.        *)
(***************************************************************************)
EXTENDS Integers, Sequences, FiniteSets

CONSTANTS
  Procs,            \* processes on the host, all configured for one sponsor
  Layouts,          \* assignments of state directories to the processes
  NetworkCount,     \* configured networks
  TTL,              \* processLeaseTTL
  NoProc,           \* owner of a free lock
  MaxTime,          \* bound on the clock
  MaxCrashes,       \* bound on crashes
  MaxReplacements   \* bound on removals of a fence file

Networks == 1..NetworkCount

ASSUME OwnershipConstants ==
  /\ NoProc \notin Procs
  /\ NetworkCount \in Nat \ {0} /\ TTL \in Nat \ {0}
  /\ {MaxTime, MaxCrashes, MaxReplacements} \subseteq Nat

VARIABLES
  mode,      \* of a process: down, starting, running or stopping
  pc,        \* start-up steps done, then shutdown steps still to do
  inode,     \* the inode at the path of a fence
  locks,     \* who has locked an inode of a fence
  fence,     \* the inode a process has locked, 0 for none
  files,     \* who has locked the bbolt file at a path
  lease,     \* durable: the lease record of a directory and network
  mine,      \* Coordinator.lease
  lost,      \* Coordinator.leaseLost is closed
  guard,     \* progress of guardSigning: none, fenced, guarded
  stale,     \* history: signatures after another process took the fence over
  now, crashes, replaced,
  dir        \* rigid: the state directory each process is configured with

ownVars == <<mode, pc, inode, locks, fence, files, lease, mine, lost, guard, stale>>
vars == <<ownVars, now, crashes, replaced, dir>>

-----------------------------------------------------------------------------
Dirs == {dir[p] : p \in Procs}

\* 0 stands for the budget fence of the sponsor.
Fences == 0..NetworkCount

Inodes == 1..MaxReplacements + 1

\* bbolt files: admission, the store of every network, the ledger.
Files == 0..NetworkCount + 1
Admission == 0
Ledger == NetworkCount + 1

\* The stores lie in the state directory of a process.  The ledger and the admission
\* records have a place of their own that only the sponsor determines.
Places == Dirs \cup {"sponsor"}

Path(p, x) == <<IF x \in Networks THEN dir[p] ELSE "sponsor", x>>

NoLease == [owner |-> NoProc, expires |-> 0]

Step(kind, of) == [kind |-> kind, of |-> of]

ForNetworks(kind) == [n \in Networks |-> Step(kind, n)]

\* What newDaemon acquires, in order.
StartUp ==
  <<Step("fence", 0)>> \o ForNetworks("fence") \o <<Step("file", Admission)>>
    \o ForNetworks("file") \o <<Step("file", Ledger)>> \o ForNetworks("lease")

\* Mutant of ShutDown: the budget fence goes with the other fences.
ShutDownFencesFirst ==
  ForNetworks("lease") \o <<Step("fence", 0)>> \o ForNetworks("fence")
    \o ForNetworks("file") \o <<Step("file", Ledger), Step("file", Admission)>>

\* What shutdown and the clean-up of newDaemon release, in order.
ShutDown ==
  ForNetworks("lease") \o ForNetworks("fence") \o ForNetworks("file")
    \o <<Step("file", Ledger), Step("file", Admission), Step("fence", 0)>>

-----------------------------------------------------------------------------
Init ==
  /\ dir \in Layouts
  /\ mode = [p \in Procs |-> "down"]
  /\ pc = [p \in Procs |-> 0]
  /\ inode = [f \in Fences |-> 1]
  /\ locks = [x \in Fences \X Inodes |-> NoProc]
  /\ fence = [p \in Procs |-> [f \in Fences |-> 0]]
  /\ files = [x \in Places \X Files |-> NoProc]
  /\ lease = [x \in Dirs \X Networks |-> NoLease]
  /\ mine = [p \in Procs |-> [n \in Networks |-> NoLease]]
  /\ lost = [p \in Procs |-> {}]
  /\ guard = [p \in Procs |-> [n \in Networks |-> "none"]]
  /\ stale = [p \in Procs |-> [n \in Networks |-> 0]]
  /\ now = 0 /\ crashes = 0 /\ replaced = 0

(* Parts of a start-up step.                                               *)

\* acquireProcessFenceFile.
AcquireFence(p, f) ==
  /\ locks[<<f, inode[f]>>] = NoProc
  /\ locks' = [locks EXCEPT ![<<f, inode[f]>>] = p]
  /\ fence' = [fence EXCEPT ![p][f] = inode[f]]
  /\ UNCHANGED <<files, lease, mine>>

\* bolt.Open locks the file or times out.
OpenFile(p, x) ==
  /\ files[Path(p, x)] = NoProc
  /\ files' = [files EXCEPT ![Path(p, x)] = p]
  /\ UNCHANGED <<locks, fence, lease, mine>>

\* Mutant of Acquire: an unexpired lease of another owner is overwritten.
AcquireAnyway(p, n) ==
  /\ lease' = [lease EXCEPT ![<<dir[p], n>>] = [owner |-> p, expires |-> now + TTL]]
  /\ mine' = [mine EXCEPT ![p][n] = lease'[<<dir[p], n>>]]
  /\ UNCHANGED <<locks, fence, files>>

\* Mutant of Acquire: an expired lease is not taken over either.
AcquireUnowned(p, n) ==
  /\ lease[<<dir[p], n>>].owner = NoProc
  /\ lease' = [lease EXCEPT ![<<dir[p], n>>] = [owner |-> p, expires |-> now + TTL]]
  /\ mine' = [mine EXCEPT ![p][n] = lease'[<<dir[p], n>>]]
  /\ UNCHANGED <<locks, fence, files>>

\* BoltStore.Acquire: an unexpired lease is not taken over.
Acquire(p, n) ==
  /\ lease[<<dir[p], n>>].expires <= now
  /\ lease' = [lease EXCEPT ![<<dir[p], n>>] = [owner |-> p, expires |-> now + TTL]]
  /\ mine' = [mine EXCEPT ![p][n] = lease'[<<dir[p], n>>]]
  /\ UNCHANGED <<locks, fence, files>>

Take(p, s) ==
  \/ s.kind = "fence" /\ AcquireFence(p, s.of)
  \/ s.kind = "file" /\ OpenFile(p, s.of)
  \/ s.kind = "lease" /\ Acquire(p, s.of)

-----------------------------------------------------------------------------
(* The life of a process.                                                  *)

Start(p) ==
  /\ mode[p] = "down"
  /\ mode' = [mode EXCEPT ![p] = "starting"]
  /\ pc' = [pc EXCEPT ![p] = 0]
  /\ lost' = [lost EXCEPT ![p] = {}]
  /\ mine' = [mine EXCEPT ![p] = [n \in Networks |-> NoLease]]
  /\ stale' = [stale EXCEPT ![p] = [n \in Networks |-> 0]]
  /\ UNCHANGED <<inode, locks, fence, files, lease, guard, now, crashes, replaced, dir>>

Advance(p) ==
  /\ mode[p] = "starting" /\ pc[p] < Len(StartUp)
  /\ Take(p, StartUp[pc[p] + 1])
  /\ pc' = [pc EXCEPT ![p] = @ + 1]
  /\ mode' = [mode EXCEPT ![p] = IF pc'[p] = Len(StartUp) THEN "running" ELSE @]
  /\ UNCHANGED <<inode, lost, guard, stale, now, crashes, replaced, dir>>

GiveUp(p) ==
  /\ \A n \in Networks : guard[p][n] = "none"
  /\ mode' = [mode EXCEPT ![p] = "stopping"]
  /\ pc' = [pc EXCEPT ![p] = 0]
  /\ lost' = [lost EXCEPT ![p] = Networks]
  /\ UNCHANGED <<inode, locks, fence, files, lease, mine, guard, stale, now, replaced, dir>>

\* Whether a start-up step finds its resource free.
Free(p, s) ==
  \/ s.kind = "fence" /\ locks[<<s.of, inode[s.of]>>] = NoProc
  \/ s.kind = "file" /\ files[Path(p, s.of)] = NoProc
  \/ s.kind = "lease" /\ lease[<<dir[p], s.of>>].expires <= now

\* newDaemon returns an error: its deferred clean-up gives everything back.  A
\* step refused by the state of the host always does; any other failure (I/O,
\* signers, policy) counts against the bound on crashes.
StartFails(p) ==
  /\ mode[p] = "starting"
  /\ \/ ~Free(p, StartUp[pc[p] + 1]) /\ UNCHANGED crashes
     \/ crashes < MaxCrashes /\ crashes' = crashes + 1
  /\ GiveUp(p)

\* Run ends, on a signal or because one of its workers ended, and shuts down.
Shutdown(p) == mode[p] = "running" /\ GiveUp(p) /\ UNCHANGED crashes

\* MaintainLease ended with an error, which ends Run.
LeaseWorkerEnds(p) == lost[p] # {} /\ Shutdown(p)

\* BoltStore.Release: only the very lease that was acquired is deleted.
Release(p, n) ==
  /\ lease' = IF lease[<<dir[p], n>>] = mine[p][n] /\ mine[p][n].expires > now
              THEN [lease EXCEPT ![<<dir[p], n>>] = NoLease] ELSE lease
  /\ UNCHANGED <<locks, fence, files>>

ReleaseFence(p, f) ==
  /\ locks' = [x \in DOMAIN locks |->
                 IF x[1] = f /\ x[2] = fence[p][f] THEN NoProc ELSE locks[x]]
  /\ fence' = [fence EXCEPT ![p][f] = 0]
  /\ UNCHANGED <<files, lease>>

CloseFile(p, x) ==
  /\ files' = [files EXCEPT ![Path(p, x)] = IF @ = p THEN NoProc ELSE @]
  /\ UNCHANGED <<locks, fence, lease>>

GiveBack(p, s) ==
  \/ s.kind = "lease" /\ Release(p, s.of)
  \/ s.kind = "fence" /\ ReleaseFence(p, s.of)
  \/ s.kind = "file" /\ CloseFile(p, s.of)

Unwind(p) ==
  /\ mode[p] = "stopping"
  /\ GiveBack(p, ShutDown[pc[p] + 1])
  /\ pc' = [pc EXCEPT ![p] = @ + 1]
  /\ mode' = [mode EXCEPT ![p] = IF pc'[p] = Len(ShutDown) THEN "down" ELSE @]
  /\ UNCHANGED <<inode, mine, lost, guard, stale, now, crashes, replaced, dir>>

\* The kernel drops the locks; the leases stay in the files until they expire.
\* The bound leaves the clock time to pass them.
Crash(p) ==
  /\ crashes < MaxCrashes /\ mode[p] # "down" /\ now + TTL <= MaxTime
  /\ crashes' = crashes + 1
  /\ mode' = [mode EXCEPT ![p] = "down"]
  /\ pc' = [pc EXCEPT ![p] = 0]
  /\ locks' = [x \in DOMAIN locks |-> IF locks[x] = p THEN NoProc ELSE locks[x]]
  /\ fence' = [fence EXCEPT ![p] = [f \in Fences |-> 0]]
  /\ files' = [x \in DOMAIN files |-> IF files[x] = p THEN NoProc ELSE files[x]]
  /\ guard' = [guard EXCEPT ![p] = [n \in Networks |-> "none"]]
  /\ UNCHANGED <<inode, lease, mine, lost, stale, now, replaced, dir>>

-----------------------------------------------------------------------------
(* A running process: MaintainLease and guardSigning.                      *)

\* What Renew and Validate of the store require of the persisted lease.
LeaseValid(p, n) == lease[<<dir[p], n>>] = mine[p][n] /\ mine[p][n].expires > now

\* One tick of MaintainLease; a failure ends signing for good.
Renew(p, n) ==
  /\ mode[p] = "running" /\ n \notin lost[p]
  /\ IF LeaseValid(p, n)
     THEN /\ lease' = [lease EXCEPT ![<<dir[p], n>>].expires = now + TTL]
          /\ mine' = [mine EXCEPT ![p][n] = lease'[<<dir[p], n>>]]
          /\ UNCHANGED lost
     ELSE /\ lost' = [lost EXCEPT ![p] = @ \cup {n}]
          /\ UNCHANGED <<lease, mine>>
  /\ UNCHANGED <<mode, pc, inode, locks, fence, files, guard, stale, now, crashes,
                 replaced, dir>>

\* Mutant of ValidateProcessFence: the lock that is held is enough.
FenceHeld(p, n) == fence[p][n] # 0

\* unixProcessFence.Validate: the path still names the locked inode.
ValidateProcessFence(p, n) == fence[p][n] = inode[n]

GuardFence(p, n) ==
  /\ mode[p] = "running" /\ guard[p][n] = "none"
  /\ ValidateProcessFence(p, n)
  /\ guard' = [guard EXCEPT ![p][n] = "fenced"]
  /\ UNCHANGED <<mode, pc, inode, locks, fence, files, lease, mine, lost, stale, now,
                 crashes, replaced, dir>>

GuardLease(p, n) ==
  /\ guard[p][n] = "fenced"
  /\ LET ok == n \notin lost[p] /\ LeaseValid(p, n)
     IN  /\ guard' = [guard EXCEPT ![p][n] = IF ok THEN "guarded" ELSE "none"]
         /\ lost' = IF ok THEN lost ELSE [lost EXCEPT ![p] = @ \cup {n}]
  /\ UNCHANGED <<mode, pc, inode, locks, fence, files, lease, mine, stale, now,
                 crashes, replaced, dir>>

\* Another process holds the fence that the path names now.
TakenOver(p, n) == locks[<<n, inode[n]>>] \notin {p, NoProc}

Sign(p, n) ==
  /\ guard[p][n] = "guarded"
  /\ guard' = [guard EXCEPT ![p][n] = "none"]
  /\ stale' = IF TakenOver(p, n) /\ stale[p][n] < 2
              THEN [stale EXCEPT ![p][n] = @ + 1] ELSE stale
  /\ UNCHANGED <<mode, pc, inode, locks, fence, files, lease, mine, lost, now, crashes,
                 replaced, dir>>

-----------------------------------------------------------------------------
\* Somebody removes all fence files; the next open creates new ones.
ReplaceFences ==
  /\ replaced < MaxReplacements
  /\ replaced' = replaced + 1
  /\ inode' = [f \in Fences |-> inode[f] + 1]
  /\ UNCHANGED <<mode, pc, locks, fence, files, lease, mine, lost, guard, stale, now,
                 crashes, dir>>

Tick ==
  /\ now < MaxTime
  /\ now' = now + 1
  /\ UNCHANGED <<ownVars, crashes, replaced, dir>>

Next ==
  \/ \E p \in Procs :
       \/ Start(p) \/ Advance(p) \/ StartFails(p) \/ Shutdown(p) \/ Unwind(p)
       \/ Crash(p)
       \/ \E n \in Networks :
            Renew(p, n) \/ GuardFence(p, n) \/ GuardLease(p, n) \/ Sign(p, n)
  \/ ReplaceFences
  \/ Tick

Spec == Init /\ [][Next]_vars

\* A supervisor restarts the daemon, newDaemon, shutdown and the lease worker
\* run to their end, and time passes.  The end of the lease worker is strongly
\* fair: it cancels the context of every other worker, so that an operation under
\* way can delay the shutdown but new ones cannot hold it off for good.
Fairness ==
  /\ WF_vars(Tick)
  /\ \A p \in Procs :
       /\ WF_vars(Start(p)) /\ WF_vars(Advance(p)) /\ WF_vars(Unwind(p))
       /\ SF_vars(LeaseWorkerEnds(p))
       /\ \A n \in Networks : WF_vars(GuardLease(p, n)) /\ WF_vars(Sign(p, n))

FairSpec == Spec /\ Fairness

-----------------------------------------------------------------------------
(* Properties.                                                             *)

\* A process has a part of the sponsor's state or the right to sign.
Active(p) ==
  \/ mode[p] = "running"
  \/ \E n \in Networks : fence[p][n] # 0 \/ guard[p][n] # "none"
  \/ \E x \in DOMAIN files : files[x] = p

\* While nobody touches the fence files, two processes of one sponsor never have
\* a ledger, a store or the right to sign at the same time, even with different
\* state directories: the budget fence is taken first by newDaemon, given back
\* last by shutdown and by the clean-up of a failed start.  With the fence files
\* replaced they still never run at the same time, because the admission records
\* of the sponsor have one path and are locked before the first store is opened.
OneOwner ==
  \A p, q \in Procs :
    \/ replaced = 0 /\ Active(p) /\ Active(q)
    \/ mode[p] = "running" /\ mode[q] = "running"
    => p = q

\* With the fence files replaced under a running process, a second one can take the
\* fences over; the first then signs at most the one action it had already
\* validated, because guardSigning validates the fence before every signature.
StaleOwnerSignsOnce == \A p \in Procs, n \in Networks : stale[p][n] <= 1

\* A process that takes over the state directory of a crashed one is not past its
\* guard before the crashed one's lease has expired: Acquire refuses until then,
\* whatever was renewed last.
TakeoverWaits ==
  \A p, q \in Procs : \A n \in Networks :
    /\ p # q /\ dir[p] = dir[q]
    /\ mode[p] = "down" /\ n \notin lost[p] /\ guard[q][n] = "guarded"
    => mine[p][n].expires <= now

\* Whatever crashed, failed to start, lost its lease or lost its fence, some
\* process gets to run with all its leases again: no failed start leaves a lock or
\* a lease behind that would stop the next one for good.
OwnerReturns == []<>(\E p \in Procs : mode[p] = "running" /\ lost[p] = {})

=============================================================================
