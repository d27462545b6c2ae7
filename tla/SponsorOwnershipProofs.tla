----------------------- MODULE SponsorOwnershipProofs -----------------------
(***************************************************************************)
(* The sponsor has one owner, a process that lost its fence signs once at  *)
(* most, and a takeover waits for the lease of the crashed owner, for any  *)
(* processes, networks, state directories, crashes and replaced fences.    *)
(***************************************************************************)
EXTENDS SponsorOwnership, TLAPS

-----------------------------------------------------------------------------
(* The invariant.                                                          *)

Leases == [owner : Procs \cup {NoProc}, expires : Nat]

TypesOK ==
  /\ DOMAIN mode = Procs /\ DOMAIN pc = Procs /\ \A p \in Procs : pc[p] \in Nat
  /\ DOMAIN locks = Fences \X Inodes
  /\ files \in [Places \X Files -> Procs \cup {NoProc}]
  /\ lease \in [Dirs \X Networks -> Leases]
  /\ mine \in [Procs -> [Networks -> Leases]]
  /\ DOMAIN lost = Procs
  /\ guard \in [Procs -> [Networks -> {"none", "fenced", "guarded"}]]
  /\ DOMAIN stale = Procs /\ \A p \in Procs : DOMAIN stale[p] = Networks
  /\ now \in Nat

\* A lock that a process knows of is its own, on an inode that was at the path.
FencesOK ==
  /\ replaced \in 0..MaxReplacements
  /\ inode = [f \in Fences |-> replaced + 1]
  /\ fence \in [Procs -> [Fences -> 0..replaced + 1]]
  /\ \A p \in Procs, f \in Fences : fence[p][f] # 0 => locks[<<f, fence[p][f]>>] = p

\* A process only opens files at its own paths.
FilesOK ==
  \A p \in Procs, y \in Places \X Files : files[y] = p => y = Path(p, y[2])

Guarding(p) == \E n \in Networks : guard[p][n] # "none"

\* A process has something that the budget fence protects.
Holding(p) ==
  \/ \E n \in Networks : fence[p][n] # 0
  \/ \E x \in Files : files[Path(p, x)] = p

\* What was given back after k steps of the shutdown.
GivenBack(p, k) ==
  /\ \A n \in Networks : k >= NetworkCount + n => fence[p][n] = 0
  /\ \A n \in Networks : k >= 2 * NetworkCount + n => files[Path(p, n)] # p
  /\ k >= 3 * NetworkCount + 1 => files[Path(p, Ledger)] # p
  /\ k >= 3 * NetworkCount + 2 => files[Path(p, Admission)] # p

\* The life of a process: the budget fence comes first and goes last.
LifeOK(p) ==
  /\ mode[p] \in {"down", "starting", "running", "stopping"}
  /\ Holding(p) => fence[p][0] # 0
  /\ Guarding(p) => mode[p] = "running"
  /\ mode[p] = "down" => ~Holding(p)
  /\ mode[p] = "starting" =>
       /\ pc[p] < Len(StartUp)
       /\ pc[p] = 0 => ~Holding(p)
       /\ pc[p] > 0 => fence[p][0] # 0
       /\ pc[p] >= NetworkCount + 2 => files[Path(p, Admission)] = p
       /\ \A n \in Networks : stale[p][n] = 0
  /\ mode[p] = "running" =>
       fence[p][0] # 0 /\ files[Path(p, Admission)] = p
  /\ mode[p] = "stopping" =>
       /\ pc[p] < Len(ShutDown) /\ lost[p] = Networks
       /\ GivenBack(p, pc[p])

\* A signature after a takeover was the last one.
StaleOK ==
  \A p \in Procs, n \in Networks :
    \/ stale[p][n] = 0
    \/ stale[p][n] = 1 /\ guard[p][n] = "none" /\ fence[p][n] # inode[n]

\* A lease that its owner has not lost is in the file until it expires.
LeasesOK ==
  /\ \A p \in Procs, n \in Networks :
       /\ mine[p][n].expires > 0 => mine[p][n].owner = p
       /\ n \notin lost[p] /\ mine[p][n].expires > now =>
            lease[<<dir[p], n>>] = mine[p][n]
  /\ \A p, q \in Procs, n \in Networks :
       p # q /\ dir[p] = dir[q] /\ n \notin lost[p] /\ guard[q][n] = "guarded" =>
         mine[p][n].expires <= now

OwnInv ==
  /\ TypesOK /\ FencesOK /\ FilesOK /\ StaleOK /\ LeasesOK
  /\ \A p \in Procs : LifeOK(p)

-----------------------------------------------------------------------------
(* The steps of newDaemon and of the shutdown, by their position.          *)

Kinds == {"fence", "file", "lease"}
Steps == [kind : Kinds, of : Nat]

LEMMA Numbers ==
  /\ NetworkCount \in Nat /\ NetworkCount > 0 /\ TTL \in Nat /\ TTL > 0
  /\ MaxReplacements \in Nat
  /\ Networks = 1..NetworkCount
BY OwnershipConstants DEF Networks

LEMMA PastFences ==
  ASSUME NEW i \in Nat, NEW n \in Nat, i + 1 >= n + 2
  PROVE  i # 0 /\ (i + 1 = n + 2 \/ i >= n + 2)
OBVIOUS

LEMMA StepShape ==
  ASSUME NEW kind \in Kinds, NEW n \in Nat
  PROVE  /\ <<Step(kind, n)>> \in Seq(Steps) /\ Len(<<Step(kind, n)>>) = 1
         /\ <<Step(kind, n)>>[1] = Step(kind, n)
         /\ Step(kind, n).kind = kind /\ Step(kind, n).of = n
BY DEF Steps, Kinds, Step

LEMMA ForNetworksShape ==
  ASSUME NEW kind \in Kinds
  PROVE  /\ ForNetworks(kind) \in Seq(Steps)
         /\ Len(ForNetworks(kind)) = NetworkCount
         /\ \A n \in Networks : ForNetworks(kind)[n] = Step(kind, n)
BY Numbers DEF Steps, Kinds, Step, ForNetworks

\* The position of what is appended.
LEMMA Appended ==
  ASSUME NEW s \in Seq(Steps), NEW t \in Seq(Steps)
  PROVE  /\ s \o t \in Seq(Steps) /\ Len(s \o t) = Len(s) + Len(t)
         /\ Len(s) \in Nat /\ Len(t) \in Nat
         /\ \A k \in 1..Len(s) : (s \o t)[k] = s[k]
         /\ \A k \in 1..Len(t) : (s \o t)[Len(s) + k] = t[k]
<1>1. Len(s) \in Nat /\ Len(t) \in Nat
  OBVIOUS
<1>2. /\ s \o t \in Seq(Steps) /\ Len(s \o t) = Len(s) + Len(t)
      /\ \A i \in 1..Len(s) + Len(t) :
           (s \o t)[i] = IF i <= Len(s) THEN s[i] ELSE t[i - Len(s)]
  OBVIOUS
<1>3. \A k \in 1..Len(s) : k \in 1..Len(s) + Len(t) /\ k <= Len(s)
  BY <1>1
<1>4. \A k \in 1..Len(t) : /\ Len(s) + k \in 1..Len(s) + Len(t) /\ ~(Len(s) + k <= Len(s))
                            /\ (Len(s) + k) - Len(s) = k
  BY <1>1
<1>5. QED
  BY <1>1, <1>2, <1>3, <1>4, Zenon

LEMMA NetworksAppended ==
  ASSUME NEW s \in Seq(Steps), NEW kind \in Kinds
  PROVE  LET t == s \o ForNetworks(kind)
         IN  /\ t \in Seq(Steps) /\ Len(t) = Len(s) + NetworkCount
             /\ \A k \in 1..Len(s) : t[k] = s[k]
             /\ \A n \in Networks : t[Len(s) + n] = Step(kind, n)
<1>1. /\ ForNetworks(kind) \in Seq(Steps) /\ Len(ForNetworks(kind)) = NetworkCount
      /\ \A n \in Networks : ForNetworks(kind)[n] = Step(kind, n)
  BY ForNetworksShape
<1>2. Networks = 1..NetworkCount
  BY Numbers
<1>3. QED
  BY <1>1, <1>2, Appended, Zenon

\* What step k of newDaemon acquires.
StartUpStep(k, s) ==
  \/ k = 1 /\ s.kind = "fence" /\ s.of = 0
  \/ k \in 2..NetworkCount + 1 /\ s.kind = "fence" /\ s.of = k - 1
  \/ k = NetworkCount + 2 /\ s.kind = "file" /\ s.of = Admission
  \/ k \in NetworkCount + 3..2 * NetworkCount + 2 /\ s.kind = "file"
     /\ s.of = k - (NetworkCount + 2)
  \/ k = 2 * NetworkCount + 3 /\ s.kind = "file" /\ s.of = Ledger
  \/ k \in 2 * NetworkCount + 4..3 * NetworkCount + 3 /\ s.kind = "lease"
     /\ s.of = k - (2 * NetworkCount + 3)

LEMMA StartUpOrder ==
  /\ Len(StartUp) = 3 * NetworkCount + 3
  /\ \A k \in 1..Len(StartUp) : StartUpStep(k, StartUp[k])
<1> DEFINE N == NetworkCount
           a == <<Step("fence", 0)>>
           b == a \o ForNetworks("fence")
           x == <<Step("file", Admission)>>
           c == b \o x
           d == c \o ForNetworks("file")
           y == <<Step("file", Ledger)>>
           e == d \o y
           f == e \o ForNetworks("lease")
<1>1. Admission \in Nat /\ Ledger \in Nat /\ 0 \in Nat
  BY Numbers DEF Admission, Ledger
<1>2. StartUp = f
  BY DEF StartUp
<1>3. a \in Seq(Steps) /\ Len(a) = 1 /\ a[1] = Step("fence", 0)
  BY <1>1, StepShape DEF Kinds
<1>x. x \in Seq(Steps) /\ Len(x) = 1 /\ x[1] = Step("file", Admission)
  BY <1>1, StepShape DEF Kinds
<1>y. y \in Seq(Steps) /\ Len(y) = 1 /\ y[1] = Step("file", Ledger)
  BY <1>1, StepShape DEF Kinds
<1> HIDE DEF a, x, y
<1>4. /\ b \in Seq(Steps) /\ Len(b) = 1 + N /\ \A k \in 1..1 : b[k] = a[k]
      /\ \A n \in Networks : b[1 + n] = Step("fence", n)
  <2>1. /\ b \in Seq(Steps) /\ Len(b) = Len(a) + N /\ \A k \in 1..Len(a) : b[k] = a[k]
        /\ \A n \in Networks : b[Len(a) + n] = Step("fence", n)
    BY <1>3, NetworksAppended, Zenon DEF Kinds
  <2> HIDE DEF b
  <2>2. QED
    BY <1>3, <2>1
<1>5. Len(b) = N + 1
  BY <1>4, Numbers
<1> HIDE DEF b
<1>6. /\ c \in Seq(Steps) /\ Len(c) = (N + 1) + 1 /\ \A k \in 1..N + 1 : c[k] = b[k]
      /\ c[(N + 1) + 1] = Step("file", Admission)
  <2>1. /\ c \in Seq(Steps) /\ Len(c) = Len(b) + Len(x) /\ \A k \in 1..Len(b) : c[k] = b[k]
        /\ \A k \in 1..Len(x) : c[Len(b) + k] = x[k]
    BY <1>4, <1>x, Appended, Zenon
  <2> HIDE DEF c
  <2>2. QED
    BY <1>5, <1>x, <2>1
<1>7. Len(c) = N + 2 /\ c[N + 2] = Step("file", Admission)
  BY <1>6, Numbers
<1> HIDE DEF c
<1>8. /\ d \in Seq(Steps) /\ Len(d) = (N + 2) + N /\ \A k \in 1..N + 2 : d[k] = c[k]
      /\ \A n \in Networks : d[(N + 2) + n] = Step("file", n)
  <2>1. /\ d \in Seq(Steps) /\ Len(d) = Len(c) + N /\ \A k \in 1..Len(c) : d[k] = c[k]
        /\ \A n \in Networks : d[Len(c) + n] = Step("file", n)
    BY <1>6, NetworksAppended, Zenon DEF Kinds
  <2> HIDE DEF d
  <2>2. QED
    BY <1>7, <2>1
<1>9. Len(d) = 2 * N + 2
  BY <1>8, Numbers
<1> HIDE DEF d
<1>10. /\ e \in Seq(Steps) /\ Len(e) = (2 * N + 2) + 1
       /\ \A k \in 1..2 * N + 2 : e[k] = d[k]
       /\ e[(2 * N + 2) + 1] = Step("file", Ledger)
  <2>1. /\ e \in Seq(Steps) /\ Len(e) = Len(d) + Len(y) /\ \A k \in 1..Len(d) : e[k] = d[k]
        /\ \A k \in 1..Len(y) : e[Len(d) + k] = y[k]
    BY <1>8, <1>y, Appended, Zenon
  <2> HIDE DEF e
  <2>2. QED
    BY <1>9, <1>y, <2>1
<1>11. Len(e) = 2 * N + 3 /\ e[2 * N + 3] = Step("file", Ledger)
  BY <1>10, Numbers
<1> HIDE DEF e
<1>12. /\ Len(f) = (2 * N + 3) + N /\ \A k \in 1..2 * N + 3 : f[k] = e[k]
       /\ \A n \in Networks : f[(2 * N + 3) + n] = Step("lease", n)
  <2>1. /\ f \in Seq(Steps) /\ Len(f) = Len(e) + N /\ \A k \in 1..Len(e) : f[k] = e[k]
        /\ \A n \in Networks : f[Len(e) + n] = Step("lease", n)
    BY <1>10, NetworksAppended, Zenon DEF Kinds
  <2> HIDE DEF f
  <2>2. QED
    BY <1>11, <2>1
<1> HIDE DEF f
<1>13. ASSUME NEW k \in 1..3 * N + 3 PROVE StartUpStep(k, f[k])
  <2>1. CASE k = 1
    BY <1>3, <1>4, <1>6, <1>8, <1>10, <1>12, <2>1, Numbers DEF StartUpStep, Step
  <2>2. CASE k \in 2..N + 1
    <3>1. k - 1 \in Networks /\ 1 + (k - 1) = k
      BY <2>2, Numbers
    <3>2. b[k] = Step("fence", k - 1)
      BY <1>4, <3>1
    <3>3. f[k] = Step("fence", k - 1)
      BY <1>6, <1>8, <1>10, <1>12, <2>2, <3>2, Numbers
    <3>4. QED
      BY <2>2, <3>3 DEF StartUpStep, Step
  <2>3. CASE k = N + 2
    BY <1>7, <1>8, <1>10, <1>12, <2>3, Numbers DEF StartUpStep, Step
  <2>4. CASE k \in N + 3..2 * N + 2
    <3>1. k - (N + 2) \in Networks /\ (N + 2) + (k - (N + 2)) = k
      BY <2>4, Numbers
    <3>2. d[k] = Step("file", k - (N + 2))
      BY <1>8, <3>1
    <3>3. f[k] = Step("file", k - (N + 2))
      BY <1>10, <1>12, <2>4, <3>2, Numbers
    <3>4. QED
      BY <2>4, <3>3 DEF StartUpStep, Step
  <2>5. CASE k = 2 * N + 3
    BY <1>11, <1>12, <2>5, Numbers DEF StartUpStep, Step
  <2>6. CASE k \in 2 * N + 4..3 * N + 3
    <3>1. k - (2 * N + 3) \in Networks /\ (2 * N + 3) + (k - (2 * N + 3)) = k
      BY <2>6, Numbers
    <3>2. f[k] = Step("lease", k - (2 * N + 3))
      BY <1>12, <3>1
    <3>3. QED
      BY <2>6, <3>2 DEF StartUpStep, Step
  <2>7. QED
    BY <2>1, <2>2, <2>3, <2>4, <2>5, <2>6, Numbers
<1>14. Len(f) = 3 * N + 3
  BY <1>12, Numbers
<1>15. QED
  BY <1>2, <1>13, <1>14

\* What step k of the shutdown gives back.
ShutDownStep(k, s) ==
  \/ k \in 1..NetworkCount /\ s.kind = "lease" /\ s.of = k
  \/ k \in NetworkCount + 1..2 * NetworkCount /\ s.kind = "fence" /\ s.of = k - NetworkCount
  \/ k \in 2 * NetworkCount + 1..3 * NetworkCount /\ s.kind = "file"
     /\ s.of = k - 2 * NetworkCount
  \/ k = 3 * NetworkCount + 1 /\ s.kind = "file" /\ s.of = Ledger
  \/ k = 3 * NetworkCount + 2 /\ s.kind = "file" /\ s.of = Admission
  \/ k = 3 * NetworkCount + 3 /\ s.kind = "fence" /\ s.of = 0

LEMMA ShutDownOrder ==
  /\ Len(ShutDown) = 3 * NetworkCount + 3
  /\ \A k \in 1..Len(ShutDown) : ShutDownStep(k, ShutDown[k])
<1> DEFINE N == NetworkCount
           a == ForNetworks("lease")
           b == a \o ForNetworks("fence")
           c == b \o ForNetworks("file")
           last == <<Step("file", Ledger), Step("file", Admission), Step("fence", 0)>>
           d == c \o last
<1>1. Admission \in Nat /\ Ledger \in Nat
  BY Numbers DEF Admission, Ledger
<1>2. ShutDown = d
  BY DEF ShutDown
<1>3. a \in Seq(Steps) /\ Len(a) = N /\ \A n \in Networks : a[n] = Step("lease", n)
  BY ForNetworksShape DEF Kinds
<1> HIDE DEF a
<1>4. /\ b \in Seq(Steps) /\ Len(b) = N + N /\ \A k \in 1..N : b[k] = a[k]
      /\ \A n \in Networks : b[N + n] = Step("fence", n)
  <2>1. /\ b \in Seq(Steps) /\ Len(b) = Len(a) + N /\ \A k \in 1..Len(a) : b[k] = a[k]
        /\ \A n \in Networks : b[Len(a) + n] = Step("fence", n)
    BY <1>3, NetworksAppended, Zenon DEF Kinds
  <2> HIDE DEF b
  <2>2. QED
    BY <1>3, <2>1
<1>5. Len(b) = 2 * N
  BY <1>4, Numbers
<1> HIDE DEF b
<1>6. /\ c \in Seq(Steps) /\ Len(c) = 2 * N + N /\ \A k \in 1..2 * N : c[k] = b[k]
      /\ \A n \in Networks : c[2 * N + n] = Step("file", n)
  <2>1. /\ c \in Seq(Steps) /\ Len(c) = Len(b) + N /\ \A k \in 1..Len(b) : c[k] = b[k]
        /\ \A n \in Networks : c[Len(b) + n] = Step("file", n)
    BY <1>4, NetworksAppended, Zenon DEF Kinds
  <2> HIDE DEF c
  <2>2. QED
    BY <1>5, <2>1
<1>7. Len(c) = 3 * N
  BY <1>6, Numbers
<1> HIDE DEF c
<1>8. /\ last \in Seq(Steps) /\ Len(last) = 3
      /\ last[1] = Step("file", Ledger) /\ last[2] = Step("file", Admission)
      /\ last[3] = Step("fence", 0)
  BY <1>1 DEF Steps, Kinds, Step
<1> HIDE DEF last
<1>9. /\ Len(d) = 3 * N + 3 /\ \A k \in 1..3 * N : d[k] = c[k]
      /\ \A k \in 1..3 : d[3 * N + k] = last[k]
  <2>1. /\ Len(d) = Len(c) + Len(last) /\ \A k \in 1..Len(c) : d[k] = c[k]
        /\ \A k \in 1..Len(last) : d[Len(c) + k] = last[k]
    BY <1>6, <1>8, Appended, Zenon
  <2> HIDE DEF d
  <2>2. QED
    BY <1>7, <1>8, <2>1
<1> HIDE DEF d
<1>10. ASSUME NEW k \in 1..3 * N + 3 PROVE ShutDownStep(k, d[k])
  <2>1. CASE k \in 1..N
    <3>1. d[k] = Step("lease", k)
      <4>1. k \in Networks /\ k \in 1..2 * N /\ k \in 1..3 * N
        BY <2>1, Numbers
      <4>2. QED
        BY <1>3, <1>4, <1>6, <1>9, <2>1, <4>1, Zenon
    <3>2. QED
      BY <2>1, <3>1 DEF ShutDownStep, Step
  <2>2. CASE k \in N + 1..2 * N
    <3>1. k - N \in Networks /\ N + (k - N) = k
      BY <2>2, Numbers
    <3>2. b[k] = Step("fence", k - N)
      BY <1>4, <3>1
    <3>3. d[k] = Step("fence", k - N)
      BY <1>6, <1>9, <2>2, <3>2, Numbers
    <3>4. QED
      BY <2>2, <3>3 DEF ShutDownStep, Step
  <2>3. CASE k \in 2 * N + 1..3 * N
    <3>1. k - 2 * N \in Networks /\ 2 * N + (k - 2 * N) = k
      BY <2>3, Numbers
    <3>2. c[k] = Step("file", k - 2 * N)
      BY <1>6, <3>1
    <3>3. d[k] = Step("file", k - 2 * N)
      BY <1>9, <2>3, <3>2, Numbers
    <3>4. QED
      BY <2>3, <3>3 DEF ShutDownStep, Step
  <2>4. CASE k \in {3 * N + 1, 3 * N + 2, 3 * N + 3}
    BY <1>8, <1>9, <2>4 DEF ShutDownStep, Step
  <2>5. QED
    BY <2>1, <2>2, <2>3, <2>4, Numbers
<1>11. QED
  BY <1>2, <1>9, <1>10

-----------------------------------------------------------------------------
(* Parts of a step.                                                        *)

LEMMA InvParts ==
  ASSUME OwnInv
  PROVE  /\ TypesOK /\ FencesOK /\ FilesOK /\ StaleOK /\ LeasesOK
         /\ \A p \in Procs : LifeOK(p)
BY DEF OwnInv

LEMMA Members ==
  /\ \A p \in Procs : dir[p] \in Dirs
  /\ 0 \in Fences /\ 0 \notin Networks
  /\ \A n \in Networks : n \in Fences /\ n \in Files /\ n \in Nat /\ n > 0 /\ n <= NetworkCount
  /\ Admission \in Files /\ Ledger \in Files
  /\ \A x \in Files : x \in Networks \/ x = Admission \/ x = Ledger
  /\ NoProc \notin Procs
BY Numbers, OwnershipConstants DEF Dirs, Fences, Files, Admission, Ledger

LEMMA FilePaths ==
  /\ \A p \in Procs, x \in Files : Path(p, x) \in Places \X Files
  /\ \A p \in Procs, q \in Procs, x \in Files, y \in Files : x # y => Path(p, x) # Path(q, y)
  /\ \A p \in Procs, x \in Files : Path(p, x)[2] = x
  /\ \A p \in Procs, q \in Procs : Path(p, Admission) = Path(q, Admission)
<1>1. Admission \notin Networks
  BY Numbers DEF Admission
<1>2. QED
  BY <1>1, Members DEF Path, Places

-----------------------------------------------------------------------------
(* What follows from the invariant.                                        *)

LEMMA InitHolds == Init => OwnInv
<1>1. SUFFICES ASSUME Init PROVE OwnInv
  OBVIOUS
<1>2. NoLease \in Leases /\ NoLease.expires = 0
  BY DEF NoLease, Leases
<1>3. TypesOK
  BY <1>1, <1>2 DEF Init, TypesOK
<1>4. FencesOK
  BY <1>1, Numbers DEF Init, FencesOK
<1>5. FilesOK
  BY <1>1, Members DEF Init, FilesOK
<1>6. StaleOK
  BY <1>1 DEF Init, StaleOK
<1>7. LeasesOK
  BY <1>1, <1>2 DEF Init, LeasesOK
<1>8. ASSUME NEW p \in Procs PROVE LifeOK(p)
  BY <1>1, Members, FilePaths, Zenon DEF Init, Guarding, Holding, LifeOK
<1>9. QED
  BY <1>3, <1>4, <1>5, <1>6, <1>7, <1>8 DEF OwnInv

LEMMA FencePaths ==
  ASSUME OwnInv
  PROVE  \A n \in Networks : n \in Fences /\ inode[n] # 0
BY Members, InvParts DEF FencesOK

LEMMA OwnerIsOne ==
  ASSUME OwnInv
  PROVE  OneOwner
<1>1. ASSUME NEW p \in Procs, NEW q \in Procs, mode[p] = "running", mode[q] = "running"
      PROVE  p = q
  <2>1. files[Path(p, Admission)] = p /\ files[Path(q, Admission)] = q
    BY <1>1, InvParts, Zenon DEF LifeOK
  <2>2. QED
    BY <2>1, FilePaths, Zenon
<1>2. ASSUME replaced = 0, NEW a \in Procs, Active(a) PROVE locks[<<0, 1>>] = a
  <2>1. Guarding(a) \/ mode[a] = "running" \/ Holding(a)
    <3>1. CASE \E x \in DOMAIN files : files[x] = a
      <4>1. PICK x \in DOMAIN files : files[x] = a
        BY <3>1
      <4>2. x \in Places \X Files /\ x[2] \in Files
        BY <4>1, InvParts DEF TypesOK
      <4>3. x = Path(a, x[2])
        BY <4>1, <4>2, InvParts DEF FilesOK
      <4>4. QED
        BY <4>1, <4>2, <4>3 DEF Holding
    <3>2. QED
      BY <1>2, <3>1 DEF Active, Guarding, Holding
  <2>2. fence[a][0] # 0
    BY <2>1, InvParts DEF LifeOK
  <2>3. /\ fence \in [Procs -> [Fences -> 0..replaced + 1]]
        /\ \A f \in Fences : fence[a][f] # 0 => locks[<<f, fence[a][f]>>] = a
    BY InvParts DEF FencesOK
  <2>4. fence[a][0] = 1
    BY <1>2, <2>2, <2>3, Members
  <2>5. QED
    BY <2>3, <2>4, Members
<1>3. QED
  BY <1>1, <1>2 DEF OneOwner

LEMMA StaleOnce ==
  ASSUME OwnInv
  PROVE  StaleOwnerSignsOnce
BY InvParts DEF StaleOK, StaleOwnerSignsOnce

LEMMA WaitsForLease ==
  ASSUME OwnInv
  PROVE  TakeoverWaits
BY InvParts, Zenon DEF LeasesOK, TakeoverWaits

-----------------------------------------------------------------------------
(* Frames.                                                                 *)

LEMMA SameDirs ==
  ASSUME dir' = dir
  PROVE  Dirs' = Dirs /\ Places' = Places
BY DEF Dirs, Places

LEMMA SamePaths ==
  ASSUME dir' = dir, NEW p, NEW x
  PROVE  Path(p, x)' = Path(p, x)
BY DEF Path

\* Nothing of what LifeOK speaks about changes for p.
Untouched(p) ==
  /\ mode'[p] = mode[p] /\ pc'[p] = pc[p] /\ fence'[p] = fence[p]
  /\ guard'[p] = guard[p] /\ stale'[p] = stale[p] /\ lost'[p] = lost[p]
  /\ \A x \in Files : files'[Path(p, x)] = p <=> files[Path(p, x)] = p

LEMMA UntouchedLife ==
  ASSUME NEW p \in Procs, LifeOK(p), Untouched(p), dir' = dir
  PROVE  LifeOK(p)'
<1>1. (Holding(p)' <=> Holding(p)) /\ (Guarding(p)' <=> Guarding(p))
  BY SamePaths, Zenon DEF Holding, Guarding, Untouched
<1>2. ASSUME NEW k PROVE GivenBack(p, k)' <=> GivenBack(p, k)
  BY Members, SamePaths DEF GivenBack, Untouched
<1>3. /\ mode'[p] = mode[p] /\ pc'[p] = pc[p] /\ fence'[p] = fence[p]
      /\ stale'[p] = stale[p] /\ lost'[p] = lost[p]
      /\ files'[Path(p, Admission)'] = p <=> files[Path(p, Admission)] = p
  BY Members, SamePaths DEF Untouched
<1>4. GivenBack(p, pc[p])' <=> GivenBack(p, pc[p])
  BY <1>2, <1>3 DEF GivenBack
<1>5. QED
  BY <1>1, <1>3, <1>4, Zenon DEF LifeOK

LEMMA SameFences ==
  ASSUME FencesOK, UNCHANGED <<replaced, inode, locks, fence>>
  PROVE  FencesOK'
BY DEF FencesOK

LEMMA SameFiles ==
  ASSUME FilesOK, UNCHANGED <<files, dir>>
  PROVE  FilesOK'
BY SameDirs, SamePaths DEF FilesOK

LEMMA SameStale ==
  ASSUME StaleOK, UNCHANGED <<stale, guard, fence, inode>>
  PROVE  StaleOK'
BY DEF StaleOK

LEMMA SameLeases ==
  ASSUME LeasesOK, UNCHANGED <<lease, mine, lost, guard, now, dir>>
  PROVE  LeasesOK'
BY DEF LeasesOK

LEMMA LeasesAge ==
  ASSUME LeasesOK, now \in Nat, now' = now + 1, mine \in [Procs -> [Networks -> Leases]],
         UNCHANGED <<lease, mine, lost, guard, dir>>
  PROVE  LeasesOK'
BY DEF Leases, LeasesOK

LEMMA OneMoreFile ==
  ASSUME FilesOK, NEW p \in Procs, NEW x \in Files, UNCHANGED dir,
         \A y \in Places \X Files : y # Path(p, x) => files'[y] = files[y],
         files'[Path(p, x)] = p
  PROVE  FilesOK'
<1>1. SUFFICES ASSUME NEW q \in Procs, NEW y \in Places \X Files, files'[y] = q
               PROVE  y = Path(q, y[2])
  BY SameDirs, SamePaths DEF FilesOK
<1>2. CASE y = Path(p, x)
  BY <1>1, <1>2, FilePaths
<1>3. CASE y # Path(p, x)
  BY <1>1, <1>3 DEF FilesOK
<1>4. QED
  BY <1>2, <1>3

LEMMA OneMoreStale ==
  ASSUME StaleOK, NEW p \in Procs, NEW n \in Networks, UNCHANGED <<fence, inode>>,
         guard'[p][n] = "none",
         \A q \in Procs, m \in Networks : q # p \/ m # n => guard'[q][m] = guard[q][m],
         \A q \in Procs, m \in Networks : q # p \/ m # n => stale'[q][m] = stale[q][m],
         \/ stale'[p][n] = 0
         \/ stale'[p][n] = 1 /\ fence[p][n] # inode[n]
  PROVE  StaleOK'
<1>1. SUFFICES ASSUME NEW q \in Procs, NEW m \in Networks
               PROVE  \/ stale'[q][m] = 0
                      \/ stale'[q][m] = 1 /\ guard'[q][m] = "none" /\ fence[q][m] # inode[m]
  BY Zenon DEF StaleOK
<1>2. CASE q = p /\ m = n
  BY <1>2, Zenon
<1>3. CASE q # p \/ m # n
  <2>1. stale'[q][m] = stale[q][m] /\ guard'[q][m] = guard[q][m]
    BY <1>3, Zenon
  <2>2. QED
    BY <2>1, Zenon DEF StaleOK
<1>4. QED
  BY <1>2, <1>3, Zenon

\* A process may lose leases, and stop guarding.
LEMMA FewerLeases ==
  ASSUME LeasesOK, UNCHANGED <<lease, mine, now, dir>>,
         \A p \in Procs, n \in Networks : n \notin lost'[p] => n \notin lost[p],
         \A p \in Procs, n \in Networks : guard'[p][n] = "guarded" => guard[p][n] = "guarded"
  PROVE  LeasesOK'
BY DEF LeasesOK

-----------------------------------------------------------------------------
(* The life of a process.                                                  *)

LEMMA StartKeeps ==
  ASSUME OwnInv, NEW p \in Procs, Start(p)
  PROVE  OwnInv'
<1>1. /\ mode[p] = "down"
      /\ mode' = [mode EXCEPT ![p] = "starting"] /\ pc' = [pc EXCEPT ![p] = 0]
      /\ lost' = [lost EXCEPT ![p] = {}]
      /\ mine' = [mine EXCEPT ![p] = [n \in Networks |-> NoLease]]
      /\ stale' = [stale EXCEPT ![p] = [n \in Networks |-> 0]]
      /\ UNCHANGED <<inode, locks, fence, files, lease, guard, now, replaced, dir>>
  BY DEF Start
<1>2. NoLease \in Leases /\ NoLease.expires = 0
  BY DEF NoLease, Leases
<1>3. TypesOK
  BY InvParts
<1>4. TypesOK'
  BY <1>1, <1>2, <1>3, SameDirs DEF TypesOK
<1>5. FencesOK' /\ FilesOK'
  BY <1>1, InvParts, SameFences, SameFiles
<1>6. \A n \in Networks : stale'[p][n] = 0 /\ mine'[p][n].expires = 0
  BY <1>1, <1>2, <1>3 DEF TypesOK
<1>7. \A q \in Procs \ {p} : stale'[q] = stale[q] /\ mine'[q] = mine[q] /\ lost'[q] = lost[q]
  BY <1>1, <1>3 DEF TypesOK
<1>8. StaleOK'
  BY <1>1, <1>6, <1>7, InvParts DEF StaleOK
<1>9. LeasesOK'
  BY <1>1, <1>3, <1>6, <1>7, InvParts DEF LeasesOK, TypesOK
<1>10. LifeOK(p)'
  <2>1. ~Holding(p) /\ ~Guarding(p)
    BY <1>1, InvParts, Zenon DEF LifeOK
  <2>2. ~Holding(p)' /\ ~Guarding(p)'
    BY <1>1, <2>1, SamePaths DEF Holding, Guarding
  <2>3. mode'[p] = "starting" /\ pc'[p] = 0 /\ Len(StartUp) > 0
    BY <1>1, <1>3, StartUpOrder, Numbers DEF TypesOK
  <2>4. QED
    BY <1>6, <2>2, <2>3, Numbers DEF LifeOK
<1>11. \A q \in Procs \ {p} : LifeOK(q)'
  BY <1>1, <1>3, UntouchedLife, InvParts DEF Untouched, TypesOK
<1>12. QED
  BY <1>4, <1>5, <1>8, <1>9, <1>10, <1>11 DEF OwnInv

\* What the steps of newDaemon take.
LEMMA StartUpTakes ==
  ASSUME NEW k \in 1..Len(StartUp)
  PROVE  LET s == StartUp[k]
         IN  /\ s.kind = "fence" => s.of \in Fences /\ (k = 1 => s.of = 0) /\ k < NetworkCount + 2
             /\ s.kind = "file" => s.of \in Files /\ k >= NetworkCount + 2
                                   /\ (k = NetworkCount + 2 => s.of = Admission)
             /\ s.kind = "lease" => s.of \in Networks /\ k > NetworkCount + 2
<1> DEFINE s == StartUp[k]
<1>1. StartUpStep(k, s) /\ k \in 1..3 * NetworkCount + 3
  BY StartUpOrder
<1> HIDE DEF s
<1>2. s.kind = "fence" => s.of \in Fences /\ (k = 1 => s.of = 0) /\ k < NetworkCount + 2
  BY <1>1, Numbers DEF StartUpStep, Fences
<1>3. s.kind = "file" => s.of \in Files /\ k >= NetworkCount + 2
                         /\ (k = NetworkCount + 2 => s.of = Admission)
  BY <1>1, Numbers DEF StartUpStep, Files, Admission, Ledger
<1>4. s.kind = "lease" => s.of \in Networks /\ k > NetworkCount + 2
  BY <1>1, Numbers DEF StartUpStep
<1>5. QED
  BY <1>2, <1>3, <1>4 DEF s

LEMMA Position ==
  ASSUME NEW len, len = 3 * NetworkCount + 3, NEW k \in Nat, k < len
  PROVE  /\ k + 1 \in 1..len /\ k + 1 # 0 /\ (k + 1 # len => k + 1 < len)
         /\ k + 1 = len => k + 1 >= NetworkCount + 2
BY Numbers

\* A step of newDaemon that leaves the process with what its position promises.
LEMMA AdvanceStep ==
  ASSUME OwnInv, NEW p \in Procs, Advance(p),
         fence'[p][0] # 0,
         pc[p] + 1 >= NetworkCount + 2 => files'[Path(p, Admission)] = p,
         \A q \in Procs \ {p} : fence'[q] = fence[q],
         \A q \in Procs \ {p}, x \in Files :
           files'[Path(q, x)] = q <=> files[Path(q, x)] = q,
         FencesOK', FilesOK', LeasesOK',
         DOMAIN locks' = Fences \X Inodes,
         files' \in [Places \X Files -> Procs \cup {NoProc}],
         lease' \in [Dirs \X Networks -> Leases],
         mine' \in [Procs -> [Networks -> Leases]]
  PROVE  OwnInv'
<1>1. /\ mode[p] = "starting" /\ pc[p] < Len(StartUp)
      /\ pc' = [pc EXCEPT ![p] = @ + 1]
      /\ mode' = [mode EXCEPT ![p] = IF pc'[p] = Len(StartUp) THEN "running" ELSE @]
      /\ UNCHANGED <<inode, lost, guard, stale, now, replaced, dir>>
  BY DEF Advance
<1>2. /\ DOMAIN mode = Procs /\ DOMAIN pc = Procs /\ \A q \in Procs : pc[q] \in Nat
  BY InvParts DEF TypesOK
<1>3. /\ pc'[p] = pc[p] + 1
      /\ mode'[p] = IF pc'[p] = Len(StartUp) THEN "running" ELSE "starting"
      /\ \A q \in Procs \ {p} : mode'[q] = mode[q] /\ pc'[q] = pc[q]
      /\ DOMAIN mode' = Procs /\ DOMAIN pc' = Procs /\ \A q \in Procs : pc'[q] \in Nat
  BY <1>1, <1>2
<1>4. TypesOK'
  BY <1>1, <1>3, SameDirs, InvParts, Zenon DEF TypesOK
<1>5. ~Guarding(p) /\ \A n \in Networks : stale[p][n] = 0
  BY <1>1, InvParts, Zenon DEF LifeOK
<1>6. StaleOK'
  BY <1>1, <1>5, InvParts DEF StaleOK
<1>7. LifeOK(p)'
  BY <1>1, <1>2, <1>3, <1>5, StartUpOrder, Position, SamePaths DEF Guarding, LifeOK
<1>8. \A q \in Procs \ {p} : LifeOK(q)'
  BY <1>1, <1>3, UntouchedLife, InvParts DEF Untouched
<1>9. QED
  BY <1>4, <1>6, <1>7, <1>8 DEF OwnInv

\* What a process in newDaemon has.
LEMMA Starting ==
  ASSUME OwnInv, NEW p \in Procs, Advance(p)
  PROVE  /\ Take(p, StartUp[pc[p] + 1]) /\ pc[p] + 1 \in 1..Len(StartUp) /\ pc[p] \in Nat
         /\ pc[p] # 0 => fence[p][0] # 0
         /\ pc[p] >= NetworkCount + 2 => files[Path(p, Admission)] = p
         /\ UNCHANGED <<inode, lost, guard, now, replaced, dir>>
<1>1. /\ mode[p] = "starting" /\ pc[p] < Len(StartUp) /\ Take(p, StartUp[pc[p] + 1])
      /\ UNCHANGED <<inode, lost, guard, now, replaced, dir>>
  BY DEF Advance
<1>2. pc[p] \in Nat /\ Len(StartUp) = 3 * NetworkCount + 3
  BY StartUpOrder, InvParts DEF TypesOK
<1>3. pc[p] + 1 \in 1..Len(StartUp)
  BY <1>1, <1>2, Position
<1>4. LifeOK(p)
  BY InvParts
<1>5. /\ pc[p] > 0 => fence[p][0] # 0
      /\ pc[p] >= NetworkCount + 2 => files[Path(p, Admission)] = p
  BY <1>1, <1>4 DEF LifeOK
<1>6. pc[p] # 0 => pc[p] > 0
  BY <1>2
<1>7. QED
  BY <1>1, <1>2, <1>3, <1>5, <1>6

\* The lock of a new fence belongs to p, the others stay.
LEMMA AcquireFenceKeeps ==
  ASSUME OwnInv, NEW p \in Procs, NEW f \in Fences, AcquireFence(p, f),
         UNCHANGED <<inode, replaced>>
  PROVE  /\ FencesOK' /\ fence'[p][f] # 0
         /\ \A g \in Fences \ {f} : fence'[p][g] = fence[p][g]
         /\ \A q \in Procs \ {p} : fence'[q] = fence[q]
         /\ DOMAIN locks' = Fences \X Inodes
<1> DEFINE at == <<f, inode[f]>>
<1>1. /\ locks[at] = NoProc /\ locks' = [locks EXCEPT ![at] = p]
      /\ fence' = [fence EXCEPT ![p][f] = inode[f]]
  BY DEF AcquireFence
<1>2. /\ replaced \in 0..MaxReplacements /\ inode = [g \in Fences |-> replaced + 1]
      /\ fence \in [Procs -> [Fences -> 0..replaced + 1]]
      /\ \A q \in Procs, g \in Fences : fence[q][g] # 0 => locks[<<g, fence[q][g]>>] = q
  BY InvParts DEF FencesOK
<1>3. DOMAIN locks = Fences \X Inodes
  BY InvParts DEF TypesOK
<1>4. inode[f] = replaced + 1 /\ replaced + 1 \in Inodes /\ replaced + 1 \in 0..replaced + 1
      /\ replaced + 1 # 0
  BY <1>2, Numbers DEF Inodes
<1>5. at \in Fences \X Inodes
  BY <1>4
<1>6. /\ fence'[p][f] = inode[f]
      /\ \A g \in Fences \ {f} : fence'[p][g] = fence[p][g]
      /\ \A q \in Procs \ {p} : fence'[q] = fence[q]
  BY <1>1, <1>2
<1>7. fence' \in [Procs -> [Fences -> 0..replaced + 1]]
  BY <1>1, <1>2, <1>4
<1> HIDE DEF at
<1>8. /\ DOMAIN locks' = Fences \X Inodes /\ locks'[at] = p
      /\ \A x \in Fences \X Inodes : x # at => locks'[x] = locks[x]
  BY <1>1, <1>3, <1>5
<1>9. ASSUME NEW q \in Procs, NEW g \in Fences, fence'[q][g] # 0
      PROVE  locks'[<<g, fence'[q][g]>>] = q
  <2>1. CASE q = p /\ g = f
    BY <1>6, <1>8, <2>1 DEF at
  <2>2. CASE ~(q = p /\ g = f)
    <3>1. fence'[q][g] = fence[q][g]
      BY <1>6, <2>2
    <3>2. fence[q][g] # 0 /\ fence[q][g] \in Inodes
      BY <1>2, <1>9, <3>1, Numbers DEF Inodes
    <3>3. locks[<<g, fence[q][g]>>] = q /\ q # NoProc
      BY <1>2, <3>2, Members
    <3>4. <<g, fence[q][g]>> # at /\ <<g, fence[q][g]>> \in Fences \X Inodes
      BY <1>1, <3>2, <3>3
    <3>5. QED
      BY <1>8, <3>1, <3>3, <3>4
  <2>3. QED
    BY <2>1, <2>2
<1>10. FencesOK'
  BY <1>2, <1>7, <1>9 DEF FencesOK
<1>11. QED
  BY <1>4, <1>6, <1>8, <1>10

LEMMA AdvanceFence ==
  ASSUME OwnInv, NEW p \in Procs, Advance(p), StartUp[pc[p] + 1].kind = "fence",
         AcquireFence(p, StartUp[pc[p] + 1].of)
  PROVE  OwnInv'
<1> DEFINE f == StartUp[pc[p] + 1].of
           k == pc[p] + 1
<1>1. /\ k \in 1..Len(StartUp) /\ pc[p] \in Nat
      /\ pc[p] # 0 => fence[p][0] # 0
      /\ UNCHANGED <<inode, lost, guard, now, replaced, dir>>
  BY Starting, Zenon
<1>2. f \in Fences /\ (k = 1 => f = 0) /\ k < NetworkCount + 2
  BY <1>1, StartUpTakes
<1>3. AcquireFence(p, f)
  OBVIOUS
<1>4. UNCHANGED <<files, lease, mine>>
  BY DEF AcquireFence
<1> HIDE DEF f
<1>5. /\ FencesOK' /\ fence'[p][f] # 0
      /\ \A g \in Fences \ {f} : fence'[p][g] = fence[p][g]
      /\ \A q \in Procs \ {p} : fence'[q] = fence[q]
      /\ DOMAIN locks' = Fences \X Inodes
  BY <1>1, <1>2, <1>3, AcquireFenceKeeps, Zenon
<1>6. pc[p] = 0 => f = 0
  BY <1>2
<1>7. fence'[p][0] # 0
  BY <1>1, <1>5, <1>6, Members
<1>8. FilesOK' /\ LeasesOK'
  BY <1>1, <1>4, InvParts, SameFiles, SameLeases
<1>9. /\ files' \in [Places \X Files -> Procs \cup {NoProc}]
      /\ lease' \in [Dirs \X Networks -> Leases]
      /\ mine' \in [Procs -> [Networks -> Leases]]
  BY <1>4, InvParts DEF TypesOK
<1>10. ~(pc[p] + 1 >= NetworkCount + 2)
  BY <1>1, <1>2, Numbers
<1>11. QED
  BY <1>4, <1>5, <1>7, <1>8, <1>9, <1>10, AdvanceStep, Zenon

LEMMA AdvanceFile ==
  ASSUME OwnInv, NEW p \in Procs, Advance(p), StartUp[pc[p] + 1].kind = "file",
         OpenFile(p, StartUp[pc[p] + 1].of)
  PROVE  OwnInv'
<1> DEFINE x == StartUp[pc[p] + 1].of
           k == pc[p] + 1
<1>1. /\ k \in 1..Len(StartUp) /\ pc[p] \in Nat
      /\ pc[p] # 0 => fence[p][0] # 0
      /\ pc[p] >= NetworkCount + 2 => files[Path(p, Admission)] = p
      /\ UNCHANGED <<inode, lost, guard, now, replaced, dir>>
  BY Starting
<1>2. x \in Files /\ k >= NetworkCount + 2 /\ (k = NetworkCount + 2 => x = Admission)
  BY <1>1, StartUpTakes
<1>3. /\ files[Path(p, x)] = NoProc
      /\ files' = [files EXCEPT ![Path(p, x)] = p]
      /\ UNCHANGED <<locks, fence, lease, mine>>
  BY DEF OpenFile
<1> HIDE DEF x
<1>4. /\ files \in [Places \X Files -> Procs \cup {NoProc}] /\ DOMAIN locks = Fences \X Inodes
      /\ lease \in [Dirs \X Networks -> Leases]
      /\ mine \in [Procs -> [Networks -> Leases]]
  BY InvParts DEF TypesOK
<1>5. Path(p, x) \in Places \X Files
  BY <1>2, FilePaths
<1>6. /\ files' \in [Places \X Files -> Procs \cup {NoProc}] /\ files'[Path(p, x)] = p
      /\ \A y \in Places \X Files : y # Path(p, x) => files'[y] = files[y]
  BY <1>3, <1>4, <1>5
<1>7. FilesOK'
  BY <1>1, <1>2, <1>6, OneMoreFile, InvParts, Zenon
<1>8. ASSUME NEW q \in Procs \ {p}, NEW y \in Files
      PROVE  files'[Path(q, y)] = q <=> files[Path(q, y)] = q
  BY <1>3, <1>6, FilePaths, Members
<1>9. FencesOK' /\ LeasesOK'
  BY <1>1, <1>3, InvParts, SameFences, SameLeases, Zenon
<1>10. pc[p] # 0 /\ (pc[p] + 1 = NetworkCount + 2 \/ pc[p] >= NetworkCount + 2)
  BY <1>1, <1>2, Numbers, PastFences
<1>11. fence'[p][0] # 0
  BY <1>1, <1>3, <1>10
<1>12. files'[Path(p, Admission)] = p
  BY <1>1, <1>2, <1>6, <1>10, Members, FilePaths, Zenon
<1>13. QED
  BY <1>3, <1>4, <1>6, <1>7, <1>8, <1>9, <1>11, <1>12, SameDirs, AdvanceStep

\* What p writes and remembers when it takes or renews a lease.
Written(p, n, r) ==
  /\ lease' = [lease EXCEPT ![<<dir[p], n>>] = r]
  /\ mine' = [mine EXCEPT ![p][n] = r]

\* No other lease of a process is in the place of the one p writes, and no other
\* process of the directory signs.
Unshared(p, n) ==
  /\ \A q \in Procs, m \in Networks :
       (q # p \/ m # n) /\ m \notin lost[q] /\ mine[q][m].expires > now =>
         <<dir[q], m>> # <<dir[p], n>>
  /\ \A q \in Procs : q # p /\ dir[q] = dir[p] => guard[q][n] # "guarded"

LEMMA LeaseTaken ==
  ASSUME OwnInv, NEW p \in Procs, NEW n \in Networks, NEW r \in Leases, r.owner = p,
         Written(p, n, r), Unshared(p, n), UNCHANGED <<lost, guard, now, dir>>
  PROVE  /\ LeasesOK'
         /\ lease' \in [Dirs \X Networks -> Leases] /\ mine' \in [Procs -> [Networks -> Leases]]
<1> DEFINE at == <<dir[p], n>>
<1>1. lease \in [Dirs \X Networks -> Leases] /\ mine \in [Procs -> [Networks -> Leases]]
  BY InvParts DEF TypesOK
<1>2. at \in Dirs \X Networks
  BY Members
<1>3. /\ lease' \in [Dirs \X Networks -> Leases] /\ lease'[at] = r
      /\ \A y \in Dirs \X Networks : y # at => lease'[y] = lease[y]
  BY <1>1, <1>2 DEF Written
<1>4. /\ mine' \in [Procs -> [Networks -> Leases]] /\ mine'[p][n] = r
      /\ \A q \in Procs, m \in Networks : q # p \/ m # n => mine'[q][m] = mine[q][m]
  BY <1>1 DEF Written
<1>5. LeasesOK
  BY InvParts
<1>6. ASSUME NEW q \in Procs, NEW m \in Networks
      PROVE  /\ mine'[q][m].expires > 0 => mine'[q][m].owner = q
             /\ m \notin lost[q] /\ mine'[q][m].expires > now =>
                  lease'[<<dir[q], m>>] = mine'[q][m]
  <2>1. CASE q = p /\ m = n
    BY <1>3, <1>4, <2>1
  <2>2. CASE q # p \/ m # n
    <3>1. mine'[q][m] = mine[q][m]
      BY <1>4, <2>2
    <3>2. /\ mine[q][m].expires > 0 => mine[q][m].owner = q
          /\ m \notin lost[q] /\ mine[q][m].expires > now => lease[<<dir[q], m>>] = mine[q][m]
      BY <1>5 DEF LeasesOK
    <3>3. ASSUME m \notin lost[q], mine[q][m].expires > now
          PROVE  lease'[<<dir[q], m>>] = lease[<<dir[q], m>>]
      BY <1>3, <2>2, <3>3, Members DEF Unshared
    <3>4. QED
      BY <3>1, <3>2, <3>3
  <2>3. QED
    BY <2>1, <2>2
<1>7. ASSUME NEW a \in Procs, NEW q \in Procs, NEW m \in Networks, a # q, dir[a] = dir[q],
             m \notin lost[a], guard[q][m] = "guarded"
      PROVE  mine'[a][m].expires <= now
  BY <1>4, <1>5, <1>7 DEF Unshared, LeasesOK
<1>8. LeasesOK'
  BY <1>6, <1>7 DEF LeasesOK
<1>9. QED
  BY <1>3, <1>4, <1>8

\* The lease in the file had expired.
LEMMA AcquireKeeps ==
  ASSUME OwnInv, NEW p \in Procs, NEW n \in Networks, Acquire(p, n),
         UNCHANGED <<lost, guard, now, dir>>,
         \A q \in Procs : q # p /\ dir[q] = dir[p] => guard[q][n] # "guarded"
  PROVE  /\ LeasesOK'
         /\ lease' \in [Dirs \X Networks -> Leases] /\ mine' \in [Procs -> [Networks -> Leases]]
<1> DEFINE at == <<dir[p], n>>
           r == [owner |-> p, expires |-> now + TTL]
<1>1. /\ lease[at].expires <= now
      /\ lease' = [lease EXCEPT ![at] = r]
      /\ mine' = [mine EXCEPT ![p][n] = lease'[at]]
  BY DEF Acquire
<1>2. /\ lease \in [Dirs \X Networks -> Leases] /\ mine \in [Procs -> [Networks -> Leases]]
      /\ now \in Nat
  BY InvParts DEF TypesOK
<1>3. r \in Leases /\ r.owner = p
  BY <1>2, Numbers DEF Leases
<1> HIDE DEF r
<1>4. lease'[at] = r
  BY <1>1, <1>2, Members
<1>5. mine' = [mine EXCEPT ![p][n] = r]
  BY <1>1, <1>4, Zenon
<1>6. ASSUME NEW q \in Procs, NEW m \in Networks, m \notin lost[q], mine[q][m].expires > now,
             <<dir[q], m>> = at
      PROVE  FALSE
  BY <1>1, <1>2, <1>6, InvParts, Members DEF LeasesOK, Leases
<1>7. \A q \in Procs, m \in Networks :
        (q # p \/ m # n) /\ m \notin lost[q] /\ mine[q][m].expires > now =>
          <<dir[q], m>> # <<dir[p], n>>
  BY <1>6, Zenon
<1>8. Written(p, n, r)
  BY <1>1, <1>5, Zenon DEF Written
<1>9. Unshared(p, n)
  BY <1>7, Zenon DEF Unshared
<1>10. QED
  BY <1>3, <1>8, <1>9, LeaseTaken, Zenon

LEMMA AdvanceLease ==
  ASSUME OwnInv, NEW p \in Procs, Advance(p), StartUp[pc[p] + 1].kind = "lease",
         Acquire(p, StartUp[pc[p] + 1].of)
  PROVE  OwnInv'
<1> DEFINE n == StartUp[pc[p] + 1].of
           k == pc[p] + 1
<1>1. /\ k \in 1..Len(StartUp) /\ pc[p] \in Nat
      /\ pc[p] # 0 => fence[p][0] # 0
      /\ pc[p] >= NetworkCount + 2 => files[Path(p, Admission)] = p
      /\ UNCHANGED <<inode, lost, guard, now, replaced, dir>>
  BY Starting
<1>2. n \in Networks /\ k > NetworkCount + 2
  BY <1>1, StartUpTakes
<1>3. Acquire(p, n)
  OBVIOUS
<1>4. UNCHANGED <<locks, fence, files>>
  BY DEF Acquire
<1> HIDE DEF n
<1>5. pc[p] # 0 /\ pc[p] >= NetworkCount + 2
  BY <1>1, <1>2, Numbers
<1>6. fence'[p][0] # 0 /\ files'[Path(p, Admission)] = p
  BY <1>1, <1>4, <1>5
<1>7. ASSUME NEW q \in Procs, q # p, dir[q] = dir[p], guard[q][n] = "guarded"
      PROVE  FALSE
  <2>1. Guarding(q)
    BY <1>2, <1>7 DEF Guarding
  <2>2. files[Path(q, Admission)] = q
    BY <2>1, InvParts, Zenon DEF LifeOK
  <2>3. QED
    BY <1>4, <1>6, <1>7, <2>2, FilePaths
<1>8. /\ LeasesOK'
      /\ lease' \in [Dirs \X Networks -> Leases] /\ mine' \in [Procs -> [Networks -> Leases]]
  <2>1. UNCHANGED <<lost, guard, now, dir>>
    BY <1>1
  <2>2. \A q \in Procs : q # p /\ dir[q] = dir[p] => guard[q][n] # "guarded"
    BY <1>7
  <2>3. QED
    BY <1>2, <1>3, <2>1, <2>2, AcquireKeeps, Zenon
<1>9. FencesOK' /\ FilesOK'
  BY <1>1, <1>4, InvParts, SameFences, SameFiles
<1>10. DOMAIN locks' = Fences \X Inodes /\ files' \in [Places \X Files -> Procs \cup {NoProc}]
  BY <1>4, InvParts DEF TypesOK
<1>11. /\ \A q \in Procs \ {p} : fence'[q] = fence[q]
       /\ \A q \in Procs \ {p}, x \in Files :
            files'[Path(q, x)] = q <=> files[Path(q, x)] = q
  BY <1>4
<1>12. QED
  BY <1>6, <1>8, <1>9, <1>10, <1>11, AdvanceStep, Zenon

LEMMA AdvanceKeeps ==
  ASSUME OwnInv, NEW p \in Procs, Advance(p)
  PROVE  OwnInv'
BY Starting, AdvanceFence, AdvanceFile, AdvanceLease, Zenon DEF Take

LEMMA GiveUpKeeps ==
  ASSUME OwnInv, NEW p \in Procs, GiveUp(p), mode[p] \in {"starting", "running"}
  PROVE  OwnInv'
<1>1. /\ \A n \in Networks : guard[p][n] = "none"
      /\ mode' = [mode EXCEPT ![p] = "stopping"] /\ pc' = [pc EXCEPT ![p] = 0]
      /\ lost' = [lost EXCEPT ![p] = Networks]
      /\ UNCHANGED <<inode, locks, fence, files, lease, mine, guard, stale, now, replaced, dir>>
  BY DEF GiveUp
<1>2. /\ DOMAIN mode = Procs /\ DOMAIN pc = Procs /\ DOMAIN lost = Procs
      /\ \A q \in Procs : pc[q] \in Nat
  BY InvParts DEF TypesOK
<1>3. /\ mode'[p] = "stopping" /\ pc'[p] = 0 /\ lost'[p] = Networks
      /\ \A q \in Procs \ {p} : mode'[q] = mode[q] /\ pc'[q] = pc[q] /\ lost'[q] = lost[q]
      /\ DOMAIN mode' = Procs /\ DOMAIN pc' = Procs /\ DOMAIN lost' = Procs
      /\ \A q \in Procs : pc'[q] \in Nat
  BY <1>1, <1>2
<1>4. TypesOK'
  BY <1>1, <1>3, SameDirs, InvParts, Zenon DEF TypesOK
<1>5. FencesOK' /\ FilesOK' /\ StaleOK'
  BY <1>1, InvParts, SameFences, SameFiles, SameStale
<1>6. LeasesOK'
  BY <1>1, <1>3, InvParts, FewerLeases
<1>7. LifeOK(p)'
  <2>1. Holding(p) => fence[p][0] # 0
    BY InvParts, Zenon DEF LifeOK
  <2>2. ~Guarding(p)' /\ (Holding(p)' => fence'[p][0] # 0)
    BY <1>1, <2>1, SamePaths, Zenon DEF Guarding, Holding
  <2>3. \A n \in Networks : ~(0 >= NetworkCount + n) /\ ~(0 >= 2 * NetworkCount + n)
    BY Numbers
  <2>4. ~(0 >= 3 * NetworkCount + 1) /\ ~(0 >= 3 * NetworkCount + 2)
        /\ 0 < 3 * NetworkCount + 3
    BY Numbers
  <2>5. GivenBack(p, pc[p])'
    BY <1>3, <2>3, <2>4, Zenon DEF GivenBack
  <2>6. pc'[p] < Len(ShutDown)
    BY <1>3, <2>4, ShutDownOrder
  <2>7. QED
    BY <1>3, <2>2, <2>5, <2>6, Zenon DEF LifeOK
<1>8. \A q \in Procs \ {p} : LifeOK(q)'
  BY <1>1, <1>3, UntouchedLife, InvParts DEF Untouched
<1>9. QED
  BY <1>4, <1>5, <1>6, <1>7, <1>8 DEF OwnInv

-----------------------------------------------------------------------------
(* The shutdown.                                                           *)

\* A process only gives back.
Shrinks(p) ==
  /\ \A f \in Fences : fence'[p][f] \in {0, fence[p][f]}
  /\ \A x \in Files : files'[Path(p, x)] = p => files[Path(p, x)] = p

LEMMA GivenBackGrows ==
  ASSUME NEW p \in Procs, NEW j \in Nat, NEW k \in Nat, k = j + 1, dir' = dir,
         NEW s, ShutDownStep(k, s), GivenBack(p, j), Shrinks(p),
         s.kind = "fence" => fence'[p][s.of] = 0,
         s.kind = "file" => files'[Path(p, s.of)] # p
  PROVE  /\ \A n \in Networks : k >= NetworkCount + n => fence'[p][n] = 0
         /\ \A n \in Networks : k >= 2 * NetworkCount + n => files'[Path(p, n)] # p
         /\ k >= 3 * NetworkCount + 1 => files'[Path(p, Ledger)] # p
         /\ k >= 3 * NetworkCount + 2 => files'[Path(p, Admission)] # p
<1>1. ASSUME NEW n \in Networks, k >= NetworkCount + n
      PROVE  fence'[p][n] = 0
  <2>1. CASE j >= NetworkCount + n
    <3>1. fence[p][n] = 0
      BY <2>1 DEF GivenBack
    <3>2. QED
      BY <3>1, Members DEF Shrinks
  <2>2. CASE ~(j >= NetworkCount + n)
    <3>1. k = NetworkCount + n
      BY <1>1, <2>2, Numbers
    <3>2. s.kind = "fence" /\ s.of = n
      BY <3>1, Numbers DEF ShutDownStep
    <3>3. QED
      BY <3>2
  <2>3. QED
    BY <2>1, <2>2
<1>2. ASSUME NEW n \in Networks, k >= 2 * NetworkCount + n
      PROVE  files'[Path(p, n)] # p
  <2>1. CASE j >= 2 * NetworkCount + n
    <3>1. files[Path(p, n)] # p
      BY <2>1 DEF GivenBack
    <3>2. QED
      BY <3>1, Members DEF Shrinks
  <2>2. CASE ~(j >= 2 * NetworkCount + n)
    <3>1. k = 2 * NetworkCount + n
      BY <1>2, <2>2, Numbers
    <3>2. s.kind = "file" /\ s.of = n
      BY <3>1, Numbers DEF ShutDownStep
    <3>3. QED
      BY <3>2
  <2>3. QED
    BY <2>1, <2>2
<1>3. ASSUME k >= 3 * NetworkCount + 1
      PROVE  files'[Path(p, Ledger)] # p
  <2>1. CASE j >= 3 * NetworkCount + 1
    <3>1. files[Path(p, Ledger)] # p
      BY <2>1 DEF GivenBack
    <3>2. QED
      BY <3>1, Members DEF Shrinks
  <2>2. CASE ~(j >= 3 * NetworkCount + 1)
    <3>1. k = 3 * NetworkCount + 1
      BY <1>3, <2>2, Numbers
    <3>2. s.kind = "file" /\ s.of = Ledger
      BY <3>1, Numbers DEF ShutDownStep
    <3>3. QED
      BY <3>2
  <2>3. QED
    BY <2>1, <2>2
<1>4. ASSUME k >= 3 * NetworkCount + 2
      PROVE  files'[Path(p, Admission)] # p
  <2>1. CASE j >= 3 * NetworkCount + 2
    <3>1. files[Path(p, Admission)] # p
      BY <2>1 DEF GivenBack
    <3>2. QED
      BY <3>1, Members DEF Shrinks
  <2>2. CASE ~(j >= 3 * NetworkCount + 2)
    <3>1. k = 3 * NetworkCount + 2
      BY <1>4, <2>2, Numbers
    <3>2. s.kind = "file" /\ s.of = Admission
      BY <3>1, Numbers DEF ShutDownStep
    <3>3. QED
      BY <3>2
  <2>3. QED
    BY <2>1, <2>2
<1>5. QED
  BY <1>1, <1>2, <1>3, <1>4

(* The position after a position is one: pc counts the resources closed so far. *)
LEMMA NextPosition == \A k \in Nat : k + 1 \in Nat
OBVIOUS

\* What a step of the shutdown leaves behind: it gives back what its position says, and
\* nothing else of p or of another process changes.
Gives(p, s) ==
  /\ s.kind = "fence" => fence'[p][s.of] = 0
  /\ s.kind = "file" => files'[Path(p, s.of)] # p
  /\ pc[p] + 1 # Len(ShutDown) => fence'[p][0] = fence[p][0]

OthersKeep(p) ==
  /\ \A q \in Procs \ {p} : fence'[q] = fence[q]
  /\ \A q \in Procs \ {p}, x \in Files :
       files'[Path(q, x)] = q <=> files[Path(q, x)] = q

StoresTyped ==
  /\ DOMAIN locks = Fences \X Inodes
  /\ files \in [Places \X Files -> Procs \cup {NoProc}]
  /\ lease \in [Dirs \X Networks -> Leases]

LEMMA StaleShrinks ==
  ASSUME OwnInv, NEW p \in Procs, Shrinks(p), OthersKeep(p), UNCHANGED <<inode, guard, stale>>
  PROVE  StaleOK'
<1>1. SUFFICES ASSUME NEW q \in Procs, NEW n \in Networks
               PROVE  \/ stale[q][n] = 0
                      \/ stale[q][n] = 1 /\ guard[q][n] = "none" /\ fence'[q][n] # inode[n]
  BY Zenon DEF StaleOK
<1>2. \/ stale[q][n] = 0
      \/ stale[q][n] = 1 /\ guard[q][n] = "none" /\ fence[q][n] # inode[n]
  BY InvParts, Zenon DEF StaleOK
<1>3. n \in Fences /\ inode[n] # 0
  BY FencePaths, Zenon
<1>4. fence'[q][n] = fence[q][n] \/ fence'[q][n] = 0
  BY <1>3 DEF Shrinks, OthersKeep
<1>5. QED
  BY <1>2, <1>3, <1>4, Zenon

\* At the end of the shutdown nothing is left.
LEMMA AllGivenBack ==
  ASSUME NEW p \in Procs, GivenBack(p, Len(ShutDown))'
  PROVE  ~Holding(p)'
<1>1. Len(ShutDown) = 3 * NetworkCount + 3
  BY ShutDownOrder, Zenon
<1>2. /\ \A n \in Networks : Len(ShutDown) >= NetworkCount + n /\ Len(ShutDown) >= 2 * NetworkCount + n
      /\ Len(ShutDown) >= 3 * NetworkCount + 1 /\ Len(ShutDown) >= 3 * NetworkCount + 2
  BY <1>1, Numbers
<1>3. /\ \A n \in Networks : fence'[p][n] = 0
      /\ \A n \in Networks : files'[Path(p, n)'] # p
      /\ files'[Path(p, Ledger)'] # p /\ files'[Path(p, Admission)'] # p
  BY <1>2, Zenon DEF GivenBack
<1>4. \A x \in Files : files'[Path(p, x)'] # p
  BY <1>3, Members, Zenon
<1>5. QED
  BY <1>3, <1>4, Zenon DEF Holding

LEMMA HoldsLess ==
  ASSUME NEW p \in Procs, Shrinks(p), dir' = dir, Holding(p)'
  PROVE  Holding(p)
BY Members, SamePaths, Zenon DEF Holding, Shrinks

LEMMA UnwindStep ==
  ASSUME OwnInv, NEW p \in Procs, Unwind(p), NEW s, s = ShutDown[pc[p] + 1],
         Shrinks(p), Gives(p, s), OthersKeep(p), StoresTyped', FencesOK', FilesOK', LeasesOK'
  PROVE  OwnInv'
<1>1. /\ mode[p] = "stopping"
      /\ pc' = [pc EXCEPT ![p] = @ + 1]
      /\ mode' = [mode EXCEPT ![p] = IF pc'[p] = Len(ShutDown) THEN "down" ELSE @]
      /\ UNCHANGED <<inode, mine, lost, guard, stale, now, replaced, dir>>
  BY Zenon DEF Unwind
<1>2. /\ DOMAIN mode = Procs /\ DOMAIN pc = Procs /\ \A q \in Procs : pc[q] \in Nat
  BY InvParts, Zenon DEF TypesOK
<1>3. /\ pc'[p] = pc[p] + 1
      /\ mode'[p] = IF pc'[p] = Len(ShutDown) THEN "down" ELSE "stopping"
      /\ \A q \in Procs \ {p} : mode'[q] = mode[q] /\ pc'[q] = pc[q]
      /\ DOMAIN mode' = Procs /\ DOMAIN pc' = Procs /\ \A q \in Procs : pc'[q] \in Nat
  <2>1. /\ pc'[p] = pc[p] + 1 /\ DOMAIN pc' = Procs
        /\ \A q \in Procs \ {p} : pc'[q] = pc[q]
    BY <1>1, <1>2, Zenon
  <2>2. /\ mode'[p] = IF pc'[p] = Len(ShutDown) THEN "down" ELSE "stopping"
        /\ DOMAIN mode' = Procs /\ \A q \in Procs \ {p} : mode'[q] = mode[q]
    BY <1>1, <1>2
  <2>3. \A q \in Procs : pc'[q] \in Nat
    BY <1>2, <2>1, NextPosition, Zenon
  <2>4. QED
    BY <2>1, <2>2, <2>3, Zenon
<1>4. TypesOK'
  BY <1>1, <1>3, SameDirs, InvParts, Zenon DEF TypesOK, StoresTyped
<1>5. /\ pc[p] < Len(ShutDown) /\ lost[p] = Networks /\ GivenBack(p, pc[p])
      /\ ~Guarding(p) /\ (Holding(p) => fence[p][0] # 0)
  BY <1>1, InvParts, Zenon DEF LifeOK
<1>6. /\ pc[p] \in Nat /\ pc[p] + 1 \in Nat
      /\ pc[p] + 1 \in 1..Len(ShutDown) /\ pc[p] + 1 # 0
      /\ pc[p] + 1 # Len(ShutDown) => pc[p] + 1 < Len(ShutDown)
  <2>1. pc[p] \in Nat /\ Len(ShutDown) = 3 * NetworkCount + 3
    BY <1>2, ShutDownOrder, Zenon
  <2>2. QED
    BY <1>5, <2>1, Position, NextPosition, Zenon
<1>7. StaleOK'
  BY <1>1, StaleShrinks, Zenon
<1>8. GivenBack(p, pc[p])'
  <2>1. ShutDownStep(pc[p] + 1, s)
    BY <1>6, ShutDownOrder, Zenon
  <2>2. /\ s.kind = "fence" => fence'[p][s.of] = 0
        /\ s.kind = "file" => files'[Path(p, s.of)] # p
    BY Zenon DEF Gives
  <2>3. dir' = dir /\ pc'[p] = pc[p] + 1
    BY <1>1, <1>3, Zenon
  <2>4. LET k == pc[p] + 1
        IN  /\ \A n \in Networks : k >= NetworkCount + n => fence'[p][n] = 0
            /\ \A n \in Networks : k >= 2 * NetworkCount + n => files'[Path(p, n)] # p
            /\ k >= 3 * NetworkCount + 1 => files'[Path(p, Ledger)] # p
            /\ k >= 3 * NetworkCount + 2 => files'[Path(p, Admission)] # p
    BY <1>5, <1>6, <2>1, <2>2, <2>3, GivenBackGrows, Zenon
  <2>5. QED
    BY <2>3, <2>4, SamePaths, Zenon DEF GivenBack
<1>9. LifeOK(p)'
  <2>1. ~Guarding(p)'
    BY <1>1, <1>5, Zenon DEF Guarding
  <2>2. CASE pc[p] + 1 = Len(ShutDown)
    <3>1. GivenBack(p, Len(ShutDown))'
      BY <1>3, <1>8, <2>2, Zenon
    <3>2. ~Holding(p)'
      BY <3>1, AllGivenBack, Zenon
    <3>3. mode'[p] = "down"
      BY <1>3, <2>2, Zenon
    <3>4. QED
      BY <2>1, <3>2, <3>3, Zenon DEF LifeOK
  <2>3. CASE pc[p] + 1 # Len(ShutDown)
    <3>1. Holding(p)' => fence'[p][0] # 0
      BY <1>1, <1>5, <2>3, HoldsLess, Zenon DEF Gives
    <3>2. mode'[p] = "stopping" /\ pc'[p] < Len(ShutDown) /\ lost'[p] = Networks
      BY <1>1, <1>3, <1>5, <1>6, <2>3, Zenon
    <3>3. QED
      BY <1>8, <2>1, <3>1, <3>2, Zenon DEF LifeOK
  <2>4. QED
    BY <2>2, <2>3, Zenon
<1>10. \A q \in Procs \ {p} : LifeOK(q)'
  <2>1. \A q \in Procs \ {p} : Untouched(q)
    BY <1>1, <1>3, Zenon DEF Untouched, OthersKeep
  <2>2. QED
    BY <1>1, <2>1, UntouchedLife, InvParts, Zenon
<1>11. QED
  BY <1>4, <1>7, <1>9, <1>10, Zenon DEF OwnInv

\* What the steps of the shutdown give back.
LEMMA ShutDownGives ==
  ASSUME OwnInv, NEW p \in Procs, Unwind(p)
  PROVE  LET s == ShutDown[pc[p] + 1]
         IN  /\ GiveBack(p, s) /\ s.kind \in Kinds
             /\ s.kind = "fence" => s.of \in Fences /\ (s.of = 0 => pc[p] + 1 = Len(ShutDown))
             /\ s.kind = "file" => s.of \in Files
             /\ s.kind = "lease" => s.of \in Networks
             /\ lost[p] = Networks /\ UNCHANGED <<inode, mine, lost, guard, now, replaced, dir>>
<1> DEFINE k == pc[p] + 1
           s == ShutDown[k]
<1>1. /\ GiveBack(p, s) /\ mode[p] = "stopping"
      /\ UNCHANGED <<inode, mine, lost, guard, now, replaced, dir>>
  BY DEF Unwind
<1>2. /\ pc[p] < Len(ShutDown) /\ lost[p] = Networks
  BY <1>1, InvParts, Zenon DEF LifeOK
<1>3. pc[p] \in Nat /\ Len(ShutDown) = 3 * NetworkCount + 3
  BY ShutDownOrder, InvParts DEF TypesOK
<1>4. k \in 1..Len(ShutDown)
  BY <1>2, <1>3, Position
<1>5. ShutDownStep(k, s)
  BY <1>4, ShutDownOrder
<1> HIDE DEF s, k
<1>6. /\ s.kind \in Kinds
      /\ s.kind = "fence" => s.of \in Fences /\ (s.of = 0 => k = Len(ShutDown))
  BY <1>3, <1>4, <1>5, Numbers DEF ShutDownStep, Fences, Kinds
<1>7. /\ s.kind = "file" => s.of \in Files
      /\ s.kind = "lease" => s.of \in Networks
  BY <1>3, <1>4, <1>5, Numbers DEF ShutDownStep, Files, Ledger, Admission
<1>8. QED
  BY <1>1, <1>2, <1>6, <1>7 DEF s, k

\* The lock that p gives back was its own.
LEMMA ReleaseFenceKeeps ==
  ASSUME OwnInv, NEW p \in Procs, NEW f \in Fences, ReleaseFence(p, f),
         UNCHANGED <<inode, replaced>>
  PROVE  /\ FencesOK' /\ fence'[p][f] = 0
         /\ \A g \in Fences \ {f} : fence'[p][g] = fence[p][g]
         /\ \A q \in Procs \ {p} : fence'[q] = fence[q]
         /\ DOMAIN locks' = Fences \X Inodes
<1>1. /\ locks' = [x \in DOMAIN locks |->
                     IF x[1] = f /\ x[2] = fence[p][f] THEN NoProc ELSE locks[x]]
      /\ fence' = [fence EXCEPT ![p][f] = 0]
  BY DEF ReleaseFence
<1>2. /\ replaced \in 0..MaxReplacements /\ inode = [g \in Fences |-> replaced + 1]
      /\ fence \in [Procs -> [Fences -> 0..replaced + 1]]
      /\ \A q \in Procs, g \in Fences : fence[q][g] # 0 => locks[<<g, fence[q][g]>>] = q
  BY InvParts DEF FencesOK
<1>3. DOMAIN locks = Fences \X Inodes
  BY InvParts DEF TypesOK
<1>4. /\ fence'[p][f] = 0
      /\ \A g \in Fences \ {f} : fence'[p][g] = fence[p][g]
      /\ \A q \in Procs \ {p} : fence'[q] = fence[q]
  BY <1>1, <1>2
<1>5. 0 \in 0..replaced + 1
  BY <1>2, Numbers
<1>6. fence' \in [Procs -> [Fences -> 0..replaced + 1]]
  BY <1>1, <1>2, <1>5
<1>7. /\ DOMAIN locks' = Fences \X Inodes
      /\ \A g \in Fences, i \in Inodes :
           g # f \/ i # fence[p][f] => locks'[<<g, i>>] = locks[<<g, i>>]
  BY <1>1, <1>3
<1>8. ASSUME NEW q \in Procs, NEW g \in Fences, fence'[q][g] # 0
      PROVE  locks'[<<g, fence'[q][g]>>] = q
  <2>1. ~(q = p /\ g = f)
    BY <1>4, <1>8
  <2>2. fence'[q][g] = fence[q][g]
    BY <1>4, <2>1
  <2>3. fence[q][g] # 0 /\ fence[q][g] \in Inodes
    BY <1>2, <1>8, <2>2, Numbers DEF Inodes
  <2>4. locks[<<g, fence[q][g]>>] = q
    BY <1>2, <2>3
  <2>5. g # f \/ fence[q][g] # fence[p][f]
    BY <1>2, <2>1, <2>3, <2>4
  <2>6. QED
    BY <1>7, <2>2, <2>3, <2>4, <2>5
<1>9. FencesOK'
  BY <1>2, <1>6, <1>8 DEF FencesOK
<1>10. QED
  BY <1>4, <1>7, <1>9

LEMMA UnwindFence ==
  ASSUME OwnInv, NEW p \in Procs, Unwind(p), ShutDown[pc[p] + 1].kind = "fence",
         ReleaseFence(p, ShutDown[pc[p] + 1].of)
  PROVE  OwnInv'
<1> DEFINE s == ShutDown[pc[p] + 1]
           f == s.of
<1>1. /\ f \in Fences /\ (f = 0 => pc[p] + 1 = Len(ShutDown))
      /\ UNCHANGED <<inode, mine, lost, guard, now, replaced, dir>>
  BY ShutDownGives, Zenon
<1>2. ReleaseFence(p, f) /\ s.kind = "fence"
  OBVIOUS
<1>3. UNCHANGED <<files, lease>>
  BY DEF ReleaseFence
<1> HIDE DEF s
<1>4. /\ FencesOK' /\ fence'[p][f] = 0
      /\ \A g \in Fences \ {f} : fence'[p][g] = fence[p][g]
      /\ \A q \in Procs \ {p} : fence'[q] = fence[q]
      /\ DOMAIN locks' = Fences \X Inodes
  BY <1>1, <1>2, ReleaseFenceKeeps, Zenon
<1>5. Shrinks(p)
  BY <1>3, <1>4, Zenon DEF Shrinks
<1>6. FilesOK' /\ LeasesOK'
  BY <1>1, <1>3, InvParts, SameFiles, SameLeases, Zenon
<1>7. StoresTyped'
  BY <1>1, <1>3, <1>4, InvParts, SameDirs, Zenon DEF TypesOK, StoresTyped
<1>8. Gives(p, s)
  BY <1>1, <1>2, <1>4, Members DEF Gives
<1>9. OthersKeep(p)
  BY <1>3, <1>4, Zenon DEF OthersKeep
<1>10. s = ShutDown[pc[p] + 1]
  BY DEF s
<1>11. QED
  BY <1>4, <1>5, <1>6, <1>7, <1>8, <1>9, <1>10, UnwindStep, Zenon

LEMMA UnwindFile ==
  ASSUME OwnInv, NEW p \in Procs, Unwind(p), ShutDown[pc[p] + 1].kind = "file",
         CloseFile(p, ShutDown[pc[p] + 1].of)
  PROVE  OwnInv'
<1> DEFINE s == ShutDown[pc[p] + 1]
           x == s.of
           at == Path(p, x)
<1>1. x \in Files /\ UNCHANGED <<inode, mine, lost, guard, now, replaced, dir>>
  BY ShutDownGives, Zenon
<1>2. /\ files' = [files EXCEPT ![at] = IF @ = p THEN NoProc ELSE @]
      /\ UNCHANGED <<locks, fence, lease>> /\ s.kind = "file"
  BY DEF CloseFile
<1>3. at \in Places \X Files
  BY <1>1, FilePaths
<1> HIDE DEF at, s
<1>4. /\ files \in [Places \X Files -> Procs \cup {NoProc}] /\ DOMAIN locks = Fences \X Inodes
      /\ lease \in [Dirs \X Networks -> Leases]
  BY InvParts DEF TypesOK
<1>5. /\ files' \in [Places \X Files -> Procs \cup {NoProc}] /\ files'[at] # p
      /\ \A q \in Procs \ {p} : files'[at] = q <=> files[at] = q
      /\ \A y \in Places \X Files : y # at => files'[y] = files[y]
  BY <1>2, <1>3, <1>4, Members
<1>6. ASSUME NEW q \in Procs, NEW y \in Places \X Files, files'[y] = q
      PROVE  files[y] = q
  BY <1>3, <1>5, <1>6
<1>7. FilesOK'
  BY <1>1, <1>6, SameDirs, SamePaths, InvParts DEF FilesOK
<1>8. Shrinks(p)
  BY <1>2, <1>6, FilePaths DEF Shrinks
<1>9. OthersKeep(p)
  BY <1>2, <1>5, FilePaths DEF OthersKeep
<1>10. FencesOK' /\ LeasesOK'
  BY <1>1, <1>2, InvParts, SameFences, SameLeases, Zenon
<1>11. Gives(p, s)
  BY <1>2, <1>5 DEF Gives, at
<1>12. StoresTyped'
  BY <1>1, <1>2, <1>4, <1>5, SameDirs, Zenon DEF StoresTyped
<1>13. s = ShutDown[pc[p] + 1]
  BY DEF s
<1>14. QED
  BY <1>5, <1>7, <1>8, <1>9, <1>10, <1>11, <1>12, <1>13, UnwindStep, Zenon

\* Only the lease of p itself is deleted, and p has lost it.
LEMMA ReleaseKeeps ==
  ASSUME OwnInv, NEW p \in Procs, NEW n \in Networks, Release(p, n), lost[p] = Networks,
         UNCHANGED <<mine, lost, guard, now, dir>>
  PROVE  LeasesOK' /\ lease' \in [Dirs \X Networks -> Leases]
<1> DEFINE at == <<dir[p], n>>
<1>1. lease' = IF lease[at] = mine[p][n] /\ mine[p][n].expires > now
               THEN [lease EXCEPT ![at] = NoLease] ELSE lease
  BY DEF Release
<1>2. /\ lease \in [Dirs \X Networks -> Leases] /\ mine \in [Procs -> [Networks -> Leases]]
      /\ now \in Nat
  BY InvParts DEF TypesOK
<1>3. at \in Dirs \X Networks /\ NoLease \in Leases
  BY Members DEF NoLease, Leases
<1> HIDE DEF at
<1>4. /\ lease' \in [Dirs \X Networks -> Leases]
      /\ \A y \in Dirs \X Networks : y # at => lease'[y] = lease[y]
      /\ lease'[at] # lease[at] => lease[at] = mine[p][n] /\ mine[p][n].expires > now
  BY <1>1, <1>2, <1>3
<1>5. LeasesOK
  BY InvParts
<1>6. ASSUME NEW q \in Procs, NEW m \in Networks, m \notin lost[q], mine[q][m].expires > now
      PROVE  lease'[<<dir[q], m>>] = mine[q][m]
  <2>1. lease[<<dir[q], m>>] = mine[q][m] /\ (mine[q][m].expires > 0 => mine[q][m].owner = q)
    BY <1>5, <1>6 DEF LeasesOK
  <2>2. mine[p][n].expires > 0 => mine[p][n].owner = p
    BY <1>5, Zenon DEF LeasesOK
  <2>3. mine[q][m].expires \in Nat /\ q # p
    BY <1>2, <1>6 DEF Leases
  <2>4. mine[q][m].owner = q
    BY <1>2, <1>6, <2>1, <2>3
  <2>5. <<dir[q], m>> \in Dirs \X Networks
    BY Members
  <2>6. CASE <<dir[q], m>> # at
    BY <1>4, <2>1, <2>5, <2>6
  <2>7. CASE <<dir[q], m>> = at
    BY <1>2, <1>4, <1>6, <2>1, <2>2, <2>3, <2>4, <2>7
  <2>8. QED
    BY <2>6, <2>7
<1>7. /\ \A q \in Procs, m \in Networks : mine[q][m].expires > 0 => mine[q][m].owner = q
      /\ \A a, q \in Procs, m \in Networks :
           a # q /\ dir[a] = dir[q] /\ m \notin lost[a] /\ guard[q][m] = "guarded" =>
             mine[a][m].expires <= now
  BY <1>5, Zenon DEF LeasesOK
<1>8. LeasesOK'
  BY <1>6, <1>7 DEF LeasesOK
<1>9. QED
  BY <1>4, <1>8

LEMMA UnwindLease ==
  ASSUME OwnInv, NEW p \in Procs, Unwind(p), ShutDown[pc[p] + 1].kind = "lease",
         Release(p, ShutDown[pc[p] + 1].of)
  PROVE  OwnInv'
<1> DEFINE s == ShutDown[pc[p] + 1]
           n == s.of
<1>1. /\ n \in Networks /\ lost[p] = Networks
      /\ UNCHANGED <<inode, mine, lost, guard, now, replaced, dir>>
  BY ShutDownGives
<1>2. Release(p, n) /\ s.kind = "lease"
  OBVIOUS
<1>3. UNCHANGED <<locks, fence, files>>
  BY DEF Release
<1> HIDE DEF s
<1>4. LeasesOK' /\ lease' \in [Dirs \X Networks -> Leases]
  BY <1>1, <1>2, ReleaseKeeps, Zenon
<1>5. FencesOK' /\ FilesOK'
  BY <1>1, <1>3, InvParts, SameFences, SameFiles
<1>6. Shrinks(p)
  BY <1>3 DEF Shrinks
<1>7. StoresTyped'
  BY <1>1, <1>3, <1>4, InvParts, SameDirs, Zenon DEF TypesOK, StoresTyped
<1>8. Gives(p, s)
  BY <1>2, <1>3 DEF Gives
<1>9. OthersKeep(p)
  BY <1>3, Zenon DEF OthersKeep
<1>10. s = ShutDown[pc[p] + 1]
  BY DEF s
<1>11. QED
  BY <1>4, <1>5, <1>6, <1>7, <1>8, <1>9, <1>10, UnwindStep, Zenon

LEMMA UnwindKeeps ==
  ASSUME OwnInv, NEW p \in Procs, Unwind(p)
  PROVE  OwnInv'
BY ShutDownGives, UnwindFence, UnwindFile, UnwindLease, Zenon DEF GiveBack

-----------------------------------------------------------------------------
(* A crash.                                                                *)

LEMMA CrashKeeps ==
  ASSUME OwnInv, NEW p \in Procs, Crash(p)
  PROVE  OwnInv'
<1>1. /\ mode' = [mode EXCEPT ![p] = "down"] /\ pc' = [pc EXCEPT ![p] = 0]
      /\ locks' = [x \in DOMAIN locks |-> IF locks[x] = p THEN NoProc ELSE locks[x]]
      /\ fence' = [fence EXCEPT ![p] = [f \in Fences |-> 0]]
      /\ files' = [x \in DOMAIN files |-> IF files[x] = p THEN NoProc ELSE files[x]]
      /\ guard' = [guard EXCEPT ![p] = [n \in Networks |-> "none"]]
  BY DEF Crash
<1>2. UNCHANGED <<inode, lease, mine, lost, stale, now, replaced, dir>>
  BY DEF Crash
<1>3. TypesOK
  BY InvParts
<1>4. /\ DOMAIN mode = Procs /\ DOMAIN pc = Procs /\ \A q \in Procs : pc[q] \in Nat
      /\ DOMAIN locks = Fences \X Inodes /\ files \in [Places \X Files -> Procs \cup {NoProc}]
      /\ guard \in [Procs -> [Networks -> {"none", "fenced", "guarded"}]]
  BY <1>3 DEF TypesOK
<1>5. /\ mode'[p] = "down" /\ DOMAIN mode' = Procs /\ DOMAIN pc' = Procs
      /\ \A q \in Procs : pc'[q] \in Nat
      /\ \A q \in Procs \ {p} : mode'[q] = mode[q] /\ pc'[q] = pc[q]
  BY <1>1, <1>4
<1>6. /\ guard' \in [Procs -> [Networks -> {"none", "fenced", "guarded"}]]
      /\ \A n \in Networks : guard'[p][n] = "none"
      /\ \A q \in Procs \ {p} : guard'[q] = guard[q]
  BY <1>1, <1>4
<1>7. /\ files' \in [Places \X Files -> Procs \cup {NoProc}]
      /\ \A x \in Places \X Files : files'[x] # p
      /\ \A x \in Places \X Files, q \in Procs \ {p} : files'[x] = q <=> files[x] = q
  BY <1>1, <1>4, Members
<1>8. /\ DOMAIN locks' = Fences \X Inodes
      /\ \A x \in Fences \X Inodes : locks[x] # p => locks'[x] = locks[x]
  BY <1>1, <1>4
<1>9. TypesOK'
  BY <1>2, <1>3, <1>5, <1>6, <1>7, <1>8, SameDirs, Zenon DEF TypesOK
<1>10. /\ replaced \in 0..MaxReplacements /\ inode = [f \in Fences |-> replaced + 1]
       /\ fence \in [Procs -> [Fences -> 0..replaced + 1]]
       /\ \A q \in Procs, f \in Fences : fence[q][f] # 0 => locks[<<f, fence[q][f]>>] = q
  BY InvParts DEF FencesOK
<1>11. 0 \in 0..replaced + 1
  BY <1>10, Numbers
<1>12. /\ fence' \in [Procs -> [Fences -> 0..replaced + 1]]
       /\ \A f \in Fences : fence'[p][f] = 0
       /\ \A q \in Procs \ {p} : fence'[q] = fence[q]
  BY <1>1, <1>10, <1>11
<1>13. FencesOK'
  <2>1. ASSUME NEW q \in Procs, NEW f \in Fences, fence'[q][f] # 0
        PROVE  locks'[<<f, fence'[q][f]>>] = q
    <3>1. q # p /\ fence'[q][f] = fence[q][f]
      BY <1>12, <2>1
    <3>2. locks[<<f, fence[q][f]>>] = q /\ fence[q][f] \in Inodes
      BY <1>10, <2>1, <3>1, Numbers DEF Inodes
    <3>3. QED
      BY <1>8, <3>1, <3>2
  <2>2. QED
    BY <1>2, <1>10, <1>12, <2>1 DEF FencesOK
<1>14. FilesOK'
  BY <1>2, <1>7, InvParts, SameDirs, SamePaths DEF FilesOK
<1>15. StaleOK'
  <2>1. \A n \in Networks : n \in Fences /\ inode[n] # 0
    BY FencePaths, Zenon
  <2>2. SUFFICES ASSUME NEW q \in Procs, NEW n \in Networks
                 PROVE  \/ stale[q][n] = 0
                        \/ stale[q][n] = 1 /\ guard'[q][n] = "none" /\ fence'[q][n] # inode[n]
    BY <1>2, Zenon DEF StaleOK
  <2>3. \/ stale[q][n] = 0
        \/ stale[q][n] = 1 /\ guard[q][n] = "none" /\ fence[q][n] # inode[n]
    BY InvParts, Zenon DEF StaleOK
  <2>4. QED
    BY <1>6, <1>12, <2>1, <2>3
<1>16. LeasesOK'
  BY <1>2, <1>6, InvParts, FewerLeases, Zenon
<1>17. LifeOK(p)'
  <2>1. \A x \in Files : files'[Path(p, x)'] # p
    BY <1>2, <1>7, FilePaths, SamePaths
  <2>2. ~Holding(p)' /\ ~Guarding(p)'
    BY <1>6, <1>12, <2>1, Members, Zenon DEF Holding, Guarding
  <2>3. QED
    BY <1>5, <2>2, Zenon DEF LifeOK
<1>18. \A q \in Procs \ {p} : LifeOK(q)'
  <2>1. \A q \in Procs \ {p}, x \in Files :
          files'[Path(q, x)] = q <=> files[Path(q, x)] = q
    BY <1>7, FilePaths
  <2>2. \A q \in Procs \ {p} : Untouched(q)
    BY <1>2, <1>5, <1>6, <1>12, <2>1, Zenon DEF Untouched
  <2>3. QED
    BY <1>2, <2>2, UntouchedLife, InvParts
<1>19. QED
  BY <1>9, <1>13, <1>14, <1>15, <1>16, <1>17, <1>18 DEF OwnInv

-----------------------------------------------------------------------------
(* A running process.                                                      *)

LEMMA Renewed ==
  ASSUME NEW l \in Leases, NEW e \in Nat
  PROVE  LET r == [l EXCEPT !.expires = e]
         IN  r \in Leases /\ r.owner = l.owner /\ r.expires = e
<1> DEFINE r == [l EXCEPT !.expires = e]
<1>1. l = [owner |-> l.owner, expires |-> l.expires] /\ l.owner \in Procs \cup {NoProc}
  BY DEF Leases
<1>2. DOMAIN l = {"owner", "expires"}
  BY <1>1, Zenon
<1>3. r = [owner |-> l.owner, expires |-> e]
  <2>1. r = [x \in {"owner", "expires"} |-> IF x = "expires" THEN e ELSE l[x]]
    BY <1>2, Zenon
  <2> HIDE DEF r
  <2>2. QED
    BY <2>1
<1> HIDE DEF r
<1>4. r \in Leases /\ r.owner = l.owner /\ r.expires = e
  BY <1>1, <1>3 DEF Leases
<1>5. QED
  BY <1>4 DEF r

\* Nothing but guards, lost leases and stale signatures of running processes changes.
LEMMA SteadyLife ==
  ASSUME OwnInv, UNCHANGED <<mode, pc, fence, files, dir>>,
         \A q \in Procs : Guarding(q)' => mode[q] = "running",
         \A q \in Procs : mode[q] = "starting" => stale'[q] = stale[q],
         \A q \in Procs : mode[q] = "stopping" => lost'[q] = lost[q]
  PROVE  \A q \in Procs : LifeOK(q)'
<1>1. TAKE q \in Procs
<1>2. LifeOK(q)
  BY InvParts
<1>3. Holding(q)' <=> Holding(q)
  BY SamePaths, Zenon DEF Holding
<1>4. GivenBack(q, pc[q])' <=> GivenBack(q, pc[q])
  BY SamePaths DEF GivenBack
<1>5. /\ mode' = mode /\ pc' = pc /\ fence' = fence /\ files' = files /\ Path(q, Admission)' = Path(q, Admission)
  BY SamePaths
<1>6. Guarding(q)' => mode[q] = "running"
  OBVIOUS
<1>7. CASE mode[q] = "down"
  BY <1>2, <1>3, <1>5, <1>6, <1>7, Zenon DEF LifeOK
<1>8. CASE mode[q] = "running"
  BY <1>2, <1>3, <1>5, <1>6, <1>8, Zenon DEF LifeOK
<1>9. CASE mode[q] = "starting"
  BY <1>2, <1>3, <1>5, <1>6, <1>9, Zenon DEF LifeOK
<1>10. CASE mode[q] = "stopping"
  BY <1>2, <1>3, <1>4, <1>5, <1>6, <1>10, Zenon DEF LifeOK
<1>11. mode[q] \in {"down", "starting", "running", "stopping"}
  BY <1>2, Zenon DEF LifeOK
<1>12. QED
  BY <1>7, <1>8, <1>9, <1>10, <1>11

\* While a process runs, no other one with its directory is past a check of guardSigning.
LEMMA AloneInDirectory ==
  ASSUME OwnInv, NEW p \in Procs, mode[p] = "running", NEW q \in Procs, q # p,
         dir[q] = dir[p], NEW n \in Networks
  PROVE  guard[q][n] = "none"
<1>1. SUFFICES ASSUME guard[q][n] # "none" PROVE FALSE
  OBVIOUS
<1>2. Guarding(q)
  BY <1>1 DEF Guarding
<1>3. files[Path(q, Admission)] = q /\ files[Path(p, Admission)] = p
  BY <1>2, InvParts, Zenon DEF LifeOK
<1>4. QED
  BY <1>3, FilePaths

LEMMA RenewKeeps ==
  ASSUME OwnInv, NEW p \in Procs, NEW n \in Networks, Renew(p, n)
  PROVE  OwnInv'
<1>1. /\ mode[p] = "running" /\ n \notin lost[p]
      /\ UNCHANGED <<mode, pc, inode, locks, fence, files, guard, stale, now, replaced, dir>>
  BY DEF Renew
<1>2. FencesOK' /\ FilesOK' /\ StaleOK'
  BY <1>1, InvParts, SameFences, SameFiles, SameStale, Zenon
<1>3. TypesOK
  BY InvParts
<1>4. \A q \in Procs : Guarding(q)' => mode[q] = "running"
  <2>1. \A q \in Procs : Guarding(q) => mode[q] = "running"
    BY InvParts, Zenon DEF LifeOK
  <2>2. QED
    BY <1>1, <2>1 DEF Guarding
<1>5. CASE LeaseValid(p, n)
  <2> DEFINE at == <<dir[p], n>>
             r == [lease[at] EXCEPT !.expires = now + TTL]
  <2>1. /\ lease' = [lease EXCEPT ![at] = r] /\ mine' = [mine EXCEPT ![p][n] = lease'[at]]
        /\ UNCHANGED lost
    BY <1>5, Zenon DEF Renew
  <2>2. lease[at] = mine[p][n] /\ mine[p][n].expires > now
    BY <1>5 DEF LeaseValid
  <2>3. /\ lease \in [Dirs \X Networks -> Leases] /\ mine \in [Procs -> [Networks -> Leases]]
        /\ now \in Nat
    BY <1>3, Zenon DEF TypesOK
  <2>4. at \in Dirs \X Networks /\ lease[at] \in Leases /\ now + TTL \in Nat
    BY <2>3, Members, Numbers
  <2>5. r \in Leases /\ r.owner = lease[at].owner
    BY <2>4, Renewed
  <2> HIDE DEF r, at
  <2>6. ASSUME NEW q \in Procs, NEW m \in Networks, mine[q][m].expires > now
        PROVE  mine[q][m].owner = q
    <3>1. mine[q][m].expires \in Nat
      BY <2>3 DEF Leases
    <3>2. mine[q][m].expires > 0
      BY <2>3, <2>6, <3>1
    <3>3. QED
      BY <3>2, InvParts, Zenon DEF LeasesOK
  <2>7. r.owner = p
    BY <2>2, <2>5, <2>6
  <2>8. lease'[at] = r
    BY <2>1, <2>3, <2>4
  <2>9. mine' = [mine EXCEPT ![p][n] = r]
    BY <2>1, <2>8, Zenon
  <2>10. ASSUME NEW q \in Procs, NEW m \in Networks, q # p \/ m # n, m \notin lost[q],
                mine[q][m].expires > now
         PROVE  <<dir[q], m>> # <<dir[p], n>>
    <3>1. SUFFICES ASSUME <<dir[q], m>> = <<dir[p], n>> PROVE FALSE
      OBVIOUS
    <3>2. lease[<<dir[q], m>>] = mine[q][m]
      BY <2>10, InvParts DEF LeasesOK
    <3>3. mine[q][m] = mine[p][n]
      BY <2>2, <3>1, <3>2 DEF at
    <3>4. q = p
      BY <2>2, <2>6, <2>10, <3>3
    <3>5. m = n
      BY <3>1
    <3>6. QED
      BY <2>10, <3>4, <3>5
  <2>11. \A q \in Procs : q # p /\ dir[q] = dir[p] => guard[q][n] # "guarded"
    BY <1>1, AloneInDirectory, Zenon
  <2>12. Written(p, n, r)
    BY <2>1, <2>9, Zenon DEF Written, at
  <2>13. UNCHANGED <<lost, guard, now, dir>>
    BY <1>1, <2>1
  <2>14. \A q \in Procs, m \in Networks :
           (q # p \/ m # n) /\ m \notin lost[q] /\ mine[q][m].expires > now =>
             <<dir[q], m>> # <<dir[p], n>>
    BY <2>10, Zenon
  <2>15. /\ LeasesOK'
         /\ lease' \in [Dirs \X Networks -> Leases] /\ mine' \in [Procs -> [Networks -> Leases]]
    BY <2>5, <2>7, <2>11, <2>12, <2>13, <2>14, LeaseTaken, Zenon DEF Unshared
  <2>16. TypesOK'
    BY <1>1, <1>3, <2>13, <2>15, SameDirs, Zenon DEF TypesOK
  <2>17. \A q \in Procs : LifeOK(q)'
    BY <1>1, <1>4, <2>13, SteadyLife
  <2>18. QED
    BY <1>2, <2>15, <2>16, <2>17 DEF OwnInv
<1>6. CASE ~LeaseValid(p, n)
  <2>1. lost' = [lost EXCEPT ![p] = @ \cup {n}] /\ UNCHANGED <<lease, mine>>
    BY <1>6 DEF Renew
  <2>2. DOMAIN lost = Procs
    BY <1>3 DEF TypesOK
  <2>3. DOMAIN lost' = Procs /\ (\A q \in Procs : lost[q] \subseteq lost'[q])
        /\ \A q \in Procs \ {p} : lost'[q] = lost[q]
    BY <2>1, <2>2
  <2>4. LeasesOK'
    BY <1>1, <2>1, <2>3, InvParts, FewerLeases
  <2>5. TypesOK'
    BY <1>1, <1>3, <2>1, <2>3, SameDirs, Zenon DEF TypesOK
  <2>6. \A q \in Procs : LifeOK(q)'
    BY <1>1, <1>4, <2>3, SteadyLife, Zenon
  <2>7. QED
    BY <1>2, <2>4, <2>5, <2>6 DEF OwnInv
<1>7. QED
  BY <1>5, <1>6

\* The guard of p for n moves to g.
LEMMA GuardMoves ==
  ASSUME OwnInv, NEW p \in Procs, NEW n \in Networks, NEW g \in {"none", "fenced", "guarded"},
         mode[p] = "running", guard' = [guard EXCEPT ![p][n] = g]
  PROVE  /\ guard' \in [Procs -> [Networks -> {"none", "fenced", "guarded"}]]
         /\ guard'[p][n] = g
         /\ \A q \in Procs, m \in Networks : q # p \/ m # n => guard'[q][m] = guard[q][m]
         /\ \A q \in Procs : Guarding(q)' => mode[q] = "running"
<1>1. guard \in [Procs -> [Networks -> {"none", "fenced", "guarded"}]]
  BY InvParts DEF TypesOK
<1>2. /\ guard' \in [Procs -> [Networks -> {"none", "fenced", "guarded"}]]
      /\ guard'[p][n] = g
      /\ \A q \in Procs, m \in Networks : q # p \/ m # n => guard'[q][m] = guard[q][m]
  BY <1>1
<1>3. ASSUME NEW q \in Procs, q # p, Guarding(q)'
      PROVE  mode[q] = "running"
  <2>1. Guarding(q)
    BY <1>2, <1>3 DEF Guarding
  <2>2. QED
    BY <2>1, InvParts, Zenon DEF LifeOK
<1>4. QED
  BY <1>2, <1>3

LEMMA GuardingRuns ==
  ASSUME OwnInv, NEW p \in Procs, NEW n \in Networks, guard[p][n] # "none"
  PROVE  mode[p] = "running" /\ stale[p][n] = 0
<1>1. Guarding(p)
  BY DEF Guarding
<1>2. LifeOK(p) /\ StaleOK
  BY InvParts
<1>3. mode[p] = "running"
  BY <1>1, <1>2, Zenon DEF LifeOK
<1>4. stale[p][n] = 0
  BY <1>2 DEF StaleOK
<1>5. QED
  BY <1>3, <1>4

LEMMA GuardFenceKeeps ==
  ASSUME OwnInv, NEW p \in Procs, NEW n \in Networks, GuardFence(p, n)
  PROVE  OwnInv'
<1>1. /\ mode[p] = "running" /\ fence[p][n] = inode[n]
      /\ guard' = [guard EXCEPT ![p][n] = "fenced"]
  BY DEF GuardFence, ValidateProcessFence
<1>2. UNCHANGED <<mode, pc, inode, locks, fence, files, lease, mine, lost, stale, now, replaced, dir>>
  BY DEF GuardFence
<1>3. /\ guard' \in [Procs -> [Networks -> {"none", "fenced", "guarded"}]]
      /\ guard'[p][n] = "fenced"
      /\ \A q \in Procs, m \in Networks : q # p \/ m # n => guard'[q][m] = guard[q][m]
      /\ \A q \in Procs : Guarding(q)' => mode[q] = "running"
  BY <1>1, GuardMoves, Zenon
<1>4. FencesOK' /\ FilesOK'
  BY <1>2, InvParts, SameFences, SameFiles
<1>5. TypesOK'
  BY <1>2, <1>3, InvParts, SameDirs, Zenon DEF TypesOK
<1>6. StaleOK'
  <2>1. stale[p][n] = 0
    BY <1>1, InvParts, Zenon DEF StaleOK
  <2>2. SUFFICES ASSUME NEW q \in Procs, NEW m \in Networks
                 PROVE  \/ stale[q][m] = 0
                        \/ stale[q][m] = 1 /\ guard'[q][m] = "none" /\ fence[q][m] # inode[m]
    BY <1>2, Zenon DEF StaleOK
  <2>3. \/ stale[q][m] = 0
        \/ stale[q][m] = 1 /\ guard[q][m] = "none" /\ fence[q][m] # inode[m]
    BY InvParts, Zenon DEF StaleOK
  <2>4. QED
    BY <1>3, <2>1, <2>3, Zenon
<1>7. LeasesOK'
  BY <1>2, <1>3, InvParts, FewerLeases, Zenon
<1>8. \A q \in Procs : LifeOK(q)'
  BY <1>2, <1>3, SteadyLife, Zenon
<1>9. QED
  BY <1>4, <1>5, <1>6, <1>7, <1>8 DEF OwnInv

\* The lease of p is in the file, so no other process has one there.
LEMMA GuardLeaseKeeps ==
  ASSUME OwnInv, NEW p \in Procs, NEW n \in Networks, GuardLease(p, n)
  PROVE  OwnInv'
<1> DEFINE ok == n \notin lost[p] /\ LeaseValid(p, n)
<1>1. /\ guard[p][n] = "fenced"
      /\ guard' = [guard EXCEPT ![p][n] = IF ok THEN "guarded" ELSE "none"]
      /\ lost' = IF ok THEN lost ELSE [lost EXCEPT ![p] = @ \cup {n}]
  BY DEF GuardLease
<1>2. UNCHANGED <<mode, pc, inode, locks, fence, files, lease, mine, stale, now, replaced, dir>>
  BY DEF GuardLease
<1>3. mode[p] = "running" /\ stale[p][n] = 0
  BY <1>1, GuardingRuns
<1>4. PICK g \in {"none", "guarded"} : /\ guard' = [guard EXCEPT ![p][n] = g]
                                       /\ g = "guarded" => ok /\ lost' = lost
                                       /\ g = "none" => ~ok
  BY <1>1, Zenon
<1>5. /\ guard' \in [Procs -> [Networks -> {"none", "fenced", "guarded"}]]
      /\ guard'[p][n] = g
      /\ \A q \in Procs, m \in Networks : q # p \/ m # n => guard'[q][m] = guard[q][m]
      /\ \A q \in Procs : Guarding(q)' => mode[q] = "running"
  <2>1. CASE g = "none"
    BY <1>3, <1>4, <2>1, GuardMoves, Zenon
  <2>2. CASE g = "guarded"
    <3>1. guard' = [guard EXCEPT ![p][n] = "guarded"]
      BY <1>4, <2>2
    <3>2. /\ guard' \in [Procs -> [Networks -> {"none", "fenced", "guarded"}]]
          /\ guard'[p][n] = "guarded"
          /\ \A q \in Procs, m \in Networks : q # p \/ m # n => guard'[q][m] = guard[q][m]
          /\ \A q \in Procs : Guarding(q)' => mode[q] = "running"
      BY <1>3, <3>1, GuardMoves, Zenon
    <3>3. QED
      BY <2>2, <3>2
  <2>3. QED
    BY <2>1, <2>2, Zenon
<1>6. DOMAIN lost' = Procs /\ (\A q \in Procs : lost[q] \subseteq lost'[q])
      /\ \A q \in Procs \ {p} : lost'[q] = lost[q]
  BY <1>1, InvParts DEF TypesOK
<1> HIDE DEF ok
<1>7. FencesOK' /\ FilesOK'
  BY <1>2, InvParts, SameFences, SameFiles
<1>8. TypesOK'
  BY <1>2, <1>5, <1>6, InvParts, SameDirs, Zenon DEF TypesOK
<1>9. StaleOK'
  BY <1>2, <1>3, <1>5, InvParts DEF StaleOK
<1>10. LeasesOK'
  <2>1. CASE g = "none"
    BY <1>2, <1>5, <1>6, <2>1, InvParts, FewerLeases
  <2>2. CASE g = "guarded"
    <3>1. lost' = lost /\ lease[<<dir[p], n>>] = mine[p][n] /\ mine[p][n].expires > now
      BY <1>4, <2>2 DEF ok, LeaseValid
    <3>2. /\ mine \in [Procs -> [Networks -> Leases]] /\ now \in Nat
      BY InvParts DEF TypesOK
    <3>3. LeasesOK
      BY InvParts
    <3>4. ASSUME NEW a \in Procs, NEW m \in Networks
          PROVE  mine[a][m].expires \in Nat /\ (mine[a][m].expires > now => mine[a][m].owner = a)
      <4>1. mine[a][m].expires \in Nat /\ (mine[a][m].expires > 0 => mine[a][m].owner = a)
        BY <3>2, <3>3, Zenon DEF Leases, LeasesOK
      <4>2. QED
        BY <3>2, <4>1
    <3>5. ASSUME NEW a \in Procs, a # p, dir[a] = dir[p], n \notin lost[a]
          PROVE  mine[a][n].expires <= now
      BY <3>1, <3>2, <3>3, <3>4, <3>5 DEF LeasesOK
    <3>6. ASSUME NEW a \in Procs, NEW q \in Procs, NEW m \in Networks, a # q, dir[a] = dir[q],
                 m \notin lost[a], guard'[q][m] = "guarded"
          PROVE  mine[a][m].expires <= now
      BY <1>5, <3>3, <3>5, <3>6 DEF LeasesOK
    <3>7. \A a \in Procs, m \in Networks :
            /\ mine[a][m].expires > 0 => mine[a][m].owner = a
            /\ m \notin lost[a] /\ mine[a][m].expires > now => lease[<<dir[a], m>>] = mine[a][m]
      BY <3>3, Zenon DEF LeasesOK
    <3>8. QED
      BY <1>2, <3>1, <3>6, <3>7, Zenon DEF LeasesOK
  <2>3. QED
    BY <2>1, <2>2
<1>11. \A q \in Procs : LifeOK(q)'
  BY <1>2, <1>3, <1>5, <1>6, SteadyLife
<1>12. QED
  BY <1>7, <1>8, <1>9, <1>10, <1>11 DEF OwnInv

\* Whoever signs after a takeover no longer holds the fence that the path names.
LEMMA SignKeeps ==
  ASSUME OwnInv, NEW p \in Procs, NEW n \in Networks, Sign(p, n)
  PROVE  OwnInv'
<1>1. /\ guard[p][n] = "guarded" /\ guard' = [guard EXCEPT ![p][n] = "none"]
      /\ stale' = IF TakenOver(p, n) /\ stale[p][n] < 2
                  THEN [stale EXCEPT ![p][n] = @ + 1] ELSE stale
  BY DEF Sign
<1>2. UNCHANGED <<mode, pc, inode, locks, fence, files, lease, mine, lost, now, replaced, dir>>
  BY DEF Sign
<1>3. mode[p] = "running" /\ stale[p][n] = 0
  BY <1>1, GuardingRuns
<1>4. /\ guard' \in [Procs -> [Networks -> {"none", "fenced", "guarded"}]]
      /\ guard'[p][n] = "none"
      /\ \A q \in Procs, m \in Networks : q # p \/ m # n => guard'[q][m] = guard[q][m]
      /\ \A q \in Procs : Guarding(q)' => mode[q] = "running"
  BY <1>1, <1>3, GuardMoves, Zenon
<1>5. DOMAIN stale = Procs /\ \A q \in Procs : DOMAIN stale[q] = Networks
  BY InvParts DEF TypesOK
<1>6. /\ DOMAIN stale' = Procs /\ \A q \in Procs : DOMAIN stale'[q] = Networks
      /\ \A q \in Procs \ {p} : stale'[q] = stale[q]
      /\ \A m \in Networks \ {n} : stale'[p][m] = stale[p][m]
      /\ stale'[p][n] = IF TakenOver(p, n) THEN 1 ELSE 0
  BY <1>1, <1>3, <1>5
<1>7. FencesOK' /\ FilesOK'
  BY <1>2, InvParts, SameFences, SameFiles
<1>8. TypesOK'
  BY <1>2, <1>4, <1>6, InvParts, SameDirs, Zenon DEF TypesOK
<1>9. TakenOver(p, n) => fence[p][n] # inode[n]
  BY Members, InvParts DEF FencesOK, TakenOver
<1>10. StaleOK'
  <2>1. \A q \in Procs, m \in Networks : q # p \/ m # n => stale'[q][m] = stale[q][m]
    BY <1>6, Zenon
  <2>2. stale'[p][n] = 0 \/ (stale'[p][n] = 1 /\ fence[p][n] # inode[n])
    BY <1>6, <1>9
  <2>3. QED
    BY <1>2, <1>4, <2>1, <2>2, OneMoreStale, InvParts, Zenon
<1>11. LeasesOK'
  BY <1>2, <1>4, InvParts, FewerLeases, Zenon
<1>12. \A q \in Procs : LifeOK(q)'
  BY <1>2, <1>3, <1>4, <1>6, SteadyLife, Zenon
<1>13. QED
  BY <1>7, <1>8, <1>10, <1>11, <1>12 DEF OwnInv

-----------------------------------------------------------------------------
(* The host, and the theorems.                                             *)

LEMMA ReplaceFencesKeeps ==
  ASSUME OwnInv, ReplaceFences
  PROVE  OwnInv'
<1>1. /\ replaced < MaxReplacements /\ replaced' = replaced + 1
      /\ inode' = [f \in Fences |-> inode[f] + 1]
      /\ UNCHANGED <<mode, pc, locks, fence, files, lease, mine, lost, guard, stale, now, dir>>
  BY DEF ReplaceFences
<1>2. /\ replaced \in 0..MaxReplacements /\ inode = [f \in Fences |-> replaced + 1]
      /\ fence \in [Procs -> [Fences -> 0..replaced + 1]]
      /\ \A q \in Procs, f \in Fences : fence[q][f] # 0 => locks[<<f, fence[q][f]>>] = q
  BY InvParts DEF FencesOK
<1>3. /\ replaced' \in 0..MaxReplacements /\ 0..replaced + 1 \subseteq 0..replaced' + 1
      /\ inode' = [f \in Fences |-> replaced' + 1] /\ replaced' + 1 \notin 0..replaced + 1
  BY <1>1, <1>2, Numbers
<1>4. FencesOK'
  BY <1>1, <1>2, <1>3 DEF FencesOK
<1>5. StaleOK'
  <2>1. \A p \in Procs, n \in Networks : fence[p][n] # inode'[n]
    <3>1. TAKE p \in Procs, n \in Networks
    <3>2. n \in Fences
      BY Members
    <3>3. fence[p][n] \in 0..replaced + 1 /\ inode'[n] = replaced' + 1
      BY <1>2, <1>3, <3>2
    <3>4. QED
      BY <1>3, <3>3, Zenon
  <2>2. QED
    BY <1>1, <2>1, InvParts DEF StaleOK
<1>6. TypesOK'
  BY <1>1, SameDirs, InvParts, Zenon DEF TypesOK
<1>7. FilesOK' /\ LeasesOK'
  BY <1>1, InvParts, SameFiles, SameLeases
<1>8. \A p \in Procs : LifeOK(p)'
  BY <1>1, UntouchedLife, InvParts DEF Untouched
<1>9. QED
  BY <1>4, <1>5, <1>6, <1>7, <1>8 DEF OwnInv

LEMMA TickKeeps ==
  ASSUME OwnInv, Tick
  PROVE  OwnInv'
<1>1. now' = now + 1 /\ UNCHANGED <<mode, pc, inode, locks, fence, files, lease, mine, lost,
                                    guard, stale, replaced, dir>>
  BY DEF Tick, ownVars
<1>2. now \in Nat /\ now' \in Nat /\ mine \in [Procs -> [Networks -> Leases]]
  BY <1>1, InvParts DEF TypesOK
<1>3. TypesOK'
  BY <1>1, <1>2, SameDirs, InvParts, Zenon DEF TypesOK
<1>4. FencesOK' /\ FilesOK' /\ StaleOK'
  BY <1>1, InvParts, SameFences, SameFiles, SameStale
<1>5. LeasesOK'
  BY <1>1, <1>2, InvParts, LeasesAge, Zenon
<1>6. \A p \in Procs : LifeOK(p)'
  BY <1>1, UntouchedLife, InvParts, Zenon DEF Untouched
<1>7. QED
  BY <1>3, <1>4, <1>5, <1>6 DEF OwnInv

\* OwnInv is inductive over the steps of newDaemon, the shutdown, the crashes, the
\* lease workers, guardSigning, and whoever removes fence files.
THEOREM OwnInvariant == Spec => []OwnInv
<1>1. ASSUME OwnInv, [Next]_vars PROVE OwnInv'
  <2>1. ASSUME NEW p \in Procs, Start(p) PROVE OwnInv'
    BY <1>1, <2>1, StartKeeps
  <2>2. ASSUME NEW p \in Procs, Advance(p) PROVE OwnInv'
    BY <1>1, <2>2, AdvanceKeeps
  <2>3. ASSUME NEW p \in Procs, StartFails(p) PROVE OwnInv'
    BY <1>1, <2>3, GiveUpKeeps DEF StartFails
  <2>4. ASSUME NEW p \in Procs, Shutdown(p) PROVE OwnInv'
    BY <1>1, <2>4, GiveUpKeeps DEF Shutdown
  <2>5. ASSUME NEW p \in Procs, Unwind(p) PROVE OwnInv'
    BY <1>1, <2>5, UnwindKeeps
  <2>6. ASSUME NEW p \in Procs, Crash(p) PROVE OwnInv'
    BY <1>1, <2>6, CrashKeeps
  <2>7. ASSUME NEW p \in Procs, NEW n \in Networks,
               Renew(p, n) \/ GuardFence(p, n) \/ GuardLease(p, n) \/ Sign(p, n)
        PROVE  OwnInv'
    BY <1>1, <2>7, RenewKeeps, GuardFenceKeeps, GuardLeaseKeeps, SignKeeps
  <2>8. CASE UNCHANGED vars
    <3>1. UNCHANGED <<mode, pc, inode, locks, fence, files, lease, mine, lost, guard, stale,
                      now, replaced, dir>>
      BY <2>8 DEF vars, ownVars
    <3>2. TypesOK'
      BY <1>1, <3>1, SameDirs, InvParts, Zenon DEF TypesOK
    <3>3. FencesOK' /\ FilesOK' /\ StaleOK' /\ LeasesOK'
      BY <1>1, <3>1, InvParts, SameFences, SameFiles, SameStale, SameLeases
    <3>4. \A p \in Procs : LifeOK(p)'
      BY <1>1, <3>1, UntouchedLife, InvParts DEF Untouched
    <3>5. QED
      BY <3>2, <3>3, <3>4 DEF OwnInv
  <2>9. QED
    BY <1>1, <2>1, <2>2, <2>3, <2>4, <2>5, <2>6, <2>7, <2>8, ReplaceFencesKeeps, TickKeeps
    DEF Next
<1>2. QED
  BY <1>1, InitHolds, PTL DEF Spec

\* While nobody removes a fence file, one process at most has the stores, the ledger
\* or the right to sign: newDaemon takes the budget fence first, and the shutdown and
\* the clean-up of a failed newDaemon give it back last.  Two processes never run at
\* the same time even then, because the path of the admission records is the sponsor's.
THEOREM SponsorHasOneOwner == Spec => []OneOwner
<1>1. OwnInv => OneOwner
  BY OwnerIsOne
<1>2. QED
  BY <1>1, OwnInvariant, PTL

\* A process whose fence was removed and taken over by another signs one more action
\* at most, the one guardSigning had validated, however often the fences are removed.
THEOREM StaleOwnersSignOnce == Spec => []StaleOwnerSignsOnce
<1>1. OwnInv => StaleOwnerSignsOnce
  BY StaleOnce
<1>2. QED
  BY <1>1, OwnInvariant, PTL

\* Nobody signs for a state directory before the lease of a crashed owner expired:
\* BoltStore.Acquire refuses an unexpired lease, and a renewal is in the file before
\* the owner relies on it.
THEOREM TakeoversWait == Spec => []TakeoverWaits
<1>1. OwnInv => TakeoverWaits
  BY WaitsForLease
<1>2. QED
  BY <1>1, OwnInvariant, PTL

=============================================================================
