---------------------------- MODULE DaemonHostProofs ----------------------------
(***************************************************************************)
(* What a daemon's host keeps, for every number of daemons and entries.    *)
(*                                                                         *)
(* The process lock: two daemons never serve from one database, whatever   *)
(* the time to live and the heartbeat interval are, as long as heartbeats  *)
(* succeed and are not later than what the time to live leaves.  When one  *)
(* throws, TLC finds two daemons serving (the run daemon_lock_busy).       *)
(*                                                                         *)
(* The audit log: an entry whose request was answered leaves the log only  *)
(* for MaxEntries later ones, and the mirror's files never lose a line     *)
(* before an older one, wherever a rotation is interrupted.                *)
(*                                                                         *)
(* The event stores and the provider setup: what MCDaemonHost checks of    *)
(* them, under its specification, for all constants.                       *)
(***************************************************************************)
EXTENDS MCDaemonHost, Sequences, FiniteSetTheorems, WellFoundedInduction, TLAPS

-----------------------------------------------------------------------------
(***************************************************************************)
(* The process lock.                                                       *)
(***************************************************************************)
SlackFits == HeartbeatMs + Slack < TtlMs

LockInv == TypeOK /\ ServingOwns

(***************************************************************************)
(* The row and the daemons' timers keep their types, under any timing.     *)
(***************************************************************************)
THEOREM RowTypesCorrect == Spec => []TypeOK
<1>1. Init => TypeOK
  BY DEF Init, TypeOK
<1>2. TypeOK /\ [Next]_vars => TypeOK'
  <2> SUFFICES ASSUME TypeOK, [Next]_vars PROVE TypeOK'
    OBVIOUS
  <2> USE DurationsAssumption DEF TypeOK
  <2>1. ASSUME NEW d \in Daemons, StartDaemon(d) PROVE TypeOK'
    BY <2>1 DEF StartDaemon
  <2>2. ASSUME NEW d \in Daemons, Heartbeat(d) PROVE TypeOK'
    BY <2>2 DEF Heartbeat
  <2>3. ASSUME NEW d \in Daemons, HeartbeatThrows(d) PROVE TypeOK'
    BY <2>3 DEF HeartbeatThrows
  <2>4. ASSUME NEW d \in Daemons, CloseServer(d) PROVE TypeOK'
    BY <2>4 DEF CloseServer
  <2>5. ASSUME NEW d \in Daemons, Crash(d) PROVE TypeOK'
    BY <2>5 DEF Crash
  <2>6. CASE Tick
    BY <2>6 DEF Tick
  <2>7. CASE UNCHANGED vars
    BY <2>7 DEF vars
  <2> QED
    BY <2>1, <2>2, <2>3, <2>4, <2>5, <2>6, <2>7 DEF Next
<1> QED
  BY <1>1, <1>2, PTL DEF Spec

(***************************************************************************)
(* A row that a serving daemon owns has not expired: its expiry is a time  *)
(* to live after the last heartbeat, and the next one is at most Slack     *)
(* late.                                                                   *)
(***************************************************************************)
LEMMA ServingRowUnexpired ==
  ASSUME LockInv, SlackFits, timely, NEW d \in Daemons, serving[d]
  PROVE  owner = d /\ now < expires
<1>1. /\ owner = d
      /\ expires + HeartbeatMs = nextBeat[d] + TtlMs
      /\ now <= nextBeat[d] + Slack
  BY DEF LockInv, ServingOwns
<1>2. /\ expires \in Nat /\ nextBeat[d] \in Nat /\ now \in Nat
      /\ TtlMs \in Nat /\ HeartbeatMs \in Nat /\ Slack \in Nat
  BY DurationsAssumption, EnvironmentAssumption DEF LockInv, TypeOK
<1>3. HeartbeatMs + Slack < TtlMs
  BY DEF SlackFits
<1> QED
  BY <1>1, <1>2, <1>3

\* Whoever may take the row finds no daemon serving.
LEMMA AcquireFindsNobody ==
  ASSUME LockInv, SlackFits, timely, NEW d \in Daemons, CanAcquire(d)
  PROVE  \A e \in Daemons : ~serving[e]
<1> SUFFICES ASSUME NEW e \in Daemons, serving[e] PROVE FALSE
  OBVIOUS
<1>1. owner = e /\ now < expires
  BY ServingRowUnexpired
<1>2. owner # NoDaemon
  BY <1>1, DaemonsAssumption
<1>3. expires \in Nat /\ now \in Nat
  BY DEF LockInv, TypeOK
<1> QED
  BY <1>1, <1>2, <1>3 DEF CanAcquire

\* A step after which heartbeats are still timely leaves the row with whoever
\* serves, and the row's expiry with the timer.
LEMMA ServingOwnsInductive ==
  ASSUME SlackFits, LockInv, TypeOK', [Next]_vars
  PROVE  ServingOwns'
<1> USE DurationsAssumption, EnvironmentAssumption DEF LockInv, TypeOK
<1>1. ASSUME NEW d \in Daemons, StartDaemon(d) PROVE ServingOwns'
  <2> SUFFICES ASSUME timely' PROVE ServingOwns'
    BY DEF ServingOwns
  <2>1. \A e \in Daemons : ~serving[e]
    BY <1>1, AcquireFindsNobody DEF StartDaemon
  <2>2. \A e \in Daemons : serving'[e] => e = d
    BY <1>1, <2>1 DEF StartDaemon
  <2>3. /\ owner' = d /\ timer'[d]
        /\ expires' = now + TtlMs /\ nextBeat'[d] = now + HeartbeatMs
        /\ now' = now
    BY <1>1 DEF StartDaemon
  <2>4. /\ expires' + HeartbeatMs = nextBeat'[d] + TtlMs
        /\ now' <= nextBeat'[d] + Slack
    BY <2>3
  <2> QED
    BY <2>2, <2>3, <2>4 DEF ServingOwns
<1>2. ASSUME NEW d \in Daemons, Heartbeat(d) PROVE ServingOwns'
  <2> SUFFICES ASSUME timely' PROVE ServingOwns'
    BY DEF ServingOwns
  <2>1. timely /\ \A e \in Daemons : serving[e] => e = d
    BY <1>2 DEF Heartbeat, ServingOwns
  <2>2. /\ owner' = owner /\ timer' = timer /\ serving' = serving /\ now' = now
        /\ expires' = now + TtlMs /\ nextBeat'[d] = now + HeartbeatMs
    BY <1>2 DEF Heartbeat
  <2>3. /\ expires' + HeartbeatMs = nextBeat'[d] + TtlMs
        /\ now' <= nextBeat'[d] + Slack
    BY <2>2
  <2> QED
    BY <2>1, <2>2, <2>3 DEF ServingOwns
<1>3. ASSUME NEW d \in Daemons, HeartbeatThrows(d) PROVE ServingOwns'
  BY <1>3 DEF HeartbeatThrows, ServingOwns
<1>4. ASSUME NEW d \in Daemons, CloseServer(d) PROVE ServingOwns'
  <2> SUFFICES ASSUME timely' PROVE ServingOwns'
    BY DEF ServingOwns
  <2>1. \A e \in Daemons : ~serving'[e]
    BY <1>4 DEF CloseServer, ServingOwns
  <2> QED
    BY <2>1 DEF ServingOwns
<1>5. ASSUME NEW d \in Daemons, Crash(d) PROVE ServingOwns'
  <2> SUFFICES ASSUME timely' PROVE ServingOwns'
    BY DEF ServingOwns
  <2>1. \A e \in Daemons : ~serving'[e]
    BY <1>5 DEF Crash, ServingOwns
  <2> QED
    BY <2>1 DEF ServingOwns
<1>6. CASE Tick
  <2> SUFFICES ASSUME timely' PROVE ServingOwns'
    BY DEF ServingOwns
  <2>1. timely /\ \A e \in Daemons : timer[e] => now < nextBeat[e] + Slack
    BY <1>6 DEF Tick
  <2>2. /\ owner' = owner /\ expires' = expires /\ serving' = serving
        /\ timer' = timer /\ nextBeat' = nextBeat /\ now' = now + 1
    BY <1>6 DEF Tick
  <2>3. \A e \in Daemons : timer[e] => now + 1 <= nextBeat[e] + Slack
    BY <2>1
  <2> QED
    BY <2>1, <2>2, <2>3 DEF ServingOwns
<1>7. CASE UNCHANGED vars
  BY <1>7 DEF vars, ServingOwns
<1> QED
  BY <1>1, <1>2, <1>3, <1>4, <1>5, <1>6, <1>7 DEF Next

(***************************************************************************)
(* A serving daemon owns an unexpired row (startHeartbeat, heartbeat and   *)
(* acquire together), when heartbeats succeed and are timely.              *)
(***************************************************************************)
THEOREM ServingDaemonOwnsRow ==
  ASSUME SlackFits
  PROVE  Spec => []ServingOwns
<1>1. Init => LockInv
  BY DEF Init, LockInv, TypeOK, ServingOwns
<1>2. LockInv /\ [Next]_vars /\ TypeOK' => LockInv'
  BY ServingOwnsInductive DEF LockInv
<1>3. LockInv => ServingOwns
  BY DEF LockInv
<1> QED
  BY <1>1, <1>2, <1>3, RowTypesCorrect, PTL DEF Spec

(***************************************************************************)
(* At most one daemon serves from the database (STORAGE_RECOVERY.md), when *)
(* heartbeats succeed and are timely.                                      *)
(***************************************************************************)
THEOREM OneDaemonServes ==
  ASSUME SlackFits
  PROVE  Spec => []MutualExclusion
<1>1. ServingOwns => MutualExclusion
  BY DEF ServingOwns, MutualExclusion
<1> QED
  BY <1>1, ServingDaemonOwnsRow, PTL
(***************************************************************************)
(* Under any timing and any failure, the row passes to another daemon only *)
(* by acquire, and acquire finds it expired or gone: no invariant is       *)
(* needed, for the other statements all ask for their own owner id.        *)
(***************************************************************************)
THEOREM RowChangesHandsExpired == Spec => TakenOnlyWhenExpired
<1> DEFINE Taken == owner # NoDaemon /\ owner' \notin {owner, NoDaemon}
<1>1. [Next]_vars => [Taken => expires <= now]_vars
  <2> SUFFICES ASSUME Next, Taken PROVE expires <= now
    OBVIOUS
  <2>1. PICK d \in Daemons : StartDaemon(d)
    BY DEF Next, Heartbeat, HeartbeatThrows, CloseServer, Crash, Tick
  <2> QED
    BY <2>1 DEF StartDaemon, CanAcquire
<1> QED
  BY <1>1, PTL DEF Spec, TakenOnlyWhenExpired

-----------------------------------------------------------------------------
(***************************************************************************)
(* The mirror of the audit log.                                            *)
(***************************************************************************)
\* ExportKeepsLatest of any files f and any number of lines.
KeepsLatest(f, last) ==
  \A i \in 0..MaxFiles : \A n \in f[i] :
    /\ \A m \in n..last : \E j \in 0..i : m \in f[j]
    /\ \A j \in 0..MaxFiles : n \in f[j] => j = i

FilesOK(f, last) == /\ last \in Nat
                    /\ f \in [0..MaxFiles -> SUBSET (1..last)]
                    /\ KeepsLatest(f, last)

FilesInv == FilesOK(files, lines)

\* Where k operations of a rotation leave the file that was at index i.
NewIndex(i, k) == IF i + k < LastOperation THEN i ELSE i + 1

-----------------------------------------------------------------------------
\* Once the oldest file is removed, what the other files hold is what they held
\* at their old indexes, and nothing else is anywhere.
LEMMA RotatedMoves ==
  ASSUME AuditAssumptions, FilesInv, NEW k \in 1..LastOperation
  PROVE  /\ \A i \in 0..(MaxFiles - 1) :
              /\ NewIndex(i, k) \in 0..MaxFiles
              /\ Rotated(k)[NewIndex(i, k)] = files[i]
         /\ \A i \in 0..MaxFiles : \A n \in Rotated(k)[i] :
              \E h \in 0..(MaxFiles - 1) : i = NewIndex(h, k) /\ n \in files[h]
<1>1. MaxFiles \in Nat \ {0} /\ LastOperation = MaxFiles + 1 /\ k \in Nat \ {0}
  BY DEF AuditAssumptions, LastOperation
<1>2. ASSUME NEW i \in 0..(MaxFiles - 1)
      PROVE  NewIndex(i, k) \in 0..MaxFiles /\ Rotated(k)[NewIndex(i, k)] = files[i]
  <2>1. CASE i + k < LastOperation
    BY <1>1, <2>1 DEF NewIndex, Rotated
  <2>2. CASE ~(i + k < LastOperation)
    <3>1. NewIndex(i, k) = i + 1 /\ i + 1 \in 0..MaxFiles
      BY <1>1, <2>2 DEF NewIndex
    <3>2. i + 1 + k > LastOperation
      BY <1>1, <2>2
    <3> QED BY <1>1, <3>1, <3>2 DEF Rotated
  <2> QED BY <2>1, <2>2
<1>3. ASSUME NEW i \in 0..MaxFiles, NEW n \in Rotated(k)[i]
      PROVE  \E h \in 0..(MaxFiles - 1) : i = NewIndex(h, k) /\ n \in files[h]
  <2>1. CASE i + k < LastOperation
    <3>1. i \in 0..(MaxFiles - 1) /\ n \in files[i] /\ i = NewIndex(i, k)
      BY <1>1, <1>3, <2>1 DEF NewIndex, Rotated
    <3> QED BY <3>1
  <2>2. CASE ~(i + k < LastOperation)
    <3>1. i + k # LastOperation /\ n \in files[i - 1]
      BY <1>1, <1>3, <2>2 DEF Rotated
    <3>2. i - 1 \in 0..(MaxFiles - 1) /\ i = NewIndex(i - 1, k)
      BY <1>1, <2>2, <3>1 DEF NewIndex
    <3> QED BY <3>1, <3>2
  <2> QED BY <2>1, <2>2
<1> QED BY <1>2, <1>3

\* A rotation that stops after any of its operations keeps the latest lines.
LEMMA RotationKeepsLatest ==
  ASSUME AuditAssumptions, FilesInv, NEW k \in 0..LastOperation
  PROVE  FilesOK(Rotated(k), lines)
<1> USE DEF FilesInv, FilesOK
<1>1. MaxFiles \in Nat \ {0} /\ LastOperation = MaxFiles + 1
  BY DEF AuditAssumptions, LastOperation
<1>2. CASE k = 0
  <2>1. Rotated(0) = files
    BY <1>1 DEF Rotated
  <2> QED BY <1>2, <2>1
<1>3. CASE k # 0
  <2>1. k \in 1..LastOperation
    BY <1>1, <1>3
  <2>2. \A i \in 0..(MaxFiles - 1) :
          NewIndex(i, k) \in 0..MaxFiles /\ Rotated(k)[NewIndex(i, k)] = files[i]
    BY <2>1, RotatedMoves
  <2>3. \A i \in 0..MaxFiles : \A n \in Rotated(k)[i] :
          \E h \in 0..(MaxFiles - 1) : i = NewIndex(h, k) /\ n \in files[h]
    BY <2>1, RotatedMoves
  <2>4. Rotated(k) \in [0..MaxFiles -> SUBSET (1..lines)]
    <3>1. \A i \in 0..MaxFiles : Rotated(k)[i] \subseteq 1..lines
      BY <1>1, <2>3
    <3>2. Rotated(k) = [i \in 0..MaxFiles |-> Rotated(k)[i]]
      BY DEF Rotated
    <3> QED BY <3>1, <3>2
  <2>5. ASSUME NEW i \in 0..MaxFiles, NEW n \in Rotated(k)[i]
        PROVE  /\ \A m \in n..lines : \E j \in 0..i : m \in Rotated(k)[j]
               /\ \A j \in 0..MaxFiles : n \in Rotated(k)[j] => j = i
    <3>1. PICK h \in 0..(MaxFiles - 1) : i = NewIndex(h, k) /\ n \in files[h]
      BY <2>3, <2>5
    <3>2. h \in 0..MaxFiles
      BY <1>1
    <3>3. ASSUME NEW m \in n..lines
          PROVE  \E j \in 0..i : m \in Rotated(k)[j]
      <4>1. PICK g \in 0..h : m \in files[g]
        BY <3>1, <3>2 DEF KeepsLatest
      <4>2. g \in 0..(MaxFiles - 1) /\ NewIndex(g, k) \in 0..i
        BY <1>1, <2>1, <3>1 DEF NewIndex
      <4> QED BY <2>2, <4>1, <4>2
    <3>4. ASSUME NEW j \in 0..MaxFiles, n \in Rotated(k)[j]
          PROVE  j = i
      <4>1. PICK g \in 0..(MaxFiles - 1) : j = NewIndex(g, k) /\ n \in files[g]
        BY <2>3, <3>4
      <4>2. g = h
        BY <1>1, <3>1, <3>2, <4>1 DEF KeepsLatest
      <4> QED BY <3>1, <4>1, <4>2
    <3> QED BY <3>3, <3>4
  <2> QED BY <2>4, <2>5 DEF KeepsLatest
<1> QED BY <1>2, <1>3

\* A line appended to the current file is the latest one.
LEMMA AppendKeepsLatest ==
  ASSUME AuditAssumptions, NEW f, NEW last, FilesOK(f, last)
  PROVE  FilesOK([f EXCEPT ![0] = @ \cup {last + 1}], last + 1)
<1> DEFINE g == [f EXCEPT ![0] = @ \cup {last + 1}]
<1>1. MaxFiles \in Nat /\ 0 \in 0..MaxFiles /\ last \in Nat /\ last + 1 \in Nat
  BY DEF AuditAssumptions, FilesOK
<1>2. f \in [0..MaxFiles -> SUBSET (1..last)] /\ KeepsLatest(f, last)
  BY DEF FilesOK
<1>3. /\ g \in [0..MaxFiles -> SUBSET (1..(last + 1))]
      /\ g[0] = f[0] \cup {last + 1}
      /\ \A i \in 0..MaxFiles : i # 0 => g[i] = f[i]
  BY <1>1, <1>2
<1>4. \A i \in 0..MaxFiles : f[i] \subseteq g[i] /\ f[i] \subseteq 1..last
  BY <1>1, <1>2, <1>3
<1>5. ASSUME NEW i \in 0..MaxFiles, NEW n \in g[i]
      PROVE  /\ \A m \in n..(last + 1) : \E j \in 0..i : m \in g[j]
             /\ \A j \in 0..MaxFiles : n \in g[j] => j = i
  <2>1. n \in 1..(last + 1) /\ 0 \in 0..i
    BY <1>1, <1>3, <1>5
  <2>2. CASE n = last + 1
    <3>1. \A j \in 0..MaxFiles : n \in g[j] => j = 0
      BY <1>1, <1>3, <1>4, <2>2
    <3>2. \A m \in n..(last + 1) : m = last + 1
      BY <1>1, <2>2
    <3> QED BY <1>3, <1>5, <2>1, <3>1, <3>2
  <2>3. CASE n # last + 1
    <3>1. \A j \in 0..MaxFiles : n \in g[j] => n \in f[j]
      BY <1>3, <2>3
    <3>2. ASSUME NEW m \in n..(last + 1)
          PROVE  \E j \in 0..i : m \in g[j]
      <4>1. CASE m = last + 1
        BY <1>3, <2>1, <4>1
      <4>2. CASE m # last + 1
        <5>1. m \in n..last
          BY <1>1, <2>1, <4>2
        <5>2. PICK j \in 0..i : m \in f[j]
          BY <1>2, <1>5, <3>1, <5>1 DEF KeepsLatest
        <5> QED BY <1>1, <1>4, <5>2
      <4> QED BY <4>1, <4>2
    <3>3. \A j \in 0..MaxFiles : n \in g[j] => j = i
      BY <1>2, <1>5, <3>1 DEF KeepsLatest
    <3> QED BY <3>2, <3>3
  <2> QED BY <2>2, <2>3
<1> HIDE DEF g
<1>6. FilesOK(g, last + 1)
  BY <1>1, <1>3, <1>5 DEF FilesOK, KeepsLatest
<1> QED BY <1>6 DEF g

LEMMA ExportKeepsInv ==
  ASSUME AuditAssumptions, FilesInv, Exported \/ ExportStops
  PROVE  FilesInv'
<1>1. ASSUME NEW k \in {0, LastOperation}, lines' = lines + 1,
             files' = [Rotated(k) EXCEPT ![0] = @ \cup {lines + 1}]
      PROVE  FilesInv'
  <2>1. k \in 0..LastOperation
    BY DEF AuditAssumptions, LastOperation
  <2>2. FilesOK(Rotated(k), lines)
    BY <2>1, RotationKeepsLatest
  <2>3. FilesOK([Rotated(k) EXCEPT ![0] = @ \cup {lines + 1}], lines + 1)
    BY <2>2, AppendKeepsLatest
  <2> QED BY <1>1, <2>3 DEF FilesInv
<1>2. ASSUME NEW k \in 0..LastOperation, files' = Rotated(k), lines' = lines
      PROVE  FilesInv'
  <2>1. FilesOK(Rotated(k), lines)
    BY RotationKeepsLatest
  <2> QED BY <1>2, <2>1 DEF FilesInv
<1> QED BY <1>1, <1>2 DEF Exported, ExportStops

LEMMA InitFiles == ASSUME AuditAssumptions, AuditInit PROVE FilesInv
BY DEF AuditAssumptions, AuditInit, FilesInv, FilesOK, KeepsLatest

LEMMA NextFiles == ASSUME AuditAssumptions, FilesInv, [AuditNext]_auditVars PROVE FilesInv'
<1> SUFFICES ASSUME ~(Exported \/ ExportStops)
             PROVE  UNCHANGED <<files, lines>>
  BY ExportKeepsInv DEF FilesInv
<1>1. CASE \E e \in Entry : \/ RecordInMemory(e)
                            \/ RecordInFile(e)
                            \/ RecordInTable(e)
                            \/ CrashInRecord(e)
  BY <1>1 DEF RecordInMemory, RecordInFile, RecordInTable, CrashInRecord, Recorded
<1>2. CASE \E e \in Entry : \/ FileNotWritten(e)
                            \/ TableNotPruned(e)
                            \/ CrashBeforePrune(e)
  BY <1>2 DEF FileNotWritten, TableNotPruned, CrashBeforePrune, NotRecorded
<1>3. CASE CrashBetween \/ AuditTick \/ UNCHANGED auditVars
  BY <1>3 DEF CrashBetween, AuditTick, auditVars
<1> QED BY <1>1, <1>2, <1>3 DEF AuditNext

\* The files of the mirror always hold the latest lines without a gap, in order
\* and each once: whatever MaxFiles is, wherever a rotation was interrupted.
THEOREM MirrorKeepsLatest ==
  ASSUME AuditAssumptions
  PROVE  AuditSpec => []ExportKeepsLatest
<1>1. AuditInit => FilesInv
  BY InitFiles
<1>2. FilesInv /\ [AuditNext]_auditVars => FilesInv'
  BY NextFiles
<1>3. FilesInv => ExportKeepsLatest
  BY DEF FilesInv, FilesOK, KeepsLatest, ExportKeepsLatest
<1> QED BY <1>1, <1>2, <1>3, PTL DEF AuditSpec

-----------------------------------------------------------------------------
(***************************************************************************)
(* The audit log itself.  Entry x is in S, or has made way for later ones. *)
(***************************************************************************)
Survives(x, S) == x \in S \/ Cardinality(LaterThan(x, S)) >= MaxEntries

LogHolds(S) == /\ IsFiniteSet(S) /\ S \subseteq Entry
               /\ \A x \in recorded : Survives(x, S)

\* The JSON log keeps its promise twice, in memory and in its file: the next
\* write is made from the one, the next start from the other.
SurvivalInv == /\ log \in {"memory", "json", "sqlite"}
               /\ recorded \subseteq Entry
               /\ log \in {"memory", "json"} => LogHolds(entries)
               /\ log \in {"json", "sqlite"} => LogHolds(disk)

LEMMA LaterIsOrder ==
  ASSUME AuditAssumptions, NEW x \in Entry, NEW y \in Entry, NEW z \in Entry
  PROVE  ~Later(x, x) /\ (Later(x, y) /\ Later(y, z) => Later(x, z))
<1>0. LastTime \in Nat /\ AuditIds \in SUBSET Nat
  BY DEF AuditAssumptions
<1>1. x.at \in 0..LastTime /\ y.at \in 0..LastTime /\ z.at \in 0..LastTime
  BY DEF Entry
<1>2. x.id \in AuditIds /\ y.id \in AuditIds /\ z.id \in AuditIds
  BY DEF Entry
<1>3. x.at \in Nat /\ y.at \in Nat /\ z.at \in Nat
  BY <1>0, <1>1
<1>4. x.id \in Nat /\ y.id \in Nat /\ z.id \in Nat
  BY <1>0, <1>2
<1> QED
  BY <1>3, <1>4 DEF Later

LEMMA LaterCount ==
  ASSUME NEW x, NEW S, IsFiniteSet(S), NEW T \in SUBSET S
  PROVE  /\ IsFiniteSet(LaterThan(x, S)) /\ IsFiniteSet(LaterThan(x, T))
         /\ Cardinality(LaterThan(x, S)) \in Nat /\ Cardinality(LaterThan(x, T)) \in Nat
         /\ Cardinality(LaterThan(x, T)) <= Cardinality(LaterThan(x, S))
<1>1. LaterThan(x, S) \in SUBSET S /\ LaterThan(x, T) \in SUBSET LaterThan(x, S)
  BY DEF LaterThan
<1> QED
  BY <1>1, FS_Subset, FS_CardinalityType

\* Of finitely many entries some are not earlier than any other.
LEMMA LatestExists ==
  ASSUME AuditAssumptions, NEW S, IsFiniteSet(S), S \subseteq Entry,
         NEW U \in SUBSET S, U # {}
  PROVE  \E y \in U : \A z \in U : ~Later(z, y)
<1> DEFINE R == StrictSubsetOrdering(S)
           F == {LaterThan(y, S) : y \in U}
<1>1. F \subseteq FiniteSubsetsOf(S) /\ F # {}
  BY LaterCount DEF FiniteSubsetsOf, LaterThan
<1>2. IsWellFoundedOn(R, FiniteSubsetsOf(S))
  BY FS_StrictSubsetOrderingWellFounded
<1> HIDE DEF R, F
<1>3. PICK X \in F : \A Y \in F : <<Y, X>> \notin R
  BY <1>1, <1>2, WFMin
<1> USE DEF R, F
<1>4. PICK y \in U : X = LaterThan(y, S)
  BY <1>3
<1>5. ASSUME NEW z \in U, Later(z, y) PROVE FALSE
  <2>1. LaterThan(z, S) \subseteq LaterThan(y, S)
    BY <1>5, LaterIsOrder DEF LaterThan
  <2>2. z \in LaterThan(y, S) /\ z \notin LaterThan(z, S)
    BY <1>5, LaterIsOrder DEF LaterThan
  <2>3. LaterThan(z, S) \in SUBSET S /\ LaterThan(y, S) \in SUBSET S
    BY DEF LaterThan
  <2>4. <<LaterThan(z, S), LaterThan(y, S)>> \in R
    BY <2>1, <2>2, <2>3 DEF StrictSubsetOrdering
  <2> QED
    BY <1>3, <1>4, <2>4
<1> QED
  BY <1>5

\* Pruning keeps the latest MaxEntries entries.
LEMMA PrunedKeepsLatest ==
  ASSUME AuditAssumptions, NEW S, IsFiniteSet(S), S \subseteq Entry, NEW x \in Entry,
         Cardinality(LaterThan(x, S)) >= MaxEntries
  PROVE  Cardinality(LaterThan(x, Pruned(S))) >= MaxEntries
<1> DEFINE U == LaterThan(x, S) \ Pruned(S)
<1>0. MaxEntries \in Nat /\ Pruned(S) \in SUBSET S /\ U \in SUBSET S
  BY DEF AuditAssumptions, Pruned, LaterThan
<1>1. CASE U = {}
  <2>1. LaterThan(x, Pruned(S)) = LaterThan(x, S)
    BY <1>0, <1>1 DEF LaterThan
  <2> QED
    BY <2>1
<1>2. CASE U # {}
  <2>1. PICK y \in U : \A z \in U : ~Later(z, y)
    BY <1>0, <1>2, LatestExists
  <2>2. Cardinality(LaterThan(y, S)) >= MaxEntries
    <3>1. y \in S /\ y \notin Pruned(S) /\ Cardinality(LaterThan(y, S)) \in Nat
      BY <1>0, <2>1, LaterCount
    <3> QED
      BY <1>0, <3>1 DEF Pruned
  <2>3. LaterThan(y, S) \subseteq LaterThan(x, Pruned(S))
    <3> SUFFICES ASSUME NEW z \in S, Later(z, y) PROVE z \in Pruned(S) /\ Later(z, x)
      BY DEF LaterThan
    <3>1. Later(z, x)
      BY <1>0, <2>1, LaterIsOrder DEF LaterThan
    <3> QED
      BY <2>1, <3>1 DEF LaterThan
  <2>4. /\ IsFiniteSet(LaterThan(x, Pruned(S)))
        /\ Cardinality(LaterThan(x, Pruned(S))) \in Nat
        /\ Cardinality(LaterThan(y, S)) \in Nat
    BY <1>0, LaterCount
  <2>5. Cardinality(LaterThan(y, S)) <= Cardinality(LaterThan(x, Pruned(S)))
    BY <2>3, <2>4, FS_Subset
  <2> QED
    BY <1>0, <2>2, <2>4, <2>5
<1> QED
  BY <1>1, <1>2

LEMMA SurvivesPruning ==
  ASSUME AuditAssumptions, NEW S, IsFiniteSet(S), S \subseteq Entry, NEW x \in Entry,
         Survives(x, S)
  PROVE  Survives(x, Pruned(S))
<1>1. CASE Cardinality(LaterThan(x, S)) >= MaxEntries
  BY <1>1, PrunedKeepsLatest DEF Survives
<1>2. CASE ~(Cardinality(LaterThan(x, S)) >= MaxEntries)
  <2>1. x \in S /\ Cardinality(LaterThan(x, S)) \in Nat /\ MaxEntries \in Nat
    BY <1>2, LaterCount DEF Survives, AuditAssumptions
  <2> QED
    BY <1>2, <2>1 DEF Survives, Pruned
<1> QED
  BY <1>1, <1>2

\* What one more entry and a pruning make of a log that holds what was recorded.
LEMMA AddedHolds ==
  ASSUME AuditAssumptions, SurvivalInv, NEW S, LogHolds(S), NEW e \in Entry
  PROVE  /\ IsFiniteSet(S \cup {e}) /\ S \cup {e} \subseteq Entry
         /\ IsFiniteSet(Pruned(S \cup {e})) /\ Pruned(S \cup {e}) \subseteq Entry
         /\ \A x \in recorded \cup {e} :
              Survives(x, S \cup {e}) /\ Survives(x, Pruned(S \cup {e}))
<1> DEFINE T == S \cup {e}
<1>1. IsFiniteSet(T) /\ T \subseteq Entry /\ S \in SUBSET T /\ e \in T
  BY FS_AddElement DEF LogHolds
<1>2. Pruned(T) \in SUBSET T /\ MaxEntries \in Nat
  BY DEF Pruned, AuditAssumptions
<1>3. IsFiniteSet(Pruned(T)) /\ Pruned(T) \subseteq Entry
  BY <1>1, <1>2, FS_Subset
<1>4. ASSUME NEW x \in recorded \cup {e} PROVE x \in Entry /\ Survives(x, T)
  <2> HIDE DEF T
  <2>1. CASE x = e
    BY <1>1, <2>1 DEF Survives
  <2>2. CASE x \in recorded
    <3>1. x \in Entry /\ Survives(x, S)
      BY <2>2 DEF SurvivalInv, LogHolds
    <3>2. /\ Cardinality(LaterThan(x, S)) \in Nat /\ Cardinality(LaterThan(x, T)) \in Nat
          /\ Cardinality(LaterThan(x, S)) <= Cardinality(LaterThan(x, T))
      BY <1>1, LaterCount
    <3> QED
      BY <1>1, <1>2, <3>1, <3>2 DEF Survives
  <2> QED
    BY <1>4, <2>1, <2>2
<1> HIDE DEF T
<1>5. \A x \in recorded \cup {e} : Survives(x, T) /\ Survives(x, Pruned(T))
  BY <1>1, <1>4, SurvivesPruning
<1> QED
  BY <1>1, <1>3, <1>5 DEF T

LEMMA InitSurvival == ASSUME AuditAssumptions, AuditInit PROVE SurvivalInv
<1>1. recorded = {} /\ entries = {} /\ disk = {} /\ log \in {"memory", "json", "sqlite"}
  BY DEF AuditInit, AuditAssumptions
<1> QED
  BY <1>1, FS_EmptySet DEF SurvivalInv, LogHolds

LEMMA NextSurvival ==
  ASSUME AuditAssumptions, SurvivalInv, [AuditNext]_auditVars
  PROVE  SurvivalInv'
<1>0. /\ log \in {"memory", "json", "sqlite"} /\ recorded \subseteq Entry
      /\ log \in {"memory", "json"} => LogHolds(entries)
      /\ log \in {"json", "sqlite"} => LogHolds(disk)
  BY DEF SurvivalInv
<1> DEFINE Holds(S, R) == /\ IsFiniteSet(S) /\ S \subseteq Entry
                          /\ \A x \in R : Survives(x, S)
<1>a. ASSUME NEW S, LogHolds(S), NEW e \in Entry
      PROVE  /\ Holds(S \cup {e}, recorded) /\ Holds(S \cup {e}, recorded \cup {e})
             /\ Holds(Pruned(S \cup {e}), recorded)
             /\ Holds(Pruned(S \cup {e}), recorded \cup {e})
  BY <1>a, AddedHolds
<1>b. ASSUME log' = log, recorded' \subseteq Entry,
             log \in {"memory", "json"} => Holds(entries', recorded'),
             log \in {"json", "sqlite"} => Holds(disk', recorded')
      PROVE  SurvivalInv'
  BY <1>0, <1>b DEF SurvivalInv, LogHolds, Survives
<1>c. \A S : LogHolds(S) <=> Holds(S, recorded)
  BY DEF LogHolds
<1>d. Holds({}, {})
  BY FS_EmptySet
<1> HIDE DEF Holds
<1>1. ASSUME NEW e \in Entry, RecordInMemory(e) PROVE SurvivalInv'
  BY <1>0, <1>1, <1>a, <1>b DEF RecordInMemory, Recorded
<1>2. ASSUME NEW e \in Entry, RecordInFile(e) PROVE SurvivalInv'
  BY <1>0, <1>2, <1>a, <1>b DEF RecordInFile, Recorded
<1>3. ASSUME NEW e \in Entry, FileNotWritten(e) PROVE SurvivalInv'
  BY <1>0, <1>3, <1>a, <1>b, <1>c DEF FileNotWritten, NotRecorded
<1>4. ASSUME NEW e \in Entry, RecordInTable(e) PROVE SurvivalInv'
  BY <1>0, <1>4, <1>a, <1>b DEF RecordInTable, Recorded
<1>5. ASSUME NEW e \in Entry, TableNotPruned(e) PROVE SurvivalInv'
  BY <1>0, <1>5, <1>a, <1>b DEF TableNotPruned, NotRecorded
<1>6. ASSUME NEW e \in Entry, CrashInRecord(e) PROVE SurvivalInv'
  <2>1. /\ log = "json" => disk' = Pruned(entries \cup {e})
        /\ log = "sqlite" => disk' = Pruned(disk \cup {e})
        /\ entries' = IF log = "json" THEN disk' ELSE {}
        /\ recorded' = IF log = "memory" THEN {} ELSE recorded
        /\ log' = log
    BY <1>6 DEF CrashInRecord, Restarted
  <2> QED
    BY <1>0, <2>1, <1>a, <1>b, <1>d
<1>7. ASSUME NEW e \in Entry, CrashBeforePrune(e) PROVE SurvivalInv'
  <2>1. /\ log = "sqlite" /\ disk' = disk \cup {e} /\ recorded' = recorded /\ log' = log
    BY <1>7 DEF CrashBeforePrune, Restarted
  <2> QED
    BY <1>0, <2>1, <1>a, <1>b
<1>8. ASSUME CrashBetween PROVE SurvivalInv'
  <2>1. /\ disk' = disk /\ log' = log
        /\ entries' = IF log = "json" THEN disk' ELSE {}
        /\ recorded' = IF log = "memory" THEN {} ELSE recorded
    BY <1>8 DEF CrashBetween, Restarted
  <2> QED
    BY <1>0, <2>1, <1>b, <1>c, <1>d
<1>9. ASSUME AuditTick \/ UNCHANGED auditVars PROVE SurvivalInv'
  BY <1>0, <1>9, <1>b, <1>c DEF AuditTick, auditVars
<1> QED
  BY <1>1, <1>2, <1>3, <1>4, <1>5, <1>6, <1>7, <1>8, <1>9 DEF AuditNext

\* An entry whose request was answered is in the log until MaxEntries later ones
\* are, for every kind of log and every MaxEntries, over failed writes, failed
\* prunings and restarts (pruneOperationAuditEntries on every path).
THEOREM AnsweredStaysAudited ==
  ASSUME AuditAssumptions
  PROVE  AuditSpec => []RecordedSurvives
<1>1. AuditInit => SurvivalInv
  BY InitSurvival
<1>2. SurvivalInv /\ [AuditNext]_auditVars => SurvivalInv'
  BY NextSurvival
<1>3. SurvivalInv => RecordedSurvives
  BY DEF SurvivalInv, LogHolds, Survives, RecordedSurvives
<1> QED BY <1>1, <1>2, <1>3, PTL DEF AuditSpec

-----------------------------------------------------------------------------
(***************************************************************************)
(* The event stores, as parts of the host: what JsonFileEventStoreProofs   *)
(* and SqliteEventStoreProofs show of one store holds of whichever store a *)
(* behaviour of the host follows.  The definitions of the stores are the   *)
(* same here and in their proofs.                                          *)
(***************************************************************************)
JsonProofs == INSTANCE JsonFileEventStoreProofs

SqliteProofs == INSTANCE SqliteEventStoreProofs WITH Sessions <- {s1}

LEMMA JsonStoreIsTheSame ==
  /\ JSON!Init <=> JsonProofs!Init
  /\ JSON!Next <=> JsonProofs!Next
  /\ JSON!AckedDurable <=> JsonProofs!AckedDurable
  /\ JSON!FileLoads <=> JsonProofs!FileLoads
  /\ JSON!Log = JsonProofs!Log
<1> USE DEF
    JSON!Init, JsonProofs!Init, JSON!Empty, JsonProofs!Empty, JSON!Inputs,
    JsonProofs!Inputs, JSON!CanStore, JsonProofs!CanStore, JSON!IsNew,
    JsonProofs!IsNew, JSON!KeyHolders, JsonProofs!KeyHolders, JSON!UsedIds,
    JsonProofs!UsedIds, JSON!StoreEvent, JsonProofs!StoreEvent, JSON!Stamped,
    JsonProofs!Stamped, JSON!NextSequence, JsonProofs!NextSequence, JSON!Last,
    JsonProofs!Last, JSON!IsReplay, JsonProofs!IsReplay, JSON!Replays,
    JsonProofs!Replays, JSON!IsCompatible, JsonProofs!IsCompatible,
    JSON!Comparable, JsonProofs!Comparable, JSON!GeneratedFields,
    JsonProofs!GeneratedFields, JSON!TypesWithIgnoredPayloadId,
    JsonProofs!TypesWithIgnoredPayloadId, JSON!ReturnedEvent,
    JsonProofs!ReturnedEvent, JSON!AppendStored, JsonProofs!AppendStored,
    JSON!AppendPersistFails, JsonProofs!AppendPersistFails, JSON!AppendReplayed,
    JsonProofs!AppendReplayed, JSON!Crash, JsonProofs!Crash, JSON!Restart,
    JsonProofs!Restart, JSON!Next, JsonProofs!Next, JSON!Validates,
    JsonProofs!Validates, JSON!UniqueIds, JsonProofs!UniqueIds,
    JSON!ContiguousFromZero, JsonProofs!ContiguousFromZero, JSON!OneEventPerKey,
    JsonProofs!OneEventPerKey, JSON!HashChained, JsonProofs!HashChained,
    JSON!EventsIn, JsonProofs!EventsIn, JSON!AckedDurable, JsonProofs!AckedDurable,
    JSON!FileLoads, JsonProofs!FileLoads, JSON!Unstamped, JsonProofs!Unstamped,
    JSON!Log, JsonProofs!Log
<1>1. JSON!Init <=> JsonProofs!Init
  BY Zenon
<1>2. JSON!Next <=> JsonProofs!Next
  BY Zenon
<1>3. JSON!AckedDurable <=> JsonProofs!AckedDurable
  BY Zenon
<1>4. JSON!FileLoads <=> JsonProofs!FileLoads
  BY Zenon
<1>5. JSON!Log = JsonProofs!Log
  BY Zenon
<1> QED BY <1>1, <1>2, <1>3, <1>4, <1>5

LEMMA SqliteStoreIsTheSame ==
  /\ SQLite!Init <=> SqliteProofs!Init
  /\ SQLite!Next <=> SqliteProofs!Next
  /\ SQLite!AckedDurable <=> SqliteProofs!AckedDurable
  /\ SQLite!ChainIntact <=> SqliteProofs!ChainIntact
  /\ SQLite!InsertNeverCollides <=> SqliteProofs!InsertNeverCollides
  /\ SQLite!Log = SqliteProofs!Log
<1> USE DEF
    SQLite!Init, SqliteProofs!Init, SQLite!Cardinality, SqliteProofs!Cardinality,
    SQLite!SessionRows, SqliteProofs!SessionRows, SQLite!ListEvents,
    SqliteProofs!ListEvents, SQLite!NextSequence, SqliteProofs!NextSequence,
    SQLite!LatestEvent, SqliteProofs!LatestEvent, SQLite!Stamped,
    SqliteProofs!Stamped, SQLite!Collides, SqliteProofs!Collides, SQLite!IsNew,
    SqliteProofs!IsNew, SQLite!KeyHolders, SqliteProofs!KeyHolders,
    SQLite!IsReplay, SqliteProofs!IsReplay, SQLite!Replays, SqliteProofs!Replays,
    SQLite!IsCompatible, SqliteProofs!IsCompatible, SQLite!Comparable,
    SqliteProofs!Comparable, SQLite!GeneratedFields, SqliteProofs!GeneratedFields,
    SQLite!TypesWithIgnoredPayloadId, SqliteProofs!TypesWithIgnoredPayloadId,
    SQLite!ReturnedEvent, SqliteProofs!ReturnedEvent, SQLite!Inputs,
    SqliteProofs!Inputs, SQLite!BeginImmediate, SqliteProofs!BeginImmediate,
    SQLite!EndCall, SqliteProofs!EndCall, SQLite!FindKey, SqliteProofs!FindKey,
    SQLite!RejectId, SqliteProofs!RejectId, SQLite!Stamp, SqliteProofs!Stamp,
    SQLite!InsertAndCommit, SqliteProofs!InsertAndCommit, SQLite!ReturnEvent,
    SqliteProofs!ReturnEvent, SQLite!Crash, SqliteProofs!Crash, SQLite!Next,
    SqliteProofs!Next, SQLite!ChainIntact, SqliteProofs!ChainIntact,
    SQLite!InsertNeverCollides, SqliteProofs!InsertNeverCollides,
    SQLite!AckedDurable, SqliteProofs!AckedDurable, SQLite!Unstamped,
    SqliteProofs!Unstamped, SQLite!Log, SqliteProofs!Log
<1>1. SQLite!Init <=> SqliteProofs!Init
  BY Zenon
<1>2. SQLite!Next <=> SqliteProofs!Next
  BY Zenon
<1>3. SQLite!AckedDurable <=> SqliteProofs!AckedDurable
  BY Zenon
<1>4. SQLite!ChainIntact <=> SqliteProofs!ChainIntact
  BY Zenon
<1>5. SQLite!InsertNeverCollides <=> SqliteProofs!InsertNeverCollides
  BY Zenon
<1>6. SQLite!Log = SqliteProofs!Log
  BY Zenon
<1> QED BY <1>1, <1>2, <1>3, <1>4, <1>5, <1>6

LEMMA JsonLedgerIsTheSame ==
  /\ JsonProofs!Ledger!Init => JSON!Ledger!Init
  /\ [JsonProofs!Ledger!AppendEvents]_(JsonProofs!Log) => [JSON!Ledger!AppendEvents]_(JSON!Log)
<1>1. JSON!Log = JsonProofs!Log
  BY JsonStoreIsTheSame
<1>2. (JSON!Log = JsonProofs!Log)'
  BY <1>1, PTL
<1> USE DEF
    JSON!Ledger!Init, JsonProofs!Ledger!Init, JSON!Ledger!EmptyLog,
    JsonProofs!Ledger!EmptyLog, JSON!Ledger!AppendEvents,
    JsonProofs!Ledger!AppendEvents, JSON!Ledger!Inputs, JsonProofs!Ledger!Inputs,
    JSON!Ledger!IsPrefix, JsonProofs!Ledger!IsPrefix, JSON!Ledger!Admissible,
    JsonProofs!Ledger!Admissible, JSON!Ledger!UniqueIds,
    JsonProofs!Ledger!UniqueIds, JSON!Ledger!OneEventPerKey,
    JsonProofs!Ledger!OneEventPerKey
<1>3. JsonProofs!Ledger!Init => JSON!Ledger!Init
  BY <1>1, Zenon
<1>4. ASSUME JsonProofs!Ledger!AppendEvents PROVE JSON!Ledger!AppendEvents
  <2>1. (JSON!Log)' \in [Sessions -> Seq(JSON!Ledger!Inputs)]
    BY <1>2, <1>4, Zenon
  <2>2. \A s \in Sessions : JSON!Ledger!IsPrefix(JSON!Log[s], (JSON!Log)'[s])
    BY <1>1, <1>2, <1>4, Zenon
  <2>3. JSON!Ledger!Admissible((JSON!Log)')
    <3>1. \A l : JsonProofs!Ledger!Admissible(l) => JSON!Ledger!Admissible(l)
      BY Zenon
    <3>2. JsonProofs!Ledger!Admissible((JsonProofs!Log)')
      BY <1>4
    <3> HIDE DEF JSON!Ledger!Admissible, JsonProofs!Ledger!Admissible
    <3> QED BY <1>2, <3>1, <3>2, Zenon
  <2> QED BY <2>1, <2>2, <2>3, Zenon
<1> QED BY <1>1, <1>2, <1>3, <1>4

LEMMA SqliteLedgerIsTheSame ==
  /\ SqliteProofs!Ledger!Init => SQLite!Ledger!Init
  /\ [SqliteProofs!Ledger!AppendEvents]_(SqliteProofs!Log) => [SQLite!Ledger!AppendEvents]_(SQLite!Log)
<1>1. SQLite!Log = SqliteProofs!Log
  BY SqliteStoreIsTheSame
<1>2. (SQLite!Log = SqliteProofs!Log)'
  BY <1>1, PTL
<1> USE DEF
    SQLite!Ledger!Init, SqliteProofs!Ledger!Init, SQLite!Ledger!EmptyLog,
    SqliteProofs!Ledger!EmptyLog, SQLite!Ledger!AppendEvents,
    SqliteProofs!Ledger!AppendEvents, SQLite!Ledger!Inputs,
    SqliteProofs!Ledger!Inputs, SQLite!Ledger!IsPrefix,
    SqliteProofs!Ledger!IsPrefix, SQLite!Ledger!Admissible,
    SqliteProofs!Ledger!Admissible, SQLite!Ledger!UniqueIds,
    SqliteProofs!Ledger!UniqueIds, SQLite!Ledger!OneEventPerKey,
    SqliteProofs!Ledger!OneEventPerKey
<1>3. SqliteProofs!Ledger!Init => SQLite!Ledger!Init
  BY <1>1, Zenon
<1>4. ASSUME SqliteProofs!Ledger!AppendEvents PROVE SQLite!Ledger!AppendEvents
  <2>1. (SQLite!Log)' \in [{s1} -> Seq(SQLite!Ledger!Inputs)]
    BY <1>2, <1>4, Zenon
  <2>2. \A s \in {s1} : SQLite!Ledger!IsPrefix(SQLite!Log[s], (SQLite!Log)'[s])
    BY <1>1, <1>2, <1>4, Zenon
  <2>3. SQLite!Ledger!Admissible((SQLite!Log)')
    <3>1. \A l : SqliteProofs!Ledger!Admissible(l) => SQLite!Ledger!Admissible(l)
      BY Zenon
    <3>2. SqliteProofs!Ledger!Admissible((SqliteProofs!Log)')
      BY <1>4
    <3> HIDE DEF SQLite!Ledger!Admissible, SqliteProofs!Ledger!Admissible
    <3> QED BY <1>2, <3>1, <3>2, Zenon
  <2> QED BY <2>1, <2>2, <2>3, Zenon
<1> QED BY <1>1, <1>2, <1>3, <1>4

SqliteKeepsChain == SQLite!ChainIntact /\ SQLite!InsertNeverCollides

\* The store that a behaviour follows keeps its invariant; the other one has
\* nothing to keep, as no step of the host touches it.
StoresInv == /\ part # "sqlite" => JsonProofs!Inv
             /\ part = "sqlite" => SqliteProofs!Inv
             /\ SqliteKeepsChain

LEMMA SqliteInvKeepsChain == SqliteProofs!Inv => SqliteKeepsChain
BY SqliteProofs!InvKeepsChain, SqliteStoreIsTheSame DEF SqliteKeepsChain

LEMMA InitStores == HostInit => StoresInv
<1> SUFFICES ASSUME HostInit PROVE StoresInv
  OBVIOUS
<1>1. JsonProofs!Inv
  BY JsonProofs!InitInv, JsonStoreIsTheSame DEF HostInit
<1>2. SqliteProofs!Inv
  BY SqliteProofs!InitInv, SqliteStoreIsTheSame DEF HostInit
<1>3. SqliteKeepsChain
  BY <1>2, SqliteInvKeepsChain
<1> QED BY <1>1, <1>2, <1>3 DEF StoresInv

hostVars == <<part, vars, storeVars, setupVars, auditVars>>

\* A step of the host is one of the store it follows, or leaves the store alone.
LEMMA HostStepOfStores ==
  ASSUME [HostNext]_hostVars
  PROVE  /\ part' = part
         /\ part # "sqlite" => [JsonProofs!Next]_(JsonProofs!vars)
         /\ part = "sqlite" => [SqliteProofs!Next]_(SqliteProofs!vars)
         /\ part # "sqlite" => UNCHANGED sqliteVars
         /\ part = "sqlite" => UNCHANGED jsonVars
<1> USE DEF storeVars, jsonVars, sqliteVars, JsonProofs!vars, SqliteProofs!vars
<1>1. CASE JsonStep /\ UNCHANGED part
  BY <1>1, JsonStoreIsTheSame DEF JsonStep
<1>2. CASE SqliteStep /\ UNCHANGED part
  BY <1>2, SqliteStoreIsTheSame DEF SqliteStep
<1>3. CASE /\ LockStep \/ SetupStep \/ AuditStep \/ Halted \/ UNCHANGED hostVars
           /\ UNCHANGED part
  BY <1>3 DEF LockStep, SetupStep, AuditStep, Halted, hostVars
<1> QED BY <1>1, <1>2, <1>3 DEF HostNext, hostVars

\* The queries of the database read its rows and nothing else.
LEMMA QueriesFollowRows ==
  ASSUME rows' = rows
  PROVE  \A s : (SQLite!ListEvents(s))' = SQLite!ListEvents(s)
<1> SUFFICES ASSUME NEW s PROVE (SQLite!ListEvents(s))' = SQLite!ListEvents(s)
  OBVIOUS
<1>1. (SQLite!SessionRows(s))' = SQLite!SessionRows(s)
  BY DEF SQLite!SessionRows
<1> QED BY <1>1 DEF SQLite!ListEvents

LEMMA NextStores ==
  ASSUME StoresInv, [HostNext]_hostVars
  PROVE  StoresInv'
<1>1. CASE part # "sqlite"
  <2>1. JsonProofs!Inv'
    BY <1>1, HostStepOfStores, JsonProofs!NextInv DEF StoresInv
  <2>2. SqliteKeepsChain'
    <3>1. UNCHANGED sqliteVars
      BY <1>1, HostStepOfStores
    <3>2. SqliteKeepsChain
      BY DEF StoresInv
    <3> QED BY <3>1, <3>2, QueriesFollowRows
         DEF sqliteVars, SqliteKeepsChain, SQLite!ChainIntact, SQLite!InsertNeverCollides,
             SQLite!Collides
  <2> QED BY <1>1, <2>1, <2>2, HostStepOfStores DEF StoresInv
<1>2. CASE part = "sqlite"
  <2>1. SqliteProofs!Inv'
    BY <1>2, HostStepOfStores, SqliteProofs!NextInv, PartsAssumptions
       DEF StoresInv, SQLite!Assumptions, SqliteProofs!Assumptions
  <2>2. SqliteKeepsChain'
    BY <2>1, SqliteInvKeepsChain, PTL
  <2> QED BY <1>2, <2>1, <2>2, HostStepOfStores DEF StoresInv
<1> QED BY <1>1, <1>2

LEMMA StoresInvAlways == HostSpec => []StoresInv
<1>1. StoresInv /\ [HostNext]_hostVars => StoresInv'
  BY NextStores
<1> QED BY <1>1, InitStores, PTL DEF HostSpec, hostVars

(***************************************************************************)
(* Whichever store the daemon opens: an event that a call returned as      *)
(* appended survives every crash and every failed write.                   *)
(***************************************************************************)
THEOREM StoredEventsAreDurable == HostSpec => []AcknowledgedIsDurable
<1>1. StoresInv => AcknowledgedIsDurable
  BY JsonStoreIsTheSame, SqliteStoreIsTheSame, PartsAssumptions
     DEF StoresInv, AcknowledgedIsDurable, JsonProofs!Inv, JsonProofs!Valid,
         JsonProofs!AckedDurable, JsonProofs!FileLoads, SqliteProofs!Inv,
         SqliteProofs!AckedDurable
<1> QED BY <1>1, StoresInvAlways, PTL

(***************************************************************************)
(* Every reader of the database sees gapless sequences and an intact hash  *)
(* chain, and no admitted append breaks a constraint of the table.         *)
(***************************************************************************)
THEOREM StoredChainsStayIntact == HostSpec => []ChainIntact
<1>1. StoresInv => ChainIntact
  BY DEF StoresInv, SqliteKeepsChain, ChainIntact
<1> QED BY <1>1, StoresInvAlways, PTL

(***************************************************************************)
(* Whichever store the daemon opens, what it keeps is an append-only       *)
(* ledger, with no key of a session and no event id twice.                 *)
(***************************************************************************)
THEOREM StoresAreLedgers == HostSpec => StoresImplementLedger
<1>1. HostInit => JSON!Ledger!Init /\ SQLite!Ledger!Init
  <2> SUFFICES ASSUME HostInit PROVE JSON!Ledger!Init /\ SQLite!Ledger!Init
    OBVIOUS
  <2>1. JsonProofs!Init /\ SqliteProofs!Init
    BY JsonStoreIsTheSame, SqliteStoreIsTheSame DEF HostInit
  <2>2. JsonProofs!Ledger!Init /\ SqliteProofs!Ledger!Init
    BY <2>1, JsonProofs!InitRefines, SqliteProofs!InitRefines
  <2> QED BY <2>2, JsonLedgerIsTheSame, SqliteLedgerIsTheSame
<1>2. ASSUME StoresInv, StoresInv', [HostNext]_hostVars
      PROVE  /\ [JSON!Ledger!AppendEvents]_(JSON!Log)
             /\ [SQLite!Ledger!AppendEvents]_(SQLite!Log)
  <2>1. CASE part # "sqlite"
    <3>1. [JSON!Ledger!AppendEvents]_(JSON!Log)
      <4>1. JsonProofs!Inv /\ JsonProofs!Inv' /\ [JsonProofs!Next]_(JsonProofs!vars)
        BY <1>2, <2>1, HostStepOfStores DEF StoresInv
      <4> QED BY <4>1, JsonProofs!StepRefines, JsonLedgerIsTheSame
    <3>2. (SQLite!Log)' = SQLite!Log
      <4>1. rows' = rows
        BY <1>2, <2>1, HostStepOfStores DEF sqliteVars
      <4> QED BY <4>1, QueriesFollowRows DEF SQLite!Log
    <3> QED BY <3>1, <3>2
  <2>2. CASE part = "sqlite"
    <3>1. [SQLite!Ledger!AppendEvents]_(SQLite!Log)
      <4>1. SqliteProofs!Inv /\ SqliteProofs!Inv' /\ [SqliteProofs!Next]_(SqliteProofs!vars)
        BY <1>2, <2>2, HostStepOfStores DEF StoresInv
      <4> QED BY <4>1, SqliteProofs!StepRefines, SqliteLedgerIsTheSame
    <3>2. (JSON!Log)' = JSON!Log
      BY <1>2, <2>2, HostStepOfStores DEF jsonVars, JSON!Log
    <3> QED BY <3>1, <3>2
  <2> QED BY <2>1, <2>2
<1>3. StoresInv /\ StoresInv' /\ [HostNext]_hostVars
        => [JSON!Ledger!AppendEvents]_(JSON!Log) /\ [SQLite!Ledger!AppendEvents]_(SQLite!Log)
  BY <1>2
<1> QED
  BY <1>1, <1>3, StoresInvAlways, PTL
  DEF HostSpec, hostVars, StoresImplementLedger, JSON!ImplementsLedger, JSON!Ledger!Spec,
      SQLite!ImplementsLedger, SQLite!Ledger!Spec

-----------------------------------------------------------------------------
(***************************************************************************)
(* The provider setup.  While calls come one after the other, the file is  *)
(* what they have saved, except from the truncation to the answer of the   *)
(* one call under way, which carries all of it in its content.             *)
(***************************************************************************)
Contents == [Setup!Blocks -> Values \cup {None, Cut}]

Requests == {Setup!Idle} \cup
            [step : {"open", "write", "apply"}, op : Setup!Operations, content : Contents]

SetupTypes == request \in [Calls -> Requests] /\ envFile \in Contents /\ saved \in Contents

\* How far the call c is, and what it has left of the file.
Carries(c) ==
  /\ request[c].content = Setup!Merged(saved, request[c].op)
  /\ request[c].step = "open" => envFile = saved
  /\ request[c].step = "write" => envFile = Setup!Absent
  /\ request[c].step = "apply" => envFile = request[c].content

OneByOne ==
  /\ \A c, d \in Calls : request[c] # Setup!Idle /\ request[d] # Setup!Idle => c = d
  /\ Setup!Quiet => envFile = saved
  /\ \A c \in Calls : request[c] # Setup!Idle => Carries(c)

SetupInv == SetupTypes /\ (saved # Setup!Unsettled => OneByOne)

LEMMA SetupStarts == Setup!Init => SetupInv
<1> SUFFICES ASSUME Setup!Init PROVE SetupInv
  OBVIOUS
<1>1. Setup!Absent \in Contents
  BY DEF Setup!Absent, Contents
<1>2. SetupTypes
  BY <1>1 DEF SetupTypes, Setup!Init, Requests
<1>3. OneByOne
  BY DEF OneByOne, Setup!Init
<1> QED BY <1>2, <1>3 DEF SetupInv

\* Over a file that is empty, a write leaves its content and nothing else.
LEMMA WrittenOverAbsent ==
  ASSUME NEW new \in Contents, NEW f \in Setup!Overlaid(new, Setup!Absent)
  PROVE  f = new
BY DEF Setup!Overlaid, Setup!Absent, Contents

LEMMA MergedIsContent ==
  ASSUME NEW f \in Contents, NEW op \in Setup!Operations
  PROVE  Setup!Merged(f, op) \in Contents
<1>1. op.value \in Values \cup {None, Cut}
  BY DEF Setup!Operations
<1> QED BY <1>1 DEF Setup!Merged, Contents

LEMMA SetupStepTypes ==
  ASSUME SetupTypes, Setup!Next PROVE SetupTypes'
<1> USE DEF SetupTypes
<1>0. /\ Setup!Absent \in Contents /\ Setup!Unsettled \in Contents
      /\ Setup!Idle \in Requests
  BY DEF Setup!Absent, Setup!Unsettled, Contents, Requests
<1>1. ASSUME NEW c \in Calls, NEW op \in Setup!Operations, Setup!Read(c, op)
      PROVE  SetupTypes'
  <2>1. Setup!Merged(envFile, op) \in Contents
    BY MergedIsContent
  <2>2. PICK step \in {"open", "apply"} :
          request' = [request EXCEPT ![c] =
            [step |-> step, op |-> op, content |-> Setup!Merged(envFile, op)]]
    BY <1>1 DEF Setup!Read
  <2>3. [step |-> step, op |-> op, content |-> Setup!Merged(envFile, op)] \in Requests
    BY <2>1 DEF Requests
  <2>4. request' \in [Calls -> Requests]
    BY <2>2, <2>3
  <2> QED BY <1>0, <1>1, <2>4 DEF Setup!Read
<1>2. ASSUME NEW c \in Calls, NEW step \in {"write", "apply"},
             request[c].step \in {"open", "write"}, Setup!GoTo(c, step)
      PROVE  request' \in [Calls -> Requests]
  <2>1. request[c] \in [step : {"open", "write", "apply"}, op : Setup!Operations,
                        content : Contents]
    BY <1>2 DEF Requests, Setup!Idle
  <2>2. [request[c] EXCEPT !.step = step] \in Requests
    BY <2>1 DEF Requests
  <2> QED BY <1>2, <2>2 DEF Setup!GoTo
<1>3. ASSUME NEW c \in Calls, Setup!Open(c) PROVE SetupTypes'
  BY <1>0, <1>2, <1>3 DEF Setup!Open
<1>4. ASSUME NEW c \in Calls, Setup!Write(c) PROVE SetupTypes'
  BY <1>2, <1>4 DEF Setup!Write, Setup!Overlaid, Contents
<1>5. ASSUME NEW c \in Calls, Setup!WriteFails(c) PROVE SetupTypes'
  BY <1>0, <1>5 DEF Setup!WriteFails, Setup!Overlaid, Contents
<1>6. ASSUME NEW c \in Calls, Setup!Apply(c) PROVE SetupTypes'
  <2>1. request[c] \in [step : {"open", "write", "apply"}, op : Setup!Operations,
                        content : Contents]
    BY <1>6 DEF Requests, Setup!Idle, Setup!Apply
  <2>2. [saved EXCEPT ![request[c].op.block] = request[c].op.value] \in Contents
    BY <2>1, MergedIsContent DEF Setup!Merged
  <2> QED BY <1>0, <1>6, <2>2 DEF Setup!Apply
<1>7. CASE Setup!Stop
  BY <1>0, <1>7 DEF Setup!Stop
<1>8. CASE Setup!Start
  BY <1>8 DEF Setup!Start
<1> QED BY <1>1, <1>3, <1>4, <1>5, <1>6, <1>7, <1>8 DEF Setup!Next

\* What a call under way looks like, and that it is not Idle.
LEMMA UnderWay ==
  ASSUME SetupTypes, NEW c \in Calls, request[c].step # "idle"
  PROVE  /\ request[c] # Setup!Idle
         /\ request[c] \in [step : {"open", "write", "apply"}, op : Setup!Operations,
                            content : Contents]
BY DEF SetupTypes, Requests, Setup!Idle

\* Calls stay one by one when one of them goes on.
LEMMA OneGoesOn ==
  ASSUME SetupTypes, OneByOne, NEW c \in Calls, request[c] # Setup!Idle,
         request'[c] # Setup!Idle, \A d \in Calls \ {c} : request'[d] = request[d],
         Carries(c)'
  PROVE  OneByOne'
<1>1. \A d \in Calls : request'[d] # Setup!Idle => d = c
  BY DEF OneByOne
<1>2. ~Setup!Quiet'
  BY DEF Setup!Quiet
<1> QED BY <1>1, <1>2 DEF OneByOne

LEMMA SetupSteps ==
  ASSUME SetupInv, Setup!Next PROVE SetupInv'
<1>0. SetupTypes /\ SetupTypes'
  BY SetupStepTypes DEF SetupInv
<1> SUFFICES ASSUME saved' # Setup!Unsettled PROVE OneByOne'
  BY <1>0 DEF SetupInv
<1>1. ASSUME NEW c \in Calls, NEW op \in Setup!Operations, Setup!Read(c, op)
      PROVE  OneByOne'
  <2>1. Setup!Quiet /\ saved' = saved /\ envFile = saved /\ envFile' = envFile
    BY <1>1 DEF Setup!Read, SetupInv, OneByOne
  <2>2. PICK rq : /\ request' = [request EXCEPT ![c] = rq]
                  /\ rq = [step |-> IF op.value = None /\ envFile[op.block] = None
                                      THEN "apply" ELSE "open",
                           op |-> op, content |-> Setup!Merged(envFile, op)]
    BY <1>1 DEF Setup!Read
  <2>3. request'[c] = rq /\ \A d \in Calls \ {c} : request'[d] = Setup!Idle
    BY <1>0, <2>1, <2>2 DEF SetupTypes, Setup!Quiet
  <2>4. rq.step # "open" => Setup!Merged(envFile, op) = envFile
    BY <1>0, <2>2 DEF SetupTypes, Contents, Setup!Merged
  <2>5. Carries(c)'
    <3>1. rq.op = op /\ rq.content = Setup!Merged(saved, op) /\ rq.step \in {"open", "apply"}
      BY <2>1, <2>2
    <3>2. request'[c].content = Setup!Merged(saved', request'[c].op)
      BY <2>1, <2>3, <3>1
    <3>3. request'[c].step = "apply" => envFile' = request'[c].content
      BY <2>1, <2>3, <2>4, <3>1
    <3> QED BY <2>1, <2>3, <3>1, <3>2, <3>3 DEF Carries, Setup!Merged
  <2>6. rq # Setup!Idle
    BY <2>2 DEF Setup!Idle
  <2>7. ~Setup!Quiet'
    BY <2>3, <2>6 DEF Setup!Quiet
  <2> QED BY <2>3, <2>5, <2>7 DEF OneByOne
<1>2. ASSUME NEW c \in Calls, NEW step \in {"write", "apply"}, Setup!GoTo(c, step),
             request[c].step \in {"open", "write"}
      PROVE  /\ request[c] # Setup!Idle /\ request'[c] # Setup!Idle
             /\ \A d \in Calls \ {c} : request'[d] = request[d]
             /\ request'[c].step = step
             /\ request'[c].op = request[c].op
             /\ request'[c].content = request[c].content
             /\ request[c].content \in Contents
  <2>1. /\ request[c] # Setup!Idle
        /\ request[c] \in [step : {"open", "write", "apply"}, op : Setup!Operations,
                           content : Contents]
    BY <1>0, <1>2, UnderWay
  <2> QED BY <1>0, <1>2, <2>1 DEF Setup!GoTo, SetupTypes, Setup!Idle
<1>3. ASSUME NEW c \in Calls, Setup!Open(c) PROVE OneByOne'
  <2>1. saved' = saved /\ OneByOne /\ envFile' = Setup!Absent
    BY <1>3 DEF Setup!Open, SetupInv
  <2>2. /\ request[c] # Setup!Idle /\ request'[c] # Setup!Idle
        /\ \A d \in Calls \ {c} : request'[d] = request[d]
        /\ request'[c].step = "write" /\ request'[c].op = request[c].op
        /\ request'[c].content = request[c].content
    BY <1>2, <1>3 DEF Setup!Open
  <2>3. Carries(c)'
    BY <2>1, <2>2 DEF OneByOne, Carries, Setup!Merged, Setup!Absent
  <2> QED BY <1>0, <2>1, <2>2, <2>3, OneGoesOn
<1>4. ASSUME NEW c \in Calls, Setup!Write(c) PROVE OneByOne'
  <2>1. saved' = saved /\ OneByOne
    BY <1>4 DEF Setup!Write, SetupInv
  <2>2. /\ request[c] # Setup!Idle /\ request'[c] # Setup!Idle
        /\ \A d \in Calls \ {c} : request'[d] = request[d]
        /\ request'[c].step = "apply" /\ request'[c].op = request[c].op
        /\ request'[c].content = request[c].content
        /\ request[c].content \in Contents
    BY <1>2, <1>4 DEF Setup!Write
  <2>3. envFile = Setup!Absent
    BY <1>4, <2>1, <2>2 DEF OneByOne, Carries, Setup!Write
  <2>4. envFile' = request[c].content
    BY <1>4, <2>2, <2>3, WrittenOverAbsent DEF Setup!Write
  <2>5. Carries(c)'
    BY <2>1, <2>2, <2>4 DEF OneByOne, Carries, Setup!Merged
  <2> QED BY <1>0, <2>1, <2>2, <2>5, OneGoesOn
<1>5. ASSUME NEW c \in Calls, Setup!WriteFails(c) PROVE OneByOne'
  BY <1>5 DEF Setup!WriteFails, Setup!Unsettled
<1>6. ASSUME NEW c \in Calls, Setup!Apply(c) PROVE OneByOne'
  <2>1. /\ saved # Setup!Unsettled /\ OneByOne /\ envFile' = envFile
        /\ saved' = Setup!Merged(saved, request[c].op)
    BY <1>6 DEF Setup!Apply, SetupInv, Setup!Merged, Setup!Unsettled
  <2>2. request[c] # Setup!Idle
    BY <1>0, <1>6, UnderWay DEF Setup!Apply
  <2>3. envFile = Setup!Merged(saved, request[c].op)
    BY <1>6, <2>1, <2>2 DEF OneByOne, Carries, Setup!Apply
  <2>4. \A d \in Calls : request'[d] = Setup!Idle
    BY <1>0, <1>6, <2>1, <2>2 DEF OneByOne, Setup!Apply, SetupTypes
  <2> QED BY <2>1, <2>3, <2>4 DEF OneByOne
<1>7. CASE Setup!Stop
  <2>1. /\ saved' = saved /\ OneByOne /\ envFile' = envFile
        /\ \A c \in Calls : request[c].step \in {"idle", "open"} /\ request'[c] = Setup!Idle
    BY <1>7 DEF Setup!Stop, SetupInv, Setup!Unsettled
  <2>2. envFile = saved
    <3>1. CASE Setup!Quiet
      BY <2>1, <3>1 DEF OneByOne
    <3>2. CASE ~Setup!Quiet
      <4>1. PICK c \in Calls : request[c] # Setup!Idle
        BY <3>2 DEF Setup!Quiet
      <4>2. request[c].step # "idle"
        BY <1>0, <4>1 DEF SetupTypes, Requests
      <4> QED BY <2>1, <4>1, <4>2 DEF OneByOne, Carries
    <3> QED BY <3>1, <3>2
  <2> QED BY <2>1, <2>2 DEF OneByOne
<1>8. CASE Setup!Start
  <2>1. saved' = saved /\ OneByOne /\ envFile' = envFile /\ request' = request
    BY <1>8 DEF Setup!Start, SetupInv
  <2> QED BY <2>1 DEF OneByOne, Carries, Setup!Quiet, Setup!Merged, Setup!Absent
<1> QED BY <1>1, <1>3, <1>4, <1>5, <1>6, <1>7, <1>8 DEF Setup!Next

(***************************************************************************)
(* What setup calls have saved, one after the other and uninterrupted, is  *)
(* what the next start of the daemon loads.                                *)
(***************************************************************************)
THEOREM SavedSetupsAreLoaded == HostSpec => []SetupSurvivesRestart
<1>1. HostInit => SetupInv
  BY SetupStarts DEF HostInit
<1>2. SetupInv /\ [HostNext]_hostVars => SetupInv'
  <2> SUFFICES ASSUME SetupInv, [HostNext]_hostVars PROVE SetupInv'
    OBVIOUS
  <2>1. CASE SetupStep
    BY <2>1, SetupSteps DEF SetupStep
  <2>2. CASE LockStep \/ JsonStep \/ SqliteStep \/ AuditStep \/ Halted \/ UNCHANGED hostVars
    <3>1. request' = request /\ envFile' = envFile /\ saved' = saved
      BY <2>2 DEF LockStep, JsonStep, SqliteStep, AuditStep, Halted, hostVars, setupVars
    <3> QED BY <3>1 DEF SetupInv, SetupTypes, OneByOne, Carries, Setup!Quiet, Setup!Merged,
              Setup!Absent
  <2> QED BY <2>1, <2>2 DEF HostNext
<1>3. SetupInv => SetupSurvivesRestart
  BY DEF SetupInv, SetupTypes, OneByOne, SetupSurvivesRestart, Setup!SetupSurvivesRestart,
         Setup!Loaded, Setup!Absent, Setup!Blocks
<1> QED BY <1>1, <1>2, <1>3, PTL DEF HostSpec, hostVars
================================================================================
