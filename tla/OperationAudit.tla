---------------------------- MODULE OperationAudit ----------------------------
(***************************************************************************)
(* The operation audit log: operation-audit-log.ts and                     *)
(* sqlite-operation-audit-log.ts of apps/daemon/src, and the middleware    *)
(* that records every request after its handler.  The log is kept in       *)
(* memory, in a JSON file that each record rewrites, or in a SQLite table, *)
(* and holds the latest MaxEntries entries.  A mirror appends what the log *)
(* has recorded to a JSONL file that is rotated by size; its errors are    *)
(* swallowed.                                                              *)
(*                                                                         *)
(* An entry is its id and its time; ids are random, so entries of the same *)
(* time are kept in any order.  The lines of the mirror are numbered as    *)
(* they are appended.  Lengths in bytes are not modelled: a file that is   *)
(* not empty may or may not have room for the next line.                   *)
(***************************************************************************)
EXTENDS Naturals, FiniteSets

CONSTANTS Logs,         \* the logs a daemon may be configured with
          AuditIds,     \* their ids, which also bound the records
          LastTime,     \* bound of the clock
          MaxEntries, MaxFiles

AuditAssumptions == /\ Logs \subseteq {"memory", "json", "sqlite"}
                    /\ AuditIds \subseteq Nat
                    /\ LastTime \in Nat
                    /\ MaxEntries \in Nat \ {0}
                    /\ MaxFiles \in Nat \ {0}

VARIABLES log,       \* the configured one
          entries,   \* of the JSON log or the log in memory: what is in memory
          disk,      \* the JSON file, or the rows of the table
          usedIds,
          clock,
          recorded,  \* history: entries whose record call returned
          files,     \* files[0] is the JSONL file, files[i] is <file>.<i>
          lines      \* history: the lines appended so far

auditVars == <<log, entries, disk, usedIds, clock, recorded, files, lines>>

Entry == [id : AuditIds, at : 0..LastTime]

AuditInit == /\ log \in Logs
             /\ entries = {}
             /\ disk = {}
             /\ usedIds = {}
             /\ clock = 0
             /\ recorded = {}
             /\ files = [i \in 0..MaxFiles |-> {}]
             /\ lines = 0

\* compareAuditEntries: by time, then by id.
Later(x, y) == x.at > y.at \/ (x.at = y.at /\ x.id > y.id)

LaterThan(e, S) == {x \in S : Later(x, e)}

\* Mutant: the oldest entries are kept.
Pruned_Oldest(S) == {e \in S : Cardinality({x \in S : Later(e, x)}) < MaxEntries}

\* pruneOperationAuditEntries, and SQLite's prune.
Pruned(S) == {e \in S : Cardinality(LaterThan(e, S)) < MaxEntries}

(***************************************************************************)
(* rotate after k of its operations: <file>.<MaxFiles> is removed, then    *)
(* each file moves to the next index, from the oldest to the current one.  *)
(***************************************************************************)
LastOperation == MaxFiles + 1

\* Mutant: the current file is copied, not moved.
Rotated_Copied(k) ==
  [i \in 0..MaxFiles |-> IF i = 0 \/ i + k < LastOperation \/ k = 0 THEN files[i]
                         ELSE IF i + k = LastOperation THEN {}
                         ELSE files[i - 1]]

Rotated(k) ==
  [i \in 0..MaxFiles |-> IF i + k < LastOperation \/ k = 0 THEN files[i]
                         ELSE IF i + k = LastOperation THEN {}
                         ELSE files[i - 1]]

\* shouldRotate never rotates an empty file or a missing one.
MayRotate == files[0] # {}

\* The write of the mirror: the whole rotation or none, then the line.
Exported ==
  \E k \in {0, LastOperation} :
    /\ k > 0 => MayRotate
    /\ lines' = lines + 1
    /\ files' = [Rotated(k) EXCEPT ![0] = @ \cup {lines + 1}]

\* An operation of the file system throws, or is the last of the process.
ExportStops ==
  \E k \in 0..LastOperation :
    /\ k > 0 => MayRotate
    /\ files' = Rotated(k)
    /\ UNCHANGED lines

New(e) == e.id \notin usedIds /\ e.at = clock

\* record returns, and the mirror's write succeeds or is swallowed.
Recorded(e) == /\ recorded' = recorded \cup {e}
               /\ usedIds' = usedIds \cup {e.id}
               /\ Exported \/ ExportStops
               /\ UNCHANGED <<log, clock>>

\* record throws: the mirror is not asked, and the request fails.
NotRecorded(e) == /\ usedIds' = usedIds \cup {e.id}
                  /\ UNCHANGED <<log, clock, recorded, files, lines>>

RecordInMemory(e) ==
  /\ log = "memory"
  /\ New(e)
  /\ entries' = Pruned(entries \cup {e})
  /\ Recorded(e)
  /\ UNCHANGED disk

RecordInFile(e) ==
  /\ log = "json"
  /\ New(e)
  /\ entries' = Pruned(entries \cup {e})
  /\ disk' = entries'
  /\ Recorded(e)

\* persist throws: the entry stays in memory, and the next persist writes it.
FileNotWritten(e) ==
  /\ log = "json"
  /\ New(e)
  /\ entries' = Pruned(entries \cup {e})
  /\ NotRecorded(e)
  /\ UNCHANGED disk

RecordInTable(e) ==
  /\ log = "sqlite"
  /\ New(e)
  /\ disk' = Pruned(disk \cup {e})
  /\ Recorded(e)
  /\ UNCHANGED entries

\* The INSERT is committed and the DELETE throws (SQLITE_BUSY); an INSERT that
\* throws changes nothing.
TableNotPruned(e) ==
  /\ log = "sqlite"
  /\ New(e)
  /\ disk' = disk \cup {e}
  /\ NotRecorded(e)
  /\ UNCHANGED entries

(***************************************************************************)
(* The process dies and is started again: between two requests, or in a    *)
(* record call, when the file or the table was written, and perhaps during *)
(* the rotation after it.  The JSON log is loaded from its file.           *)
(***************************************************************************)
Restarted == /\ entries' = IF log = "json" THEN disk' ELSE {}
             /\ recorded' = IF log = "memory" THEN {} ELSE recorded
             /\ UNCHANGED <<log, clock>>

CrashBetween == UNCHANGED <<disk, usedIds, files, lines>> /\ Restarted

CrashInRecord(e) ==
  /\ New(e)
  /\ usedIds' = usedIds \cup {e.id}
  /\ CASE log = "memory" -> UNCHANGED disk
       [] log = "json"   -> disk' = Pruned(entries \cup {e})
       [] log = "sqlite" -> disk' = Pruned(disk \cup {e})
  /\ Exported \/ ExportStops
  /\ Restarted

CrashBeforePrune(e) ==
  /\ log = "sqlite"
  /\ New(e)
  /\ usedIds' = usedIds \cup {e.id}
  /\ disk' = disk \cup {e}
  /\ Restarted
  /\ UNCHANGED <<files, lines>>

AuditTick == /\ clock < LastTime
             /\ clock' = clock + 1
             /\ UNCHANGED <<log, entries, disk, usedIds, recorded, files, lines>>

AuditNext == \/ \E e \in Entry : \/ RecordInMemory(e)
                                 \/ RecordInFile(e)
                                 \/ FileNotWritten(e)
                                 \/ RecordInTable(e)
                                 \/ TableNotPruned(e)
                                 \/ CrashInRecord(e)
                                 \/ CrashBeforePrune(e)
             \/ CrashBetween
             \/ AuditTick

AuditSpec == AuditInit /\ [][AuditNext]_auditVars
-----------------------------------------------------------------------------
\* An entry whose request was answered stays in the log, over failed writes and
\* restarts, until MaxEntries later ones are there.
RecordedSurvives ==
  LET kept == IF log = "memory" THEN entries ELSE disk
  IN  \A e \in recorded :
        e \in kept \/ Cardinality(LaterThan(e, kept)) >= MaxEntries

\* The JSONL files, from the oldest to the current one, hold the latest lines of
\* the mirror without a gap, in their order and each once, wherever a rotation
\* was interrupted.
ExportKeepsLatest ==
  \A i \in 0..MaxFiles : \A n \in files[i] :
    /\ \A m \in n..lines : \E j \in 0..i : m \in files[j]
    /\ \A j \in 0..MaxFiles : n \in files[j] => j = i
=============================================================================
