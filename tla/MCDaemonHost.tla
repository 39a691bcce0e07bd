----------------------------- MODULE MCDaemonHost -----------------------------
(***************************************************************************)
(* An instance for TLC of what a daemon keeps on its host beside its runs: *)
(* the process lock, the event store that its configuration names          *)
(* (createStartDaemonEventStore), the env file of the provider setup and   *)
(* the operation audit log.  They do not touch one another, so a behaviour *)
(* follows one part and the others keep their initial states.              *)
(*                                                                         *)
(* The lock has the default ratio of time to live and heartbeat, three to  *)
(* one.  Ids bounds the events of a store, AuditIds the audit entries;     *)
(* SQLite's steps make its instance smaller, by one session.               *)
(***************************************************************************)
EXTENDS DaemonProcessLock, OperationAudit, TLC

CONSTANTS Parts,                \* the parts that this instance follows
          Sessions, Ids, Keys, Bodies, NoKey, NoEvent, PersistMayFail,
          Connections, NoConnection, NoInput, s1,
          Calls, Values, None, Cut

VARIABLES part,
          mem, file, up, acked, replayed,
          rows, writer, call, pc, row,
          envFile, running, env, runtime, request, saved

jsonVars == <<mem, file, up, replayed>>
sqliteVars == <<rows, writer, call, pc, row>>
storeVars == <<jsonVars, sqliteVars, acked>>
setupVars == <<envFile, running, env, runtime, request, saved>>

JSON == INSTANCE JsonFileEventStore
SQLite == INSTANCE SqliteEventStore WITH Sessions <- {s1}
Setup == INSTANCE SetupEnv WITH call <- request

ASSUME PartsAssumptions ==
  JSON!Assumptions /\ SQLite!Assumptions /\ Setup!Assumptions /\ AuditAssumptions

HostInit == /\ part \in Parts
            /\ Init
            /\ JSON!Init
            /\ SQLite!Init
            /\ Setup!Init
            /\ AuditInit
            /\ part # "audit" => log = "memory"

LockStep == part = "lock" /\ Next /\ UNCHANGED <<storeVars, setupVars, auditVars>>

JsonStep == /\ part = "json"
            /\ JSON!Next
            /\ UNCHANGED <<vars, sqliteVars, setupVars, auditVars>>

SqliteStep == /\ part = "sqlite"
              /\ SQLite!Next
              /\ UNCHANGED <<vars, jsonVars, setupVars, auditVars>>

SetupStep == part = "setup" /\ Setup!Next /\ UNCHANGED <<vars, storeVars, auditVars>>

AuditStep == part = "audit" /\ AuditNext /\ UNCHANGED <<vars, storeVars, setupVars>>

\* The event stores never halt; the other parts do, when the clock or the ids are
\* used up, or when the daemon does not start with the env file it finds.
Halted == /\ part \in {"lock", "setup", "audit"}
          /\ UNCHANGED <<vars, storeVars, setupVars, auditVars>>

HostNext == /\ LockStep \/ JsonStep \/ SqliteStep \/ SetupStep \/ AuditStep \/ Halted
            /\ UNCHANGED part

HostSpec == HostInit /\ [][HostNext]_<<part, vars, storeVars, setupVars, auditVars>>

\* An event that a call returned as appended is in the JSON file, or committed to
\* the database, and a start after a crash accepts the file: the event survives
\* every crash ("the durable source of truth").
AcknowledgedIsDurable ==
  IF part = "sqlite" THEN SQLite!AckedDurable ELSE JSON!AckedDurable /\ JSON!FileLoads

\* An event returned as an idempotent replay is in the JSON file, too.
ReplayedDurable == JSON!ReplayedDurable

\* Every reader of the database sees gapless sequences and an intact hash chain,
\* and no append that the store admits breaks a constraint of the table.
ChainIntact == SQLite!ChainIntact /\ SQLite!InsertNeverCollides

\* Whichever store the daemon opens, what it keeps is a ledger: append-only, with
\* no key of a session and no event id twice.
StoresImplementLedger == JSON!ImplementsLedger /\ SQLite!ImplementsLedger

\* What a setup call has saved is there after the next start, if calls come one
\* after the other.
SetupSurvivesRestart == Setup!SetupSurvivesRestart

\* A daemon that no setup call is changing uses one setup, the one it reports
\* ("The setup was applied to the current local daemon process.").
SetupInUse == Setup!SetupInUse

MCSymmetry == Permutations(Ids) \cup Permutations(Calls) \cup Permutations(Values)
=============================================================================
