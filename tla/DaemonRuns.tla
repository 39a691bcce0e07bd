----------------------------- MODULE DaemonRuns -----------------------------
(***************************************************************************)
(* The daemon's run store beside its event store: creating a run appends   *)
(* the topic contract of its session first and stores the run second, and  *)
(* every step of a run updates its record.  The record is in memory and in *)
(* a JSON file that each write replaces as a whole, or in SQLite, where    *)
(* the two are one.  Writes fail, and the process dies between any two.    *)
(*                                                                         *)
(* A record is the number of updates it has seen.  The run and its session *)
(* have fresh ids, so one name stands for both.                            *)
(***************************************************************************)
EXTENDS Naturals

CONSTANTS Runs,        \* run ids the id generator may produce
          MaxUpdates   \* bound of the updates of a run

ASSUME MaxUpdatesAssumption == MaxUpdates \in Nat

VARIABLES runStore,    \* "json" or "sqlite"
          contracts,   \* the sessions whose topic contract is in the ledger
          runsById,    \* the records in memory
          runFile,     \* the records in the file or the table
          acked        \* history: the newest record a caller got, by run

runVars == <<runStore, contracts, runsById, runFile, acked>>

NoRuns == <<>>

RunsInit == /\ runStore \in {"json", "sqlite"}
            /\ contracts = {}
            /\ runsById = NoRuns
            /\ runFile = NoRuns
            /\ acked = NoRuns

\* Map.set.
Set(r, n, f) == [x \in DOMAIN f \cup {r} |-> IF x = r THEN n ELSE f[x]]
-----------------------------------------------------------------------------
\* set and persist: the file holds everything that is in memory, what earlier
\* writes failed to save included.
Persisted(r, n) ==
  /\ runsById' = Set(r, n, runsById)
  /\ runFile' = runsById'
  /\ acked' = Set(r, n, acked)

\* persist throws: the JSON store keeps the change, a transaction rolls back.
NotPersisted(r, n) ==
  /\ runsById' = IF runStore = "json" THEN Set(r, n, runsById) ELSE runsById
  /\ UNCHANGED <<runFile, acked>>

\* Mutant: the run is stored before its session is created.
CreateRun_StoredFirst(r) ==
  /\ r \notin contracts \cup DOMAIN runsById
  /\ Persisted(r, 0)
  /\ contracts' \in {contracts, contracts \cup {r}}
  /\ UNCHANGED runStore

\* createDeliberationRun; when createSession throws nothing has happened.
CreateRun(r) ==
  /\ r \notin contracts
  /\ contracts' = contracts \cup {r}
  /\ Persisted(r, 0) \/ NotPersisted(r, 0)
  /\ UNCHANGED runStore

\* updateRun, as the runners call it.
UpdateRun(r) ==
  /\ r \in DOMAIN runsById
  /\ runsById[r] < MaxUpdates
  /\ LET n == runsById[r] + 1 IN Persisted(r, n) \/ NotPersisted(r, n)
  /\ UNCHANGED <<runStore, contracts>>

\* The process dies, also between the two appends of a creation and after the
\* file was replaced; the next one loads the file.
CrashWithin(r, n) ==
  /\ \/ UNCHANGED <<contracts, runFile>>
     \/ n = 0 /\ r \notin contracts /\ contracts' = contracts \cup {r} /\ UNCHANGED runFile
     \/ /\ n > 0 => r \in DOMAIN runsById /\ n = runsById[r] + 1
        /\ n = 0 => r \notin contracts
        /\ contracts' = contracts \cup {r}
        /\ runFile' = Set(r, n, runsById)
  /\ runsById' = runFile'
  /\ UNCHANGED <<runStore, acked>>

RunsCrash == \E r \in Runs, n \in 0..MaxUpdates : CrashWithin(r, n)
-----------------------------------------------------------------------------
\* A run a caller was told of is in the file, at least as new as it was told,
\* and every run, acknowledged or not, has its topic contract in the ledger:
\* neither failed writes nor a crash at any point leave a run without either.
RunsSurvive ==
  /\ \A r \in DOMAIN acked : r \in DOMAIN runFile /\ runFile[r] >= acked[r]
  /\ DOMAIN runsById \cup DOMAIN runFile \subseteq contracts
=============================================================================
