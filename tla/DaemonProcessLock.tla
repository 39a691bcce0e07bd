--------------------------- MODULE DaemonProcessLock ---------------------------
(***************************************************************************)
(* SQLiteDaemonProcessLock (apps/daemon/src/sqlite-daemon-process-lock.ts) *)
(* and its use in startDaemon: a row of the local database names the       *)
(* daemon that may use the database and the time until which it may.  A    *)
(* daemon takes the row when it starts, renews it from a timer, deletes it *)
(* when its server closes, and leaves it behind when it crashes.           *)
(*                                                                         *)
(* Each start has an owner id of its own, so a member of Daemons is one    *)
(* process; its id is used again only when no row carries it.              *)
(***************************************************************************)
EXTENDS Naturals

CONSTANTS Daemons,
          NoDaemon,       \* there is no row
          TtlMs, HeartbeatMs,
          Slack,          \* how late a heartbeat may be and still count as timely
          MaxDelay,       \* how late a busy event loop may run the timer
          MaxTime         \* bound of the clock

\* What the constructor requires of its options.
ASSUME DurationsAssumption ==
  TtlMs \in Nat /\ HeartbeatMs \in Nat /\ 0 < HeartbeatMs /\ HeartbeatMs < TtlMs
ASSUME DaemonsAssumption == NoDaemon \notin Daemons
ASSUME EnvironmentAssumption ==
  Slack \in Nat /\ MaxDelay \in Nat /\ MaxTime \in Nat

VARIABLES owner, expires,   \* the row of deliberum_daemon_process_locks
          serving,          \* serving[d]: d has opened the stores
          timer,            \* timer[d]: d's heartbeat timer is armed
          nextBeat,         \* nextBeat[d]: when it is due
          now,
          timely            \* history: no heartbeat has failed or been too late

vars == <<owner, expires, serving, timer, nextBeat, now, timely>>

Init == /\ owner = NoDaemon
        /\ expires = 0
        /\ serving = [d \in Daemons |-> FALSE]
        /\ timer = [d \in Daemons |-> FALSE]
        /\ nextBeat = [d \in Daemons |-> 0]
        /\ now = 0
        /\ timely = TRUE

\* Mutant: the row of a live owner is taken one tick early.
CanAcquire_Early(d) == owner = NoDaemon \/ expires <= now + 1

CanAcquire(d) == owner = NoDaemon \/ expires <= now

\* acquire and startHeartbeat, then the stores; acquire throws otherwise.
StartDaemon(d) ==
  /\ ~serving[d] /\ owner # d
  /\ CanAcquire(d)
  /\ owner' = d
  /\ expires' = now + TtlMs
  /\ serving' = [serving EXCEPT ![d] = TRUE]
  /\ timer' = [timer EXCEPT ![d] = TRUE]
  /\ nextBeat' = [nextBeat EXCEPT ![d] = now + HeartbeatMs]
  /\ UNCHANGED <<now, timely>>

Due(d) == timer[d] /\ nextBeat[d] <= now

\* Mutant: WHERE lock_name = ? only.
Heartbeat_AnyOwner(d) ==
  /\ Due(d)
  /\ owner' = d
  /\ expires' = now + TtlMs
  /\ nextBeat' = [nextBeat EXCEPT ![d] = now + HeartbeatMs]
  /\ UNCHANGED <<serving, timer, now, timely>>

\* heartbeat: UPDATE ... WHERE owner_id = ?; the timer is an interval.
Heartbeat(d) ==
  /\ Due(d)
  /\ owner = d
  /\ expires' = now + TtlMs
  /\ nextBeat' = [nextBeat EXCEPT ![d] = now + HeartbeatMs]
  /\ UNCHANGED <<owner, serving, timer, now, timely>>

\* The heartbeat throws, because the row is another daemon's or because the
\* UPDATE failed (SQLITE_BUSY).  The timer's callback catches that and clears
\* the timer; the daemon serves on.
HeartbeatThrows(d) ==
  /\ Due(d)
  /\ timer' = [timer EXCEPT ![d] = FALSE]
  /\ timely' = FALSE
  /\ UNCHANGED <<owner, expires, serving, nextBeat, now>>

\* The server closes: the stores are closed, then release deletes d's row.
CloseServer(d) ==
  /\ serving[d]
  /\ serving' = [serving EXCEPT ![d] = FALSE]
  /\ timer' = [timer EXCEPT ![d] = FALSE]
  /\ owner' = IF owner = d THEN NoDaemon ELSE owner
  /\ UNCHANGED <<expires, nextBeat, now, timely>>

Crash(d) ==
  /\ serving[d]
  /\ serving' = [serving EXCEPT ![d] = FALSE]
  /\ timer' = [timer EXCEPT ![d] = FALSE]
  /\ UNCHANGED <<owner, expires, nextBeat, now, timely>>

\* Time passes; an armed timer runs late by MaxDelay at most.
Tick ==
  /\ now < MaxTime
  /\ \A d \in Daemons : timer[d] => now < nextBeat[d] + MaxDelay
  /\ now' = now + 1
  /\ timely' = (timely /\ \A d \in Daemons : timer[d] => now < nextBeat[d] + Slack)
  /\ UNCHANGED <<owner, expires, serving, timer, nextBeat>>

Next == \/ \E d \in Daemons : \/ StartDaemon(d)
                              \/ Heartbeat(d)
                              \/ HeartbeatThrows(d)
                              \/ CloseServer(d)
                              \/ Crash(d)
        \/ Tick

Spec == Init /\ [][Next]_vars
-----------------------------------------------------------------------------
TypeOK == /\ owner \in Daemons \cup {NoDaemon}
          /\ expires \in Nat
          /\ serving \in [Daemons -> BOOLEAN]
          /\ timer \in [Daemons -> BOOLEAN]
          /\ nextBeat \in [Daemons -> Nat]
          /\ now \in Nat
          /\ timely \in BOOLEAN

\* As long as heartbeats succeed and come in time, two daemons never use the
\* database at the same time, across crashes, closes and restarts.
MutualExclusion ==
  timely => \A d, e \in Daemons : serving[d] /\ serving[e] => d = e

\* What makes it so: a serving daemon owns the row, and the row outlives the
\* daemon's next heartbeat.
ServingOwns ==
  timely => \A d \in Daemons : serving[d] =>
    /\ owner = d
    /\ timer[d]
    /\ expires + HeartbeatMs = nextBeat[d] + TtlMs
    /\ now <= nextBeat[d] + Slack

\* The same without the condition ("protects against two daemon processes using
\* the same local database at the same time", STORAGE_RECOVERY.md).
ExclusiveUse == \A d, e \in Daemons : serving[d] /\ serving[e] => d = e

\* The row passes from one daemon to another only when it had expired or was
\* deleted, whatever heartbeats failed: a late heartbeat takes nothing back.
TakenOnlyWhenExpired ==
  [][owner # NoDaemon /\ owner' \notin {owner, NoDaemon} => expires <= now]_vars
=============================================================================
