-------------------------- MODULE JsonFileEventStore --------------------------
(***************************************************************************)
(* JsonFileEventStore (packages/storage/src/json-file-event-store.ts): the *)
(* ledger lives in memory and the whole of it is rewritten to one file     *)
(* (temporary file, then rename) by every append.  One process owns the    *)
(* file; it may crash at any point and is restarted from the file.         *)
(*                                                                         *)
(* appendEventResult changes the memory first (storeEvent) and writes the  *)
(* file second (persist).  When the write or the rename throws, the caller *)
(* gets the error and the memory keeps the event.                          *)
(***************************************************************************)
EXTENDS EventStore, SequencesExt

CONSTANTS Sessions, Ids, Keys, Bodies,
          NoEvent,          \* previousEventHash of a session's first event
          PersistMayFail    \* may mkdir, write or rename throw?

Assumptions == NoKey \notin Keys /\ PersistMayFail \in BOOLEAN

VARIABLES mem,     \* eventsBySession, the indexes by id and key with it
          file,    \* the events in the JSON file, by session
          up,      \* the process is running and has loaded the file
          acked,   \* history: every event a call returned as appended
          replayed \* history: those returned as replays since the last start

vars == <<mem, file, up, acked, replayed>>

Inputs == [id : Ids, session : Sessions, key : Keys \cup {NoKey},
           type : {"event"}, body : Bodies]

Empty == [s \in Sessions |-> <<>>]

UsedIds(l) == UNION {{l[s][i].id : i \in DOMAIN l[s]} : s \in Sessions}

EventsIn(l) == UNION {{l[s][i] : i \in DOMAIN l[s]} : s \in Sessions}

(***************************************************************************)
(* The store-assigned fields: the sequence after the session's highest and *)
(* the hash of the session's last event, for which its id stands.          *)
(***************************************************************************)
NextSequence(events) == IF events = <<>> THEN 0 ELSE Last(events).sequence + 1

Stamped(events, input) ==
  [id |-> input.id, session |-> input.session, key |-> input.key,
   type |-> input.type, body |-> input.body,
   sequence |-> NextSequence(events),
   prev |-> IF events = <<>> THEN NoEvent ELSE Last(events).id]

StoreEvent(input) ==
  [mem EXCEPT ![input.session] = Append(@, Stamped(@, input))]

Init == /\ mem = Empty
        /\ file = Empty
        /\ up = TRUE
        /\ acked = {}
        /\ replayed = {}

\* Mutant: the index by event id is not consulted.
CanStore_AnyId(input) == up /\ IsNew(mem[input.session], input)

CanStore(input) == /\ up
                   /\ IsNew(mem[input.session], input)
                   /\ input.id \notin UsedIds(mem)

\* Mutant: the event is returned without being persisted.
AppendStored_NoPersist(input) ==
  /\ CanStore(input)
  /\ mem' = StoreEvent(input)
  /\ acked' = acked \cup {Stamped(mem[input.session], input)}
  /\ UNCHANGED <<file, up, replayed>>

\* appendEventResult of a new event: storeEvent, persist, return the event.
AppendStored(input) ==
  /\ CanStore(input)
  /\ mem' = StoreEvent(input)
  /\ file' = mem'
  /\ acked' = acked \cup {Stamped(mem[input.session], input)}
  /\ UNCHANGED <<up, replayed>>

\* The same call when persist throws: the event stays in memory.
AppendPersistFails(input) ==
  /\ PersistMayFail
  /\ CanStore(input)
  /\ mem' = StoreEvent(input)
  /\ UNCHANGED <<file, up, acked, replayed>>

\* appendEventResult of a retry returns the event in memory, and that is all.
AppendReplayed(input) ==
  /\ up
  /\ IsReplay(mem[input.session], input)
  /\ LET events == mem[input.session]
     IN  replayed' = replayed \cup {events[ReturnedEvent(events, input)]}
  /\ UNCHANGED <<mem, file, up, acked>>

\* Mutant: the file is written in place, and a crash may empty it.
Crash_WriteInPlace ==
  /\ up
  /\ up' = FALSE
  /\ mem' = Empty
  /\ file' \in {file, Empty}
  /\ replayed' = {}
  /\ UNCHANGED acked

\* The process dies: between two calls, or inside persist before or after the
\* rename, when the caller of the append has not got its answer.
Crash ==
  /\ up
  /\ up' = FALSE
  /\ mem' = Empty
  /\ file' \in {file} \cup
               {StoreEvent(input) : input \in {i \in Inputs : CanStore(i)}}
  /\ replayed' = {}
  /\ UNCHANGED acked

(***************************************************************************)
(* validatePersistedLedgerIntegrity and validateEventIntegrityChain.       *)
(***************************************************************************)
UniqueIds(l) ==
  \A s, t \in Sessions : \A i \in DOMAIN l[s], j \in DOMAIN l[t] :
    l[s][i].id = l[t][j].id => s = t /\ i = j

ContiguousFromZero(events) == \A i \in DOMAIN events : events[i].sequence = i - 1

HashChained(events) ==
  \A i \in DOMAIN events :
    events[i].prev = IF i = 1 THEN NoEvent ELSE events[i - 1].id

Validates(l) ==
  /\ UniqueIds(l)
  /\ \A s \in Sessions : /\ ContiguousFromZero(l[s])
                         /\ OneEventPerKey(l[s])
                         /\ HashChained(l[s])

\* The constructor's load; it throws when the file does not validate.
Restart ==
  /\ ~up
  /\ Validates(file)
  /\ up' = TRUE
  /\ mem' = file
  /\ UNCHANGED <<file, acked, replayed>>

Next == \/ \E input \in Inputs : \/ AppendStored(input)
                                 \/ AppendPersistFails(input)
                                 \/ AppendReplayed(input)
        \/ Crash
        \/ Restart

Spec == Init /\ [][Next]_vars
-----------------------------------------------------------------------------
\* A crash at any point leaves a file that the next start accepts
\* (validatePersistedLedgerIntegrity never locks the operator out).
FileLoads == Validates(file)

\* An event returned as appended is in the file, whatever writes failed before:
\* it survives every crash ("the durable source of truth").
AckedDurable == acked \subseteq EventsIn(file)

\* An event returned as an idempotent replay is in the file, too.
ReplayedDurable == replayed \subseteq EventsIn(file)

\* The file is a ledger, whatever fails: persisted events are never edited,
\* reordered or dropped, and no key or id is persisted twice.
Unstamped(e) == [id |-> e.id, session |-> e.session, key |-> e.key,
                 type |-> e.type, body |-> e.body]

Log == [s \in Sessions |-> [i \in DOMAIN file[s] |-> Unstamped(file[s][i])]]

Ledger == INSTANCE EventLedger WITH log <- Log

ImplementsLedger == Ledger!Spec
=============================================================================
