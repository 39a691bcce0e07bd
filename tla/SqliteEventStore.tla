--------------------------- MODULE SqliteEventStore ---------------------------
(***************************************************************************)
(* SQLiteEventStore (packages/storage/src/sqlite-event-store.ts): several  *)
(* connections, of one or of several processes, append to one database.    *)
(* Every appendEventResult runs in a BEGIN IMMEDIATE transaction, whose    *)
(* steps are interleaved here with those of the other connections; the     *)
(* process behind a connection may die at any step, which rolls back what  *)
(* is not committed and loses the answer of what is.                       *)
(***************************************************************************)
EXTENDS EventStore, FiniteSets

CONSTANTS Sessions, Ids, Keys, Bodies,
          NoEvent,       \* previousEventHash of a session's first event
          Connections,
          NoConnection,  \* nobody holds SQLite's write lock
          NoInput        \* the connection has no call in progress

\* What the constants must satisfy; the instance for TLC assumes it.
Assumptions == NoKey \notin Keys /\ NoConnection \notin Connections

VARIABLES rows,    \* the committed rows of deliberum_events
          writer,  \* the connection that holds the write lock
          call,    \* call[c]: the input of the call in progress
          pc,      \* pc[c]: where the call is
          row,     \* row[c]: the row inserted or found by the transaction
          acked    \* history: every event a call returned to its caller

vars == <<rows, writer, call, pc, row, acked>>

Inputs == [id : Ids, session : Sessions, key : Keys \cup {NoKey},
           type : {"event"}, body : Bodies]

StoredEvents == [id : Ids, session : Sessions, key : Keys \cup {NoKey},
                 type : {"event"}, body : Bodies, sequence : Nat,
                 prev : Ids \cup {NoEvent}]

SessionRows(s) == {r \in rows : r.session = s}

\* SELECT ... WHERE session_id = ? ORDER BY sequence ASC.
ListEvents(s) ==
  [i \in 1..Cardinality(SessionRows(s)) |->
     CHOOSE r \in SessionRows(s) :
       Cardinality({q \in SessionRows(s) : q.sequence < r.sequence}) = i - 1]

\* SELECT MAX(sequence) + 1, 0 for a session without rows.
NextSequence(s) ==
  IF SessionRows(s) = {} THEN 0
  ELSE (CHOOSE r \in SessionRows(s) :
          \A q \in SessionRows(s) : q.sequence <= r.sequence).sequence + 1

\* Mutant: ORDER BY sequence ASC LIMIT 1.
LatestEvent_Oldest(s) ==
  IF SessionRows(s) = {} THEN NoEvent
  ELSE (CHOOSE r \in SessionRows(s) :
          \A q \in SessionRows(s) : q.sequence >= r.sequence).id

\* SELECT ... ORDER BY sequence DESC LIMIT 1; its id stands for its hash.
LatestEvent(s) ==
  IF SessionRows(s) = {} THEN NoEvent
  ELSE (CHOOSE r \in SessionRows(s) :
          \A q \in SessionRows(s) : q.sequence <= r.sequence).id

Stamped(input) ==
  [id |-> input.id, session |-> input.session, key |-> input.key,
   type |-> input.type, body |-> input.body,
   sequence |-> NextSequence(input.session),
   prev |-> LatestEvent(input.session)]

\* The table's PRIMARY KEY and its two UNIQUE constraints, a NULL key aside.
Collides(r) ==
  \E q \in rows : \/ q.id = r.id
                  \/ q.session = r.session /\ q.sequence = r.sequence
                  \/ q.session = r.session /\ q.key = r.key /\ r.key # NoKey

Init == /\ rows = {}
        /\ writer = NoConnection
        /\ call = [c \in Connections |-> NoInput]
        /\ pc = [c \in Connections |-> "idle"]
        /\ row = [c \in Connections |-> NoInput]
        /\ acked = {}

\* Mutant: BEGIN DEFERRED, which takes no lock.
BeginImmediate_Deferred(c, input) ==
  /\ pc[c] = "idle"
  /\ call' = [call EXCEPT ![c] = input]
  /\ pc' = [pc EXCEPT ![c] = "lookup"]
  /\ UNCHANGED <<rows, writer, row, acked>>

(***************************************************************************)
(* append.immediate: BEGIN IMMEDIATE waits for the write lock.  A wait     *)
(* longer than busy_timeout throws and changes nothing.                    *)
(***************************************************************************)
BeginImmediate(c, input) ==
  /\ pc[c] = "idle"
  /\ writer = NoConnection
  /\ writer' = c
  /\ call' = [call EXCEPT ![c] = input]
  /\ pc' = [pc EXCEPT ![c] = "lookup"]
  /\ UNCHANGED <<rows, row, acked>>

\* The end of a call: the transaction is over, its lock released.
EndCall(c) ==
  /\ writer' = IF writer = c THEN NoConnection ELSE writer
  /\ call' = [call EXCEPT ![c] = NoInput]
  /\ pc' = [pc EXCEPT ![c] = "idle"]
  /\ row' = [row EXCEPT ![c] = NoInput]

\* findEventByIdempotencyKey finds the key: the stored event is returned, or
\* the call throws because the retry says something else.
FindKey(c) ==
  /\ pc[c] = "lookup"
  /\ LET events == ListEvents(call[c].session)
     IN  /\ ~IsNew(events, call[c])
         /\ acked' = IF IsReplay(events, call[c])
                       THEN acked \cup {events[ReturnedEvent(events, call[c])]}
                       ELSE acked
  /\ EndCall(c)
  /\ UNCHANGED rows

\* getStoredEvent finds the id: the call throws.
RejectId(c) ==
  /\ pc[c] = "lookup"
  /\ IsNew(ListEvents(call[c].session), call[c])
  /\ \E r \in rows : r.id = call[c].id
  /\ EndCall(c)
  /\ UNCHANGED <<rows, acked>>

\* nextSequence, latestEvent and attachEventIntegrity make the row.
Stamp(c) ==
  /\ pc[c] = "lookup"
  /\ IsNew(ListEvents(call[c].session), call[c])
  /\ \A r \in rows : r.id # call[c].id
  /\ row' = [row EXCEPT ![c] = Stamped(call[c])]
  /\ pc' = [pc EXCEPT ![c] = "insert"]
  /\ UNCHANGED <<rows, writer, call, acked>>

\* INSERT and COMMIT.  A constraint that fired would roll back and throw;
\* InsertNeverCollides says that none does.
InsertAndCommit(c) ==
  /\ pc[c] = "insert"
  /\ ~Collides(row[c])
  /\ rows' = rows \cup {row[c]}
  /\ writer' = NoConnection
  /\ pc' = [pc EXCEPT ![c] = "committed"]
  /\ UNCHANGED <<call, row, acked>>

\* The committed event reaches the caller.
ReturnEvent(c) ==
  /\ pc[c] = "committed"
  /\ acked' = acked \cup {row[c]}
  /\ EndCall(c)
  /\ UNCHANGED rows

\* The process dies in the middle of the call; SQLite rolls back.
Crash(c) ==
  /\ pc[c] # "idle"
  /\ EndCall(c)
  /\ UNCHANGED <<rows, acked>>

Next == \E c \in Connections :
          \/ \E input \in Inputs : BeginImmediate(c, input)
          \/ FindKey(c)
          \/ RejectId(c)
          \/ Stamp(c)
          \/ InsertAndCommit(c)
          \/ ReturnEvent(c)
          \/ Crash(c)

Spec == Init /\ [][Next]_vars
-----------------------------------------------------------------------------
\* The write lock taken by BEGIN IMMEDIATE makes the lookup and the insert one
\* step: a UNIQUE constraint never fires on an append the store has admitted,
\* whatever the other connections do between the two.
InsertNeverCollides == \A c \in Connections : pc[c] = "insert" => ~Collides(row[c])

\* Every reader and every restart sees sequences without gaps and an intact
\* hash chain, the rows of a crashed writer included.
ChainIntact ==
  \A s \in Sessions : \A i \in DOMAIN ListEvents(s) :
    LET e == ListEvents(s)
    IN  /\ e[i].sequence = i - 1
        /\ e[i].prev = IF i = 1 THEN NoEvent ELSE e[i - 1].id

\* An event that a call returned is committed, and stays so.
AckedDurable == acked \subseteq rows

\* The committed rows implement the ledger, one event per commit.
Unstamped(e) == [id |-> e.id, session |-> e.session, key |-> e.key,
                 type |-> e.type, body |-> e.body]

Log == [s \in Sessions |->
          [i \in DOMAIN ListEvents(s) |-> Unstamped(ListEvents(s)[i])]]

Ledger == INSTANCE EventLedger WITH log <- Log

ImplementsLedger == Ledger!Spec
=============================================================================
