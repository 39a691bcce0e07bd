----------------------------- MODULE EventLedger -----------------------------
(***************************************************************************)
(* What every event store promises its callers: per session, a log that    *)
(* only grows, and in which no idempotency key of a session and no event   *)
(* id of the whole store occurs twice.  The durable stores are shown to    *)
(* implement this specification under a mapping of what they keep to log.  *)
(***************************************************************************)
EXTENDS EventStore, SequencesExt

CONSTANTS Sessions,   \* session ids
          Ids,        \* event ids the id generator may produce
          Keys,       \* idempotency keys callers use, NoKey not among them
          Bodies      \* everything else a caller puts into an event

VARIABLE log          \* log[s]: the events of session s, in append order

\* What a caller may pass to appendEventResult.
Inputs == [id : Ids, session : Sessions, key : Keys \cup {NoKey},
           type : {"event"}, body : Bodies]

EmptyLog == [s \in Sessions |-> <<>>]

UniqueIds(l) ==
  \A s, t \in Sessions : \A i \in DOMAIN l[s], j \in DOMAIN l[t] :
    l[s][i].id = l[t][j].id => s = t /\ i = j

Admissible(l) == UniqueIds(l) /\ \A s \in Sessions : OneEventPerKey(l[s])

Init == log = EmptyLog

(***************************************************************************)
(* Successful appends; a store that lost a write may make several of them  *)
(* visible at once.  A replay, a conflict and a duplicate id leave the log *)
(* as it is: they are stuttering steps.                                    *)
(***************************************************************************)
AppendEvents ==
  /\ log' \in [Sessions -> Seq(Inputs)]
  /\ \A s \in Sessions : IsPrefix(log[s], log'[s])
  /\ Admissible(log')

Spec == Init /\ [][AppendEvents]_log
=============================================================================
