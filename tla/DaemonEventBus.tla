--------------------------- MODULE DaemonEventBus ---------------------------
(***************************************************************************)
(* How an event of one session reaches the people who watch it: the events *)
(* a handler or a stage of a run appends, the event bus they are published *)
(* on, the SSE streams that listen to the bus, and the timeline of the web *)
(* page that merges a stream with the events it has read.                  *)
(*                                                                         *)
(* Node runs a handler that does not await without interruption: an HTTP   *)
(* mutation appends and publishes in one step.  A stage of a run awaits    *)
(* its participants, so its appends interleave with everything else, and   *)
(* it publishes when it ends.  The log is durable when an append returns   *)
(* (SqliteEventStore); an event's id is its position.                      *)
(***************************************************************************)
EXTENDS EventStore, FiniteSets, TLC

CONSTANTS Streams,       \* SSE connections, each opened once
          NoStream,
          Requests,      \* POST /runs/:runId/start requests
          Participants,
          MaxStages,     \* bound of the stages one request asks for
          MaxEvents      \* bound of the log's length

ASSUME NoStreamAssumption == NoStream \notin Streams
ASSUME BoundsAssumption == MaxStages \in Nat \ {0} /\ MaxEvents \in Nat

VARIABLES log,        \* the session's events
          published,  \* the events published by the process that runs now
          start,      \* how many events there were when it started
          listeners,  \* the listener sets of the bus, in order of creation
          entry,      \* the set the bus holds for the session, 0 for none
          stream,     \* stream[s]: its state, the set it is in, its frames, and
                      \* history: whether it came while another one was being
                      \* closed or had lost its place (late)
          request,    \* request[q]: its state and what its stage saw before
          page        \* the web page's timeline

busVars == <<log, published, start, listeners, entry, stream, request, page>>

OfType(l, type) == {i \in DOMAIN l : l[i].type = type}

\* The batch is open when the watchers come; its participants contribute.
TopicContract == [type |-> "topic_contract_published", key |-> NoKey]
BatchOpened == [type |-> "sealed_batch_opened", key |-> NoKey]

BusInit ==
  /\ log = <<TopicContract, BatchOpened>>
  /\ published = {}
  /\ start = 2
  /\ listeners = <<>>
  /\ entry = 0
  /\ stream = [s \in Streams |-> [status |-> "unused", home |-> 0, late |-> FALSE,
                                sent |-> <<>>]]
  /\ request = [q \in Requests |-> [status |-> "idle", before |-> {}, stages |-> 0]]
  /\ page = [follows |-> NoStream, streamed |-> <<>>, read |-> <<>>,
             query |-> "asked", answer |-> <<>>]
-----------------------------------------------------------------------------
(***************************************************************************)
(* run-routes.ts: what a run's endpoints show of an event.                 *)
(***************************************************************************)
IsSealedContributionRevealed(l, i) ==
  \E j \in OfType(l, "sealed_batch_revealed") : i \in l[j].basedOn

\* Mutant: the visibility of the batch is not consulted.
SafeRunEventView_Unsealed(l, i) == "shown"

SafeRunEventView(l, i) ==
  IF l[i].type = "sealed_contribution_submitted" /\ ~IsSealedContributionRevealed(l, i)
    THEN "redacted" ELSE "shown"

\* GET /runs/:runId/events.
RunEvents(l) == [i \in DOMAIN l |-> SafeRunEventView(l, i)]
-----------------------------------------------------------------------------
(***************************************************************************)
(* DaemonEventBus.                                                         *)
(***************************************************************************)
Listening == IF entry = 0 THEN {} ELSE listeners[entry]

\* The frames that publishing the events ids of log l adds, in sequence order.
Frames(l, ids) ==
  [k \in 1..Cardinality(ids) |->
     LET i == CHOOSE i \in ids : Cardinality({j \in ids : j < i}) = k - 1
     IN  [event |-> i, view |-> SafeRunEventView(l, i)]]

\* Every listener is called; the frames of the stream the page follows are on
\* their way to it, those of the others reach nobody this module looks at.
Publish(l, ids) ==
  /\ published' = published \cup ids
  /\ stream' = [s \in Streams |->
                  IF s \in Listening \cap {page.follows}
                    THEN [stream[s] EXCEPT !.sent = @ \o Frames(l, ids)]
                    ELSE stream[s]]

Subscribe(s) ==
  LET home == IF entry = 0 THEN Len(listeners) + 1 ELSE entry
  IN  /\ entry' = home
      /\ listeners' = IF entry = 0 THEN Append(listeners, {s})
                      ELSE [listeners EXCEPT ![entry] = @ \cup {s}]
      /\ stream' = [stream EXCEPT ![s].status = "open", ![s].home = home,
                                  ![s].late = \E r \in Streams :
                                    \/ stream[r].status = "aborted"
                                    \/ stream[r].status = "open" /\ r \notin Listening]

\* Mutant: the entry is deleted with the first listener that leaves.
Unsubscribe_Always(s) ==
  /\ listeners' = [listeners EXCEPT ![stream[s].home] = @ \ {s}]
  /\ entry' = 0

\* The closure keeps the set it added its listener to; the entry it deletes
\* may by then hold another set.
Unsubscribe(s) ==
  /\ listeners' = [listeners EXCEPT ![stream[s].home] = @ \ {s}]
  /\ entry' = IF listeners'[stream[s].home] = {} THEN 0 ELSE entry
-----------------------------------------------------------------------------
(***************************************************************************)
(* GET /runs/:runId/events/stream.  The route unsubscribes when the        *)
(* connection is aborted, and once more, up to a second later, when its    *)
(* loop notices.                                                           *)
(***************************************************************************)
Connect(s) ==
  /\ stream[s].status = "connecting"
  /\ Subscribe(s)
  /\ UNCHANGED <<log, published, start, request, page>>

Abort(s) ==
  /\ stream[s].status = "open"
  /\ Unsubscribe(s)
  /\ stream' = [stream EXCEPT ![s].status = "aborted"]
  /\ UNCHANGED <<log, published, start, request, page>>

LeaveLoop(s) ==
  /\ stream[s].status = "aborted"
  /\ Unsubscribe(s)
  /\ stream' = [stream EXCEPT ![s].status = "closed"]
  /\ UNCHANGED <<log, published, start, request, page>>
-----------------------------------------------------------------------------
(***************************************************************************)
(* What the core may append next: a proposal, the contribution of a        *)
(* participant that has none, the reveal of what was contributed.          *)
(***************************************************************************)
Contributions(l) == OfType(l, "sealed_contribution_submitted")

IsRevealed(l) == OfType(l, "sealed_batch_revealed") # {}

ContributedBy(l, p) == \E i \in Contributions(l) : l[i].author = p

Proposal == [type |-> "extraction_proposed", key |-> NoKey]

Contribution(p, key, body) ==
  [type |-> "sealed_contribution_submitted", key |-> key, author |-> p, body |-> body]

Reveal(l) == [type |-> "sealed_batch_revealed", key |-> NoKey, basedOn |-> Contributions(l)]

CoreAppends(l) ==
  IF IsRevealed(l) THEN {Proposal}
  ELSE {Proposal, Reveal(l)} \cup
       {Contribution(p, NoKey, [content |-> <<>>]) : p \in {p \in Participants : ~ContributedBy(l, p)}}

\* The mutations of app.ts: append, and publish what was appended.
HttpMutation ==
  /\ Len(log) < MaxEvents
  /\ \E e \in CoreAppends(log) : log' = Append(log, e)
  /\ Publish(log', {Len(log')})
  /\ UNCHANGED <<start, listeners, entry, request, page>>
-----------------------------------------------------------------------------
(***************************************************************************)
(* startRun: the stages a request asks for, one after the other.  A stage  *)
(* is whatever events it appends (SealedRound, GeneratorRound say which).  *)
(***************************************************************************)
StartStage(q) ==
  /\ request[q].status \in {"idle", "between"}
  /\ request[q].stages < MaxStages
  /\ request' = [request EXCEPT ![q] = [status |-> "running", before |-> DOMAIN log,
                                       stages |-> @.stages + 1]]
  /\ UNCHANGED <<log, published, start, listeners, entry, stream, page>>

StageAppends(q) ==
  /\ request[q].status = "running"
  /\ Len(log) < MaxEvents
  /\ \E e \in CoreAppends(log) : log' = Append(log, e)
  /\ UNCHANGED <<published, start, listeners, entry, stream, request, page>>

\* publishNewEvents: whoever appended them, and whether or not they were
\* published already.
PublishNewEvents(q) == Publish(log, DOMAIN log \ request[q].before)

\* The stage returns; stopReasonForRound ends the request or lets it go on.
StageReturns(q) ==
  /\ request[q].status = "running"
  /\ PublishNewEvents(q)
  /\ \E next \in {"between", "done"} :
       request' = [request EXCEPT ![q].status = next, ![q].before = {}]
  /\ UNCHANGED <<log, start, listeners, entry, page>>

\* Mutant: the error is rethrown at once.
StageThrows_Unpublished(q) ==
  /\ request[q].status = "running"
  /\ request' = [request EXCEPT ![q].status = "done", ![q].before = {}]
  /\ UNCHANGED <<log, published, start, listeners, entry, stream, page>>

\* The stage throws, and with it the request.
StageThrows(q) ==
  /\ request[q].status = "running"
  /\ PublishNewEvents(q)
  /\ request' = [request EXCEPT ![q].status = "done", ![q].before = {}]
  /\ UNCHANGED <<log, start, listeners, entry, page>>
-----------------------------------------------------------------------------
(***************************************************************************)
(* RunEventTimeline: the events the page has read, and over them those it  *)
(* was streamed.  A new read replaces one that is under way.               *)
(***************************************************************************)
Merged(newer, older) ==
  [i \in DOMAIN newer \cup DOMAIN older |-> IF i \in DOMAIN newer THEN newer[i] ELSE older[i]]

Timeline == Merged(page.streamed, page.read)

\* What the page was streamed, with one more frame.
StreamedWith(frame) == Merged([i \in {frame.event} |-> frame.view], page.streamed)

StartFollow(s) ==
  /\ page.follows = NoStream
  /\ page.query # "failed" /\ page.read # <<>>
  /\ stream[s].status = "unused"
  /\ stream' = [stream EXCEPT ![s].status = "connecting"]
  /\ page' = [page EXCEPT !.follows = s]
  /\ UNCHANGED <<log, published, start, listeners, entry, request>>

\* The user stops, or the source reports that its connection is lost.
StopFollow ==
  /\ page.follows # NoStream
  /\ page' = [page EXCEPT !.follows = NoStream]
  /\ stream' = [stream EXCEPT ![page.follows].sent = <<>>]
  /\ UNCHANGED <<log, published, start, listeners, entry, request>>

\* Mutant: the queries of the run are not invalidated.
HandleStreamEvent_NotInvalidated ==
  /\ page.follows # NoStream
  /\ stream[page.follows].sent # <<>>
  /\ page' = [page EXCEPT !.streamed = StreamedWith(Head(stream[page.follows].sent))]
  /\ stream' = [stream EXCEPT ![page.follows].sent = Tail(@)]
  /\ UNCHANGED <<log, published, start, listeners, entry, request>>

HandleStreamEvent ==
  /\ page.follows # NoStream
  /\ stream[page.follows].sent # <<>>
  /\ page' = [page EXCEPT !.streamed = StreamedWith(Head(stream[page.follows].sent)),
                           !.query = "asked", !.answer = <<>>]
  /\ stream' = [stream EXCEPT ![page.follows].sent = Tail(@)]
  /\ UNCHANGED <<log, published, start, listeners, entry, request>>

AnswerQuery ==
  /\ page.query = "asked"
  /\ page' = [page EXCEPT !.query = "answered", !.answer = RunEvents(log)]
  /\ UNCHANGED <<log, published, start, listeners, entry, stream, request>>

ReadQuery ==
  /\ page.query = "answered"
  /\ page' = [page EXCEPT !.query = "read", !.read = page.answer, !.answer = <<>>]
  /\ UNCHANGED <<log, published, start, listeners, entry, stream, request>>

\* The client does not retry; the page shows the error in place of the events.
QueryFails ==
  /\ page.query = "asked"
  /\ page' = [page EXCEPT !.query = "failed"]
  /\ UNCHANGED <<log, published, start, listeners, entry, stream, request>>

BusNext ==
  \/ \E s \in Streams : Connect(s) \/ Abort(s) \/ LeaveLoop(s) \/ StartFollow(s)
  \/ \E q \in Requests : \/ StartStage(q) \/ StageAppends(q)
                         \/ StageReturns(q) \/ StageThrows(q)
  \/ HttpMutation
  \/ StopFollow \/ HandleStreamEvent \/ AnswerQuery \/ ReadQuery \/ QueryFails
-----------------------------------------------------------------------------
\* Once no stage is running, every event since the process started has been
\* published, whoever appended it and however its stage ended: of two stages
\* that overlap, and of the mutations between them, none falls between.
PublishedWhenQuiet ==
  (\A q \in Requests : request[q].status # "running") =>
    (start + 1)..Len(log) \subseteq published

\* Neither a stream nor a read shows a sealed contribution before its batch is
\* revealed, also when it is published late, twice or out of order.
RedactedUntilReveal ==
  \A i \in Contributions(log) \cap DOMAIN Timeline :
    Timeline[i] = "shown" => \E j \in OfType(log, "sealed_batch_revealed") : i \in log[j].basedOn

\* A page that has been streamed an event and is not reading shows all events
\* before it: those published while it was not listening leave no gap.
NoGapBehindStream ==
  page.query = "read" =>
    \A i \in DOMAIN page.streamed : 1..i \subseteq DOMAIN Timeline

\* An open stream is listening, whichever other streams come and go, unless one
\* of them was in its last second, or had lost its place so, when it came.
ListenersKept ==
  \A s \in Streams : stream[s].status = "open" /\ ~stream[s].late => s \in Listening

\* Every open stream is listening.
OpenStreamListens == \A s \in Streams : stream[s].status = "open" => s \in Listening
=============================================================================
