---------------------------- MODULE DaemonProofs ----------------------------
(***************************************************************************)
(* Theorems about the daemon: the run store, what is published on the      *)
(* event bus, WebGET submissions, access grants and event streams.  Each   *)
(* rests on an invariant of its own and on what a step does to the ledger. *)
(***************************************************************************)
EXTENDS Daemon, SequenceTheorems, FiniteSetTheorems, WellFoundedInduction, TLAPS

-----------------------------------------------------------------------------
(***************************************************************************)
(* The ledger only grows.                                                  *)
(***************************************************************************)
IsLog(l) == Len(l) \in Nat /\ l = [i \in 1..Len(l) |-> l[i]]

\* m is l and possibly more.
Grows(l, m) ==
  IsLog(m) /\ Len(l) <= Len(m) /\ \A i \in 1..Len(l) : m[i] = l[i]

\* A log is a sequence over its own elements.
LEMMA LogIsSequence ==
  ASSUME NEW l, IsLog(l), NEW e
  PROVE  \E S : l \in Seq(S) /\ e \in S
<1> DEFINE S == {l[i] : i \in 1..Len(l)} \cup {e}
<1>1. [i \in 1..Len(l) |-> l[i]] \in [1..Len(l) -> S]
  OBVIOUS
<1>2. l \in [1..Len(l) -> S] /\ Len(l) \in Nat
  BY <1>1 DEF IsLog
<1>3. l \in Seq(S)
  BY <1>2, SeqDef
<1> QED
  BY <1>3

\* Append adds one event behind the others.
LEMMA AppendGrows ==
  ASSUME NEW l, IsLog(l), NEW e
  PROVE  /\ Grows(l, Append(l, e))
         /\ Len(Append(l, e)) = Len(l) + 1
         /\ Append(l, e)[Len(l) + 1] = e
<1>1. PICK S : l \in Seq(S) /\ e \in S
  BY LogIsSequence
<1>2. /\ Append(l, e) \in Seq(S)
      /\ Len(Append(l, e)) = Len(l) + 1
      /\ \A i \in 1..Len(l) : Append(l, e)[i] = l[i]
      /\ Append(l, e)[Len(l) + 1] = e
  BY <1>1, AppendProperties
<1>3. Len(l) \in Nat /\ Len(Append(l, e)) \in Nat
  BY <1>2 DEF IsLog
<1>4. Append(l, e) \in [1..Len(Append(l, e)) -> S]
  BY <1>2, LenProperties
<1>5. Append(l, e) = [i \in 1..Len(Append(l, e)) |-> Append(l, e)[i]]
  BY <1>4
<1> QED
  BY <1>2, <1>3, <1>5 DEF IsLog, Grows

LEMMA GrowsReflexive ==
  ASSUME NEW l, IsLog(l)
  PROVE  Grows(l, l)
BY DEF Grows, IsLog

LEMMA GrowsTransitive ==
  ASSUME NEW l, NEW m, NEW n, IsLog(l), Grows(l, m), Grows(m, n)
  PROVE  Grows(l, n)
<1>1. Len(l) \in Nat /\ Len(m) \in Nat /\ Len(n) \in Nat
  BY DEF Grows, IsLog
<1> QED
  BY <1>1 DEF Grows

\* The domain of a log.
LEMMA LogDomain ==
  ASSUME NEW l, IsLog(l)
  PROVE  DOMAIN l = 1..Len(l)
BY DEF IsLog

\* appendEventResult appends at most one event, the one it was given.
LEMMA AfterAppendGrows ==
  ASSUME NEW l, IsLog(l), NEW e
  PROVE  /\ Grows(l, AfterAppend(l, e))
         /\ \A i \in DOMAIN AfterAppend(l, e) :
              i \in DOMAIN l \/ AfterAppend(l, e)[i] = e
<1>1. CASE IsNew(l, e)
  <2>1. AfterAppend(l, e) = Append(l, e)
    BY <1>1 DEF AfterAppend
  <2>2. Grows(l, Append(l, e)) /\ Len(Append(l, e)) = Len(l) + 1
        /\ Append(l, e)[Len(l) + 1] = e
    BY AppendGrows
  <2>3. DOMAIN l = 1..Len(l) /\ DOMAIN Append(l, e) = 1..(Len(l) + 1) /\ Len(l) \in Nat
    BY <2>2, LogDomain DEF Grows, IsLog
  <2> QED
    BY <2>1, <2>2, <2>3
<1>2. CASE ~IsNew(l, e)
  BY <1>2, GrowsReflexive DEF AfterAppend
<1> QED
  BY <1>1, <1>2
-----------------------------------------------------------------------------
(***************************************************************************)
(* What a step does to the ledger and the bus.  A handler publishes what   *)
(* it appended before anything else happens.                               *)
(***************************************************************************)
Handled ==
  /\ Grows(log, log')
  /\ published \cup (DOMAIN log' \ DOMAIN log) \subseteq published'
  /\ UNCHANGED <<start, request>>

\* A step that leaves the ledger and the bus alone.
LEMMA QuietStep ==
  ASSUME IsLog(log), UNCHANGED <<log, published, start, request>>
  PROVE  Handled
BY GrowsReflexive DEF Handled

\* A handler that appends and publishes.
LEMMA PublishingStep ==
  ASSUME IsLog(log), Grows(log, log'), Publish(log', Appended(log')),
         UNCHANGED <<start, request>>
  PROVE  Handled
BY DEF Handled, Publish, Appended

LEMMA ResourcesStepHandled ==
  ASSUME IsLog(log), ResourcesStep
  PROVE  Handled
<1>1. UNCHANGED <<start, request>>
  BY DEF ResourcesStep, Aside
<1>2. ASSUME NEW g \in Accesses, NEW p \in Participants, PlanNotRecorded(g, p)
      PROVE  Handled
  <2>1. Grows(log, log')
    BY <1>2, AppendGrows DEF PlanNotRecorded, AfterGrant
  <2> QED
    BY <1>1, <1>2, <2>1, PublishingStep DEF PlanNotRecorded
<1>3. ASSUME NEW g \in Accesses, NEW p \in Participants,
             NEW key \in DeliveryKeys \cup {NoKey}, DeliverUrl(g, p, key)
      PROVE  Handled
  <2> DEFINE granted == AfterGrant(g, p)
  <2>1. Grows(log, granted)
    BY AppendGrows DEF AfterGrant
  <2>2. log' = AfterAppend(granted, DeliveryPlanned(p, key, "url"))
    BY <1>3 DEF DeliverUrl
  <2>3. IsLog(granted)
    BY <2>1 DEF Grows
  <2>4. Grows(granted, AfterAppend(granted, DeliveryPlanned(p, key, "url")))
    BY <2>3, AfterAppendGrows
  <2>5. Grows(log, log')
    <3> HIDE DEF granted
    <3> QED
      BY <2>1, <2>2, <2>4, GrowsTransitive
  <2> QED
    BY <1>1, <1>3, <2>5, PublishingStep DEF DeliverUrl
<1>4. ASSUME NEW p \in Participants, NEW key \in DeliveryKeys, DeliverDirectly(p, key)
      PROVE  Handled
  <2>1. Grows(log, log')
    BY <1>4, AppendGrows DEF DeliverDirectly
  <2> QED
    BY <1>1, <1>4, <2>1, PublishingStep DEF DeliverDirectly
<1>5. ASSUME NEW g \in Accesses, NEW recorded \in BOOLEAN, Revoke(g, recorded)
      PROVE  Handled
  <2>1. Grows(log, log')
    BY <1>5, AfterAppendGrows, GrowsReflexive DEF Revoke
  <2> QED
    BY <1>1, <1>5, <2>1, PublishingStep DEF Revoke
<1>6. ASSUME NEW g \in Accesses, GrantNotRecorded(g) \/ Access(g) \/ AccessExpired(g)
      PROVE  Handled
  BY <1>1, <1>6, QuietStep DEF GrantNotRecorded, Access, AccessExpired
<1>7. CASE Tick
  BY <1>1, <1>7, QuietStep DEF Tick
<1> QED
  BY <1>2, <1>3, <1>4, <1>5, <1>6, <1>7 DEF ResourcesStep, AccessNext

LEMMA WebGetStepHandled ==
  ASSUME IsLog(log), WebGetNext, UNCHANGED <<start, request>>
  PROVE  Handled
<1>1. ASSUME NEW t \in Tokens, NEW p \in Participants, CreateSession(t, p)
      PROVE  Handled
  BY <1>1, QuietStep DEF CreateSession
<1>2. ASSUME NEW t \in Tokens, SessionExpires(t)
      PROVE  Handled
  BY <1>2, QuietStep DEF SessionExpires
<1>3. ASSUME NEW t \in Tokens, NEW total, NEW seq, NEW d, SubmitChunk(t, seq, total, d)
      PROVE  Handled
  BY <1>3, QuietStep DEF SubmitChunk
<1>4. ASSUME NEW t \in Tokens, Commit(t)
      PROVE  Handled
  <2>1. Grows(log, log')
    BY <1>4, AfterAppendGrows DEF Commit
  <2> QED
    BY <1>4, <2>1, PublishingStep DEF Commit
<1>5. ASSUME NEW t \in Tokens, NEW g \in Accesses, ReadResource(t, g)
      PROVE  Handled
  <2>1. Grows(log, log')
    BY <1>5, AppendGrows DEF ReadResource, AfterGrant
  <2> QED
    BY <1>5, <2>1, PublishingStep DEF ReadResource
<1> QED
  BY <1>1, <1>2, <1>3, <1>4, <1>5 DEF WebGetNext

LEMMA HttpMutationHandled ==
  ASSUME IsLog(log), HttpMutation
  PROVE  Handled
<1>1. PICK e \in CoreAppends(log) : log' = Append(log, e)
  BY DEF HttpMutation
<1>2. Grows(log, log') /\ Len(log') = Len(log) + 1
  BY <1>1, AppendGrows
<1>3. DOMAIN log = 1..Len(log) /\ DOMAIN log' = 1..Len(log') /\ Len(log) \in Nat
  BY <1>2, LogDomain DEF Grows, IsLog
<1>4. DOMAIN log' \ DOMAIN log = {Len(log')}
  BY <1>2, <1>3
<1> QED
  BY <1>2, <1>4 DEF HttpMutation, Publish, Handled

LEMMA SubmitStepHandled ==
  ASSUME IsLog(log), SubmitStep
  PROVE  Handled
<1>1. CASE WebGetNext /\ Aside
  BY <1>1, WebGetStepHandled DEF Aside
<1>2. CASE Tick /\ Aside
  BY <1>2, QuietStep DEF Tick, Aside
<1>3. CASE HttpMutation
  BY <1>3, HttpMutationHandled
<1> QED
  BY <1>1, <1>2, <1>3 DEF SubmitStep
-----------------------------------------------------------------------------
(***************************************************************************)
(* Every event is published or will be by a stage that is running.         *)
(***************************************************************************)
LogAndBusOK ==
  /\ IsLog(log)
  /\ start \in Nat
  /\ request \in [Requests -> [status : {"idle", "between", "running", "done"},
                              before : SUBSET Nat, stages : Nat]]

\* What a running stage saw when it began was in the log.
BeforeInLog == \A q \in Requests : request[q].before \subseteq DOMAIN log

\* A stage that is running publishes what it did not see when it began.
PublishedOrAwaited ==
  \A i \in (start + 1)..Len(log) :
    \/ i \in published
    \/ \E q \in Requests : request[q].status = "running" /\ i \notin request[q].before

BusInv == LogAndBusOK /\ BeforeInLog /\ PublishedOrAwaited

LEMMA BusInvInit == Init => BusInv
<1> SUFFICES ASSUME Init PROVE BusInv
  OBVIOUS
<1>1. /\ log = <<TopicContract, BatchOpened>> /\ start = 2
      /\ request = [q \in Requests |-> [status |-> "idle", before |-> {}, stages |-> 0]]
  BY DEF Init, BusInit
<1>2. Len(log) = 2 /\ IsLog(log)
  BY <1>1 DEF IsLog
<1>3. LogAndBusOK
  BY <1>1, <1>2 DEF LogAndBusOK
<1>4. BeforeInLog
  BY <1>1 DEF BeforeInLog
<1>5. PublishedOrAwaited
  BY <1>1, <1>2 DEF PublishedOrAwaited
<1> QED
  BY <1>3, <1>4, <1>5 DEF BusInv

LEMMA BusInvHandled ==
  ASSUME BusInv, Handled
  PROVE  BusInv'
<1>1. /\ DOMAIN log = 1..Len(log) /\ DOMAIN log' = 1..Len(log')
      /\ Len(log) \in Nat /\ Len(log') \in Nat /\ Len(log) <= Len(log')
  BY LogDomain DEF BusInv, LogAndBusOK, Handled, Grows, IsLog
<1>2. LogAndBusOK'
  BY DEF BusInv, LogAndBusOK, Handled, Grows
<1>3. BeforeInLog'
  BY <1>1 DEF BusInv, BeforeInLog, Handled
<1>4. PublishedOrAwaited'
  BY <1>1 DEF BusInv, LogAndBusOK, PublishedOrAwaited, Handled
<1> QED
  BY <1>2, <1>3, <1>4 DEF BusInv

LEMMA BusInvStartStage ==
  ASSUME BusInv, NEW q \in Requests, StartStage(q)
  PROVE  BusInv'
<1>1. /\ request' = [request EXCEPT ![q] = [status |-> "running", before |-> DOMAIN log,
                                            stages |-> request[q].stages + 1]]
      /\ request[q].status # "running"
      /\ UNCHANGED <<log, published, start>>
  BY DEF StartStage
<1>2. DOMAIN log \in SUBSET Nat
  BY LogDomain DEF BusInv, LogAndBusOK, IsLog
<1>3. LogAndBusOK'
  BY <1>1, <1>2 DEF BusInv, LogAndBusOK
<1>4. BeforeInLog'
  BY <1>1 DEF BusInv, BeforeInLog, LogAndBusOK
<1>5. PublishedOrAwaited'
  BY <1>1 DEF BusInv, PublishedOrAwaited, LogAndBusOK
<1> QED
  BY <1>3, <1>4, <1>5 DEF BusInv

LEMMA BusInvStageAppends ==
  ASSUME BusInv, NEW q \in Requests, StageAppends(q)
  PROVE  BusInv'
<1>1. PICK e \in CoreAppends(log) : log' = Append(log, e)
  BY DEF StageAppends
<1>2. /\ request[q].status = "running"
      /\ UNCHANGED <<published, start, request>>
  BY DEF StageAppends
<1>3. Grows(log, log') /\ Len(log') = Len(log) + 1
  BY <1>1, AppendGrows DEF BusInv, LogAndBusOK
<1>4. /\ DOMAIN log = 1..Len(log) /\ DOMAIN log' = 1..Len(log') /\ Len(log) \in Nat
  BY <1>3, LogDomain DEF BusInv, LogAndBusOK, Grows, IsLog
<1>5. LogAndBusOK'
  BY <1>2, <1>3 DEF BusInv, LogAndBusOK, Grows
<1>6. BeforeInLog'
  BY <1>2, <1>3, <1>4 DEF BusInv, BeforeInLog
<1>7. Len(log') \notin request[q].before
  BY <1>3, <1>4 DEF BusInv, BeforeInLog
<1>8. PublishedOrAwaited'
  BY <1>2, <1>3, <1>4, <1>7 DEF BusInv, PublishedOrAwaited, LogAndBusOK
<1> QED
  BY <1>5, <1>6, <1>8 DEF BusInv

\* A stage that ends, whichever way, publishes what it awaited.
LEMMA BusInvStageEnds ==
  ASSUME BusInv, NEW q \in Requests, NEW next \in {"between", "done"},
         PublishNewEvents(q),
         request' = [request EXCEPT ![q].status = next, ![q].before = {}],
         UNCHANGED <<log, start>>
  PROVE  BusInv'
<1>1. published' = published \cup (DOMAIN log \ request[q].before)
  BY DEF PublishNewEvents, Publish
<1>2. DOMAIN log = 1..Len(log) /\ Len(log) \in Nat
  BY LogDomain DEF BusInv, LogAndBusOK, IsLog
<1>3. LogAndBusOK'
  BY DEF BusInv, LogAndBusOK
<1>4. BeforeInLog'
  BY DEF BusInv, BeforeInLog, LogAndBusOK
<1>5. ASSUME NEW i \in (start + 1)..Len(log), i \notin published'
      PROVE  \E r \in Requests : request'[r].status = "running" /\ i \notin request'[r].before
  <2>1. i \in DOMAIN log /\ i \notin published /\ i \in request[q].before
    BY <1>1, <1>2, <1>5 DEF BusInv, LogAndBusOK
  <2>2. PICK r \in Requests : request[r].status = "running" /\ i \notin request[r].before
    BY <2>1 DEF BusInv, PublishedOrAwaited
  <2>3. r # q
    BY <2>1, <2>2
  <2>4. request'[r] = request[r]
    BY <2>3 DEF BusInv, LogAndBusOK
  <2> QED
    BY <2>2, <2>4
<1>6. PublishedOrAwaited'
  BY <1>5 DEF PublishedOrAwaited
<1> QED
  BY <1>3, <1>4, <1>6 DEF BusInv

LEMMA BusInvRestart ==
  ASSUME BusInv, Restart
  PROVE  BusInv'
<1>1. /\ UNCHANGED log
      /\ start' = Len(log)
      /\ request' = [q \in Requests |->
                       IF request[q].status = "running"
                         THEN [request[q] EXCEPT !.status = "done", !.before = {}]
                         ELSE request[q]]
  BY DEF Restart, BusRestart
<1>2. IsLog(log) /\ Len(log) \in Nat
  BY DEF BusInv, LogAndBusOK, IsLog
<1>3. LogAndBusOK'
  BY <1>1, <1>2 DEF BusInv, LogAndBusOK
<1>4. BeforeInLog'
  BY <1>1 DEF BusInv, BeforeInLog, LogAndBusOK
<1>5. PublishedOrAwaited'
  <2>1. log' = log /\ Len(log') = Len(log) /\ start' = Len(log)
    BY <1>1
  <2>2. \A i \in (start' + 1)..Len(log') : FALSE
    BY <1>2, <2>1
  <2> QED
    BY <2>2 DEF PublishedOrAwaited
<1> QED
  BY <1>3, <1>4, <1>5 DEF BusInv

LEMMA BusInvStep ==
  ASSUME BusInv, [Next]_vars
  PROVE  BusInv'
<1> USE DEF BusInv, LogAndBusOK
<1>1. CASE FollowStep
  <2>1. ASSUME NEW s \in Streams, Connect(s) \/ Abort(s) \/ LeaveLoop(s) \/ StartFollow(s)
        PROVE  BusInv'
    BY <2>1, QuietStep, BusInvHandled DEF Connect, Abort, LeaveLoop, StartFollow
  <2>2. ASSUME NEW q \in Requests, StartStage(q)
        PROVE  BusInv'
    BY <2>2, BusInvStartStage
  <2>3. ASSUME NEW q \in Requests, StageAppends(q)
        PROVE  BusInv'
    BY <2>3, BusInvStageAppends
  <2>4. ASSUME NEW q \in Requests, StageReturns(q) \/ StageThrows(q)
        PROVE  BusInv'
    BY <2>4, BusInvStageEnds DEF StageReturns, StageThrows
  <2>5. CASE HttpMutation
    BY <2>5, HttpMutationHandled, BusInvHandled
  <2>6. CASE StopFollow \/ HandleStreamEvent \/ AnswerQuery \/ ReadQuery \/ QueryFails
    BY <2>6, QuietStep, BusInvHandled
    DEF StopFollow, HandleStreamEvent, AnswerQuery, ReadQuery, QueryFails
  <2> QED
    BY <1>1, <2>1, <2>2, <2>3, <2>4, <2>5, <2>6 DEF FollowStep, BusNext
<1>2. CASE ResourcesStep
  BY <1>2, ResourcesStepHandled, BusInvHandled
<1>3. CASE SubmitStep
  BY <1>3, SubmitStepHandled, BusInvHandled
<1>4. CASE RunsStep
  BY <1>4, QuietStep, BusInvHandled DEF RunsStep, busVars
<1>5. CASE Restart
  BY <1>5, BusInvRestart
<1>6. CASE UNCHANGED vars
  BY <1>6, QuietStep, BusInvHandled DEF vars, busVars
<1> QED
  BY <1>1, <1>2, <1>3, <1>4, <1>5, <1>6 DEF Next

\* What NothingStaysUnpublished rests on: the log stays well formed, and every
\* event since the start is published or awaited by a stage that will publish
\* it, whichever handler of the daemon appended it.
THEOREM BusInvariant == Spec => []BusInv
BY BusInvInit, BusInvStep, PTL DEF Spec

(***************************************************************************)
(* However many requests run stages, overlap, fail and interleave with     *)
(* HTTP mutations, and whenever the daemon restarts: once no stage runs,   *)
(* everything the process appended has been published.                     *)
(***************************************************************************)
THEOREM NothingStaysUnpublished == Spec => []PublishedWhenQuiet
<1>1. BusInv => PublishedWhenQuiet
  BY DEF BusInv, PublishedOrAwaited, PublishedWhenQuiet
<1> QED
  BY <1>1, BusInvariant, PTL
-----------------------------------------------------------------------------
(***************************************************************************)
(* The run store's file is never ahead of its memory, nor what callers     *)
(* were told ahead of the file.                                            *)
(***************************************************************************)
FileBehindMemory ==
  \A r \in DOMAIN runFile : r \in DOMAIN runsById /\ runFile[r] <= runsById[r]

RecordsAreNumbers ==
  /\ \A r \in DOMAIN runsById : runsById[r] \in Nat
  /\ \A r \in DOMAIN runFile : runFile[r] \in Nat
  /\ \A r \in DOMAIN acked : acked[r] \in Nat

RunsInv == RecordsAreNumbers /\ FileBehindMemory /\ RunsSurvive

LEMMA RunsInvPersisted ==
  ASSUME RunsInv, NEW r, NEW n \in Nat, Persisted(r, n),
         contracts \subseteq contracts', r \in contracts',
         r \in DOMAIN runsById => runsById[r] <= n
  PROVE  RunsInv'
<1>1. /\ DOMAIN runsById' = DOMAIN runsById \cup {r}
      /\ runsById'[r] = n
      /\ \A x \in DOMAIN runsById : x # r => runsById'[x] = runsById[x]
  BY DEF Persisted, Set
<1>2. /\ DOMAIN acked' = DOMAIN acked \cup {r}
      /\ acked'[r] = n
      /\ \A x \in DOMAIN acked : x # r => acked'[x] = acked[x]
  BY DEF Persisted, Set
<1>3. runFile' = runsById'
  BY DEF Persisted
<1> USE DEF RunsInv, RecordsAreNumbers, FileBehindMemory, RunsSurvive
<1>4. RecordsAreNumbers'
  BY <1>1, <1>2, <1>3
<1>5. FileBehindMemory'
  BY <1>1, <1>3, <1>4
<1>6. ASSUME NEW x \in DOMAIN acked'
      PROVE  x \in DOMAIN runFile' /\ runFile'[x] >= acked'[x]
  <2>1. CASE x = r
    BY <1>1, <1>2, <1>3, <2>1
  <2>2. CASE x # r
    <3>1. x \in DOMAIN acked /\ acked'[x] = acked[x]
      BY <1>2, <2>2
    <3>2. x \in DOMAIN runFile /\ runFile[x] >= acked[x] /\ runFile[x] <= runsById[x]
      BY <3>1
    <3>3. x \in DOMAIN runsById /\ runFile'[x] = runsById[x]
      BY <1>1, <1>3, <2>2, <3>2
    <3> QED
      BY <1>1, <1>3, <3>1, <3>2, <3>3
  <2> QED
    BY <2>1, <2>2
<1>7. RunsSurvive'
  BY <1>1, <1>3, <1>6
<1> QED
  BY <1>4, <1>5, <1>7

LEMMA RunsInvNotPersisted ==
  ASSUME RunsInv, NEW r, NEW n \in Nat, NotPersisted(r, n),
         contracts \subseteq contracts', r \in contracts',
         r \in DOMAIN runsById => runsById[r] <= n
  PROVE  RunsInv'
<1>1. UNCHANGED <<runFile, acked>>
  BY DEF NotPersisted
<1> USE DEF RunsInv, RecordsAreNumbers, FileBehindMemory, RunsSurvive
<1>2. CASE runStore = "json"
  <2>1. /\ DOMAIN runsById' = DOMAIN runsById \cup {r}
        /\ runsById'[r] = n
        /\ \A x \in DOMAIN runsById : x # r => runsById'[x] = runsById[x]
    BY <1>2 DEF NotPersisted, Set
  <2>2. RecordsAreNumbers'
    BY <1>1, <2>1
  <2>3. ASSUME NEW x \in DOMAIN runFile
        PROVE  x \in DOMAIN runsById' /\ runFile[x] <= runsById'[x]
    <3>1. CASE x = r
      BY <2>1, <3>1
    <3>2. CASE x # r
      BY <2>1, <3>2
    <3> QED
      BY <3>1, <3>2
  <2> QED
    BY <1>1, <2>1, <2>2, <2>3
<1>3. CASE runStore # "json"
  BY <1>1, <1>3 DEF NotPersisted
<1> QED
  BY <1>2, <1>3

LEMMA RunsInvCrash ==
  ASSUME RunsInv, RunsCrash
  PROVE  RunsInv'
<1>1. PICK r \in Runs, n \in 0..MaxUpdates : CrashWithin(r, n)
  BY DEF RunsCrash
<1>2. n \in Nat /\ runsById' = runFile' /\ acked' = acked /\ contracts \subseteq contracts'
  BY <1>1, MaxUpdatesAssumption DEF CrashWithin
<1> USE DEF RunsInv, RecordsAreNumbers, FileBehindMemory, RunsSurvive
<1>3. CASE UNCHANGED runFile
  BY <1>2, <1>3
<1>4. CASE /\ n > 0 => r \in DOMAIN runsById /\ n = runsById[r] + 1
           /\ n = 0 => r \notin contracts
           /\ contracts' = contracts \cup {r}
           /\ runFile' = Set(r, n, runsById)
  <2>1. /\ DOMAIN runFile' = DOMAIN runsById \cup {r}
        /\ runFile'[r] = n
        /\ \A x \in DOMAIN runsById : x # r => runFile'[x] = runsById[x]
    BY <1>4 DEF Set
  <2>2. RecordsAreNumbers' /\ FileBehindMemory'
    BY <1>2, <2>1
  <2>3. r \in DOMAIN runsById => n = runsById[r] + 1
    BY <1>2, <1>4
  <2>4. ASSUME NEW x \in DOMAIN acked
        PROVE  x \in DOMAIN runFile' /\ runFile'[x] >= acked[x]
    <3>1. /\ x \in DOMAIN runFile /\ runFile[x] >= acked[x] /\ runFile[x] <= runsById[x]
          /\ x \in DOMAIN runsById
          /\ acked[x] \in Nat /\ runFile[x] \in Nat /\ runsById[x] \in Nat
      BY <2>4
    <3>2. CASE x = r
      BY <1>2, <2>1, <2>3, <3>1, <3>2
    <3>3. CASE x # r
      BY <2>1, <3>1, <3>3
    <3> QED
      BY <3>2, <3>3
  <2>5. RunsSurvive'
    BY <1>2, <1>4, <2>1, <2>4
  <2> QED
    BY <2>2, <2>5
<1> QED
  BY <1>1, <1>3, <1>4 DEF CrashWithin

(***************************************************************************)
(* Whatever writes fail and wherever the process dies: a run a caller was  *)
(* told of is in the file, as new as it was told, and every run has its    *)
(* topic contract in the ledger.                                           *)
(***************************************************************************)
THEOREM RunsAreSafe == Spec => []RunsSurvive
<1>1. Init => RunsInv
  BY DEF Init, RunsInit, NoRuns, RunsInv, RecordsAreNumbers, FileBehindMemory, RunsSurvive
<1>2. RunsInv /\ [Next]_vars => RunsInv'
  <2> SUFFICES ASSUME RunsInv, [Next]_vars PROVE RunsInv'
    OBVIOUS
  <2>1. ASSUME NEW r \in Runs, CreateRun(r) PROVE RunsInv'
    <3>1. r \notin DOMAIN runsById
      BY <2>1 DEF CreateRun, RunsInv, RunsSurvive
    <3>2. contracts \subseteq contracts' /\ r \in contracts'
      BY <2>1 DEF CreateRun
    <3> QED
      BY <2>1, <3>1, <3>2, RunsInvPersisted, RunsInvNotPersisted DEF CreateRun
  <2>2. ASSUME NEW r \in Runs, UpdateRun(r) PROVE RunsInv'
    <3>1. /\ r \in DOMAIN runsById /\ runsById[r] \in Nat
          /\ contracts' = contracts /\ r \in contracts
      BY <2>2 DEF UpdateRun, RunsInv, RunsSurvive, RecordsAreNumbers
    <3> DEFINE n == runsById[r] + 1
    <3>2. n \in Nat /\ runsById[r] <= n
      BY <3>1
    <3>3. Persisted(r, n) \/ NotPersisted(r, n)
      BY <2>2 DEF UpdateRun
    <3> HIDE DEF n
    <3> QED
      BY <3>1, <3>2, <3>3, RunsInvPersisted, RunsInvNotPersisted
  <2>3. CASE UNCHANGED runVars
    BY <2>3 DEF runVars, RunsInv, RecordsAreNumbers, FileBehindMemory, RunsSurvive
  <2>4. RunsCrash => RunsInv'
    BY RunsInvCrash
  <2> QED
    BY <2>1, <2>2, <2>3, <2>4
    DEF Next, vars, FollowStep, ResourcesStep, SubmitStep, RunsStep, Restart
<1>3. RunsInv => RunsSurvive
  BY DEF RunsInv
<1> QED
  BY <1>1, <1>2, <1>3, PTL DEF Spec
-----------------------------------------------------------------------------
(***************************************************************************)
(* A committed WebGET session has its participant's only contribution.     *)
(***************************************************************************)
SessionsShape ==
  /\ DOMAIN webget = Tokens
  /\ \A t \in Tokens :
       /\ DOMAIN webget[t] = {"status", "participant", "chunks", "expiresAt", "committed", "reports"}
       /\ webget[t].participant \in Participants \cup {NoKey}

OneContributionEach ==
  \A i, j \in Contributions(log) : log[i].author = log[j].author => i = j

CommitInv == IsLog(log) /\ SessionsShape /\ OneContributionEach /\ CommittedIsRecorded

\* The events a step adds satisfy nothing but their place behind the log.
LEMMA NewPositions ==
  ASSUME NEW l, IsLog(l), NEW e
  PROVE  \A i \in DOMAIN Append(l, e) : i \in DOMAIN l \/ Append(l, e)[i] = e
<1>1. Len(Append(l, e)) = Len(l) + 1 /\ Append(l, e)[Len(l) + 1] = e /\ IsLog(Append(l, e))
  BY AppendGrows DEF Grows
<1>2. DOMAIN l = 1..Len(l) /\ DOMAIN Append(l, e) = 1..(Len(l) + 1) /\ Len(l) \in Nat
  BY <1>1, LogDomain DEF IsLog
<1> QED
  BY <1>1, <1>2

\* What grows keeps its positions and their events.
LEMMA KeptPositions ==
  ASSUME NEW l, NEW m, IsLog(l), Grows(l, m)
  PROVE  DOMAIN l \subseteq DOMAIN m /\ \A i \in DOMAIN l : m[i] = l[i]
<1>1. DOMAIN l = 1..Len(l) /\ DOMAIN m = 1..Len(m) /\ Len(l) \in Nat /\ Len(m) \in Nat
      /\ Len(l) <= Len(m)
  BY LogDomain DEF Grows, IsLog
<1> QED
  BY <1>1 DEF Grows

\* A step adds no contribution.
NoContribution ==
  /\ Grows(log, log')
  /\ \A i \in DOMAIN log' : i \in DOMAIN log \/ log'[i].type # "sealed_contribution_submitted"

LEMMA NoContributionKeeps ==
  ASSUME IsLog(log), NoContribution
  PROVE  /\ Contributions(log') = Contributions(log)
         /\ \A i \in Contributions(log) : log'[i] = log[i]
BY KeptPositions DEF NoContribution, Contributions, OfType

\* Such a step preserves the invariant when it commits no session and leaves
\* those that are committed as they are.
LEMMA CommitInvQuiet ==
  ASSUME CommitInv, NoContribution, SessionsShape',
         \A t \in Tokens : webget'[t].committed =>
           /\ webget[t].committed
           /\ webget'[t].participant = webget[t].participant
           /\ webget'[t].chunks = webget[t].chunks
  PROVE  CommitInv'
<1>1. /\ Contributions(log') = Contributions(log)
      /\ \A i \in Contributions(log) : log'[i] = log[i]
  BY NoContributionKeeps DEF CommitInv
<1>2. OneContributionEach'
  BY <1>1 DEF CommitInv, OneContributionEach
<1>3. ASSUME NEW t \in Tokens, webget'[t].committed
      PROVE  Content(t)' = Content(t)
  BY <1>3 DEF Content, Chunks
<1>4. CommittedIsRecorded'
  BY <1>1, <1>3 DEF CommitInv, CommittedIsRecorded
<1> QED
  BY <1>2, <1>4 DEF CommitInv, NoContribution, Grows

\* The core accepts a contribution only of a participant that has none.
LEMMA CommitInvCoreAppends ==
  ASSUME CommitInv, NEW e \in CoreAppends(log), log' = Append(log, e), UNCHANGED webget
  PROVE  CommitInv'
<1>1. Grows(log, log') /\ \A i \in DOMAIN log' : i \in DOMAIN log \/ log'[i] = e
  BY AppendGrows, NewPositions DEF CommitInv
<1>2. SessionsShape'
  BY DEF CommitInv, SessionsShape
<1>3. CASE e.type # "sealed_contribution_submitted"
  <2>1. NoContribution
    BY <1>1, <1>3 DEF NoContribution
  <2> QED
    BY <1>2, <2>1, CommitInvQuiet
<1>4. CASE e.type = "sealed_contribution_submitted"
  <2>1. PICK p \in Participants :
          ~ContributedBy(log, p) /\ e = Contribution(p, NoKey, [content |-> <<>>])
    BY <1>4 DEF CoreAppends, Proposal, Reveal
  <2>2. e.author = p
    BY <2>1 DEF Contribution
  <2>3. \A i \in Contributions(log) : log[i].author # p
    BY <2>1 DEF ContributedBy
  <2>4. DOMAIN log \subseteq DOMAIN log' /\ \A i \in DOMAIN log : log'[i] = log[i]
    BY <1>1, KeptPositions DEF CommitInv
  <2>5. /\ Contributions(log) \subseteq Contributions(log')
        /\ \A i \in Contributions(log) : log'[i] = log[i]
        /\ \A i \in Contributions(log') : i \in Contributions(log) \/ log'[i].author = p
    BY <1>1, <2>2, <2>4 DEF Contributions, OfType
  <2>6. \A i, j \in Contributions(log') :
          i \notin Contributions(log) /\ j \notin Contributions(log) => i = j
    <3>1. Len(log') = Len(log) + 1 /\ Len(log) \in Nat
      BY AppendGrows DEF CommitInv, IsLog
    <3>2. DOMAIN log = 1..Len(log) /\ DOMAIN log' = 1..Len(log')
      BY <1>1, LogDomain DEF CommitInv, Grows
    <3>3. \A i \in Contributions(log') : i \in DOMAIN log => i \in Contributions(log)
      BY <2>4 DEF Contributions, OfType
    <3>4. Contributions(log') \subseteq DOMAIN log'
      BY DEF Contributions, OfType
    <3> QED
      BY <3>1, <3>2, <3>3, <3>4
  <2>7. \A i, j \in Contributions(log') : log'[i].author = log'[j].author => i = j
    <3> SUFFICES ASSUME NEW i \in Contributions(log'), NEW j \in Contributions(log'),
                        log'[i].author = log'[j].author
                 PROVE  i = j
      OBVIOUS
    <3>1. CASE i \in Contributions(log) /\ j \in Contributions(log)
      BY <2>5, <3>1 DEF CommitInv, OneContributionEach
    <3>2. CASE i \in Contributions(log) /\ j \notin Contributions(log)
      BY <2>3, <2>5, <3>2
    <3>3. CASE i \notin Contributions(log) /\ j \in Contributions(log)
      BY <2>3, <2>5, <3>3
    <3> QED
      BY <2>6, <3>1, <3>2, <3>3
  <2>8. CommittedIsRecorded'
    <3>1. ASSUME NEW t \in Tokens, webget'[t].committed
          PROVE  \E i \in Contributions(log') :
                   /\ log'[i].author = webget'[t].participant
                   /\ log'[i].body.content = Content(t)'
                   /\ \A j \in Contributions(log') : log'[j].author = log'[i].author => j = i
      <4>1. Content(t)' = Content(t) /\ webget'[t] = webget[t]
        BY DEF Content, Chunks
      <4>2. PICK i \in Contributions(log) :
              log[i].author = webget[t].participant /\ log[i].body.content = Content(t)
        BY <3>1, <4>1 DEF CommitInv, CommittedIsRecorded
      <4>3. i \in Contributions(log') /\ log'[i] = log[i]
        BY <2>5
      <4>4. \A j \in Contributions(log') : log'[j].author = log'[i].author => j = i
        BY <2>7, <4>3
      <4> QED
        BY <4>1, <4>2, <4>3, <4>4
    <3> QED
      BY <3>1 DEF CommittedIsRecorded
  <2>9. OneContributionEach'
    BY <2>7 DEF OneContributionEach
  <2> QED
    BY <1>1, <1>2, <2>8, <2>9 DEF CommitInv, Grows
<1> QED
  BY <1>3, <1>4

\* A commit records the contribution, or finds the one recorded under its key.
LEMMA CommitInvCommit ==
  ASSUME CommitInv, NEW t \in Tokens, Commit(t)
  PROVE  CommitInv'
<1> DEFINE e == CommittedContribution(t)
<1>1. /\ e.type = "sealed_contribution_submitted" /\ e.key = CommitKey(t)
      /\ e.author = webget[t].participant /\ e.body.content = Content(t)
      /\ "author" \in DOMAIN e /\ "body" \in DOMAIN e
  BY DEF CommittedContribution, Contribution
<1>2. e.key # NoKey
  BY <1>1, CommitKeyAssumption DEF CommitKey, CommitInv, SessionsShape
<1>3. /\ MayContribute(e) /\ ~IsConflict(log, e)
      /\ log' = AfterAppend(log, e)
      /\ webget' = [webget EXCEPT ![t].committed = TRUE]
  BY DEF Commit
<1>4. SessionsShape'
  BY <1>3 DEF CommitInv, SessionsShape
<1>5. \A u \in Tokens : /\ webget'[u].participant = webget[u].participant
                        /\ webget'[u].chunks = webget[u].chunks
                        /\ u # t => webget'[u].committed = webget[u].committed
  BY <1>3 DEF CommitInv, SessionsShape
<1>6. \A u \in Tokens : Content(u)' = Content(u)
  BY <1>5 DEF Content, Chunks
<1>7. Grows(log, log') /\ \A i \in DOMAIN log' : i \in DOMAIN log \/ log'[i] = e
  BY <1>3, AfterAppendGrows DEF CommitInv
<1>8. DOMAIN log \subseteq DOMAIN log' /\ \A i \in DOMAIN log : log'[i] = log[i]
  BY <1>7, KeptPositions DEF CommitInv
<1>9. OneContributionEach' /\ \E i \in Contributions(log') : log'[i].author = e.author
                                                             /\ log'[i].body = e.body
  <2>1. CASE IsNew(log, e)
    <3>1. log' = Append(log, e) /\ Len(log') = Len(log) + 1 /\ log'[Len(log) + 1] = e
      BY <1>3, <2>1, AppendGrows DEF AfterAppend, CommitInv
    <3>2. DOMAIN log = 1..Len(log) /\ DOMAIN log' = 1..(Len(log) + 1) /\ Len(log) \in Nat
      BY <1>7, <3>1, LogDomain DEF CommitInv, Grows, IsLog
    <3>3. \A i \in Contributions(log) : log[i].author # e.author
      BY <1>2, <1>3, <2>1 DEF MayContribute, IsNew, KeyHolders, Contributions, OfType
    <3>4. /\ Contributions(log') = Contributions(log) \cup {Len(log) + 1}
          /\ \A i \in Contributions(log) : log'[i] = log[i]
      BY <1>1, <1>8, <3>1, <3>2 DEF Contributions, OfType
    <3>5. \A i, j \in Contributions(log') : log'[i].author = log'[j].author => i = j
      <4>1. \A i, j \in Contributions(log) : log'[i].author = log'[j].author => i = j
        BY <3>4 DEF CommitInv, OneContributionEach
      <4>2. \A i \in Contributions(log) : log'[i].author # log'[Len(log) + 1].author
        BY <3>1, <3>3, <3>4
      <4> QED
        BY <3>4, <4>1, <4>2
    <3> QED
      BY <3>1, <3>4, <3>5 DEF OneContributionEach
  <2>2. CASE ~IsNew(log, e)
    <3>1. log' = log
      BY <1>3, <2>2 DEF AfterAppend
    <3>2. PICK i \in Replays(log, e) : TRUE
      BY <1>3, <2>2 DEF IsConflict, IsReplay
    <3>3. i \in DOMAIN log /\ log[i].type = e.type /\ Comparable(log[i]) = Comparable(e)
      BY <3>2 DEF Replays, KeyHolders, IsCompatible
    <3>4. "author" \notin GeneratedFields(e) /\ "body" \notin GeneratedFields(e)
      BY DEF GeneratedFields
    <3>5. /\ "author" \in DOMAIN Comparable(e) /\ Comparable(e)["author"] = e.author
          /\ "body" \in DOMAIN Comparable(e) /\ Comparable(e)["body"] = e.body
      BY <1>1, <3>4 DEF Comparable
    <3>6. log[i].author = e.author /\ log[i].body = e.body
      BY <3>3, <3>5 DEF Comparable
    <3>7. i \in Contributions(log)
      BY <1>1, <3>3 DEF Contributions, OfType
    <3> QED
      BY <3>1, <3>6, <3>7 DEF CommitInv, OneContributionEach
  <2> QED
    BY <2>1, <2>2
<1>10. ASSUME NEW u \in Tokens, webget'[u].committed
       PROVE  \E i \in Contributions(log') :
                /\ log'[i].author = webget'[u].participant
                /\ log'[i].body.content = Content(u)'
                /\ \A j \in Contributions(log') : log'[j].author = log'[i].author => j = i
  <2>1. \A i, j \in Contributions(log') : log'[j].author = log'[i].author => j = i
    BY <1>9 DEF OneContributionEach
  <2>2. CASE u = t
    <3>1. PICK i \in Contributions(log') : log'[i].author = e.author /\ log'[i].body = e.body
      BY <1>9
    <3>2. log'[i].author = webget'[u].participant /\ log'[i].body.content = Content(u)'
      BY <1>1, <1>5, <1>6, <2>2, <3>1
    <3> QED
      BY <2>1, <3>2
  <2>3. CASE u # t
    <3>1. webget[u].committed
      BY <1>5, <1>10, <2>3
    <3>2. PICK i \in Contributions(log) :
            log[i].author = webget[u].participant /\ log[i].body.content = Content(u)
      BY <3>1 DEF CommitInv, CommittedIsRecorded
    <3>3. i \in Contributions(log') /\ log'[i] = log[i]
      BY <1>8 DEF Contributions, OfType
    <3>4. log'[i].author = webget'[u].participant /\ log'[i].body.content = Content(u)'
      BY <1>5, <1>6, <3>2, <3>3
    <3> QED
      BY <2>1, <3>3, <3>4
  <2> QED
    BY <2>2, <2>3
<1>11. CommittedIsRecorded'
  BY <1>10 DEF CommittedIsRecorded
<1> QED
  BY <1>4, <1>7, <1>9, <1>11 DEF CommitInv, Grows

\* The other steps of WebGET sessions, of access grants and of the bus.
LEMMA GrantsAddNoContribution ==
  ASSUME IsLog(log), ResourcesStep
  PROVE  NoContribution
<1>1. Grows(log, log')
  BY ResourcesStepHandled DEF Handled
<1>2. ASSUME NEW g \in Accesses, NEW p \in Participants, PlanNotRecorded(g, p)
      PROVE  NoContribution
  BY <1>1, <1>2, NewPositions DEF PlanNotRecorded, AfterGrant, GrantCreated, NoContribution
<1>3. ASSUME NEW g \in Accesses, NEW p \in Participants,
             NEW key \in DeliveryKeys \cup {NoKey}, DeliverUrl(g, p, key)
      PROVE  NoContribution
  <2> DEFINE granted == AfterGrant(g, p)
             plan == DeliveryPlanned(p, key, "url")
  <2>1. IsLog(granted)
    BY AppendGrows DEF AfterGrant, Grows
  <2>2. \A i \in DOMAIN granted : i \in DOMAIN log \/ granted[i].type = "resource_access_grant_created"
    BY NewPositions DEF AfterGrant, GrantCreated
  <2>3. log' = AfterAppend(granted, plan)
    BY <1>3 DEF DeliverUrl
  <2>4. plan.type = "resource_delivery_planned"
    BY DEF DeliveryPlanned
  <2> HIDE DEF granted, plan
  <2>5. Grows(granted, log') /\ \A i \in DOMAIN log' : i \in DOMAIN granted \/ log'[i] = plan
    BY <2>1, <2>3, AfterAppendGrows
  <2>6. \A i \in DOMAIN granted : log'[i] = granted[i]
    BY <2>1, <2>5, KeptPositions
  <2> QED
    BY <1>1, <2>2, <2>4, <2>5, <2>6 DEF NoContribution
<1>4. ASSUME NEW p \in Participants, NEW key \in DeliveryKeys, DeliverDirectly(p, key)
      PROVE  NoContribution
  BY <1>1, <1>4, NewPositions DEF DeliverDirectly, DeliveryPlanned, NoContribution
<1>5. ASSUME NEW g \in Accesses, NEW recorded \in BOOLEAN, Revoke(g, recorded)
      PROVE  NoContribution
  BY <1>1, <1>5, AfterAppendGrows DEF Revoke, GrantRevoked, NoContribution
<1>6. CASE UNCHANGED log
  BY <1>1, <1>6 DEF NoContribution
<1> QED
  BY <1>2, <1>3, <1>4, <1>5, <1>6
  DEF ResourcesStep, AccessNext, GrantNotRecorded, Access, AccessExpired, Tick

LEMMA CommitInvWebGet ==
  ASSUME CommitInv, WebGetNext, UNCHANGED <<start, request>>
  PROVE  CommitInv'
<1>1. Grows(log, log')
  BY WebGetStepHandled DEF CommitInv, Handled
<1> USE DEF SessionsShape, NoSession
<1>2. ASSUME NEW t \in Tokens, NEW p \in Participants, CreateSession(t, p)
      PROVE  CommitInv'
  <2>1. NoContribution
    BY <1>1, <1>2 DEF CreateSession, NoContribution
  <2> QED
    BY <1>2, <2>1, CommitInvQuiet DEF CreateSession, CommitInv
<1>3. ASSUME NEW t \in Tokens, SessionExpires(t)
      PROVE  CommitInv'
  <2>1. NoContribution
    BY <1>1, <1>3 DEF SessionExpires, NoContribution
  <2> QED
    BY <1>3, <2>1, CommitInvQuiet DEF SessionExpires, CommitInv
<1>4. ASSUME NEW t \in Tokens, NEW total, NEW seq, NEW d, SubmitChunk(t, seq, total, d)
      PROVE  CommitInv'
  <2>1. NoContribution
    BY <1>1, <1>4 DEF SubmitChunk, NoContribution
  <2>2. SessionsShape'
    BY <1>4 DEF SubmitChunk, CommitInv
  <2>3. ASSUME NEW u \in Tokens, webget'[u].committed
        PROVE  /\ webget[u].committed
               /\ webget'[u].participant = webget[u].participant
               /\ webget'[u].chunks = webget[u].chunks
    <3>1. CASE u = t
      BY <1>4, <2>3, <3>1 DEF SubmitChunk, CommitInv
    <3>2. CASE u # t
      BY <1>4, <2>3, <3>2 DEF SubmitChunk, CommitInv
    <3> QED
      BY <3>1, <3>2
  <2> QED
    BY <2>1, <2>2, <2>3, CommitInvQuiet
<1>5. ASSUME NEW t \in Tokens, Commit(t)
      PROVE  CommitInv'
  BY <1>5, CommitInvCommit
<1>6. ASSUME NEW t \in Tokens, NEW g \in Accesses, ReadResource(t, g)
      PROVE  CommitInv'
  <2>1. NoContribution
    BY <1>1, <1>6, NewPositions
    DEF ReadResource, AfterGrant, GrantCreated, NoContribution, CommitInv
  <2> QED
    BY <1>6, <2>1, CommitInvQuiet DEF ReadResource, CommitInv
<1> QED
  BY <1>2, <1>3, <1>4, <1>5, <1>6 DEF WebGetNext

LEMMA CommitInvStep ==
  ASSUME CommitInv, [Next]_vars
  PROVE  CommitInv'
<1>1. ASSUME UNCHANGED <<log, webget>>
      PROVE  CommitInv'
  BY <1>1 DEF CommitInv, SessionsShape, OneContributionEach, CommittedIsRecorded, Content, Chunks
<1>2. CASE FollowStep
  <2>1. UNCHANGED webget
    BY <1>2 DEF FollowStep
  <2>2. ASSUME HttpMutation \/ \E q \in Requests : StageAppends(q)
        PROVE  CommitInv'
    BY <2>1, <2>2, CommitInvCoreAppends DEF HttpMutation, StageAppends
  <2> QED
    BY <1>1, <1>2, <2>1, <2>2
    DEF FollowStep, BusNext, Connect, Abort, LeaveLoop, StartFollow, StartStage, StageReturns,
        StageThrows, StopFollow, HandleStreamEvent, AnswerQuery, ReadQuery, QueryFails
<1>3. CASE ResourcesStep
  BY <1>3, GrantsAddNoContribution, CommitInvQuiet DEF ResourcesStep, CommitInv, SessionsShape
<1>4. CASE SubmitStep
  <2>1. CASE WebGetNext /\ Aside
    BY <2>1, CommitInvWebGet DEF Aside
  <2>2. CASE Tick /\ UNCHANGED webget
    BY <1>1, <2>2 DEF Tick
  <2>3. CASE HttpMutation /\ UNCHANGED webget
    BY <2>3, CommitInvCoreAppends DEF HttpMutation
  <2> QED
    BY <1>4, <2>1, <2>2, <2>3 DEF SubmitStep
<1>5. CASE RunsStep \/ UNCHANGED vars
  BY <1>1, <1>5 DEF RunsStep, vars, busVars
<1>6. CASE Restart
  <2>1. NoContribution
    BY <1>6, GrowsReflexive DEF Restart, NoContribution, CommitInv
  <2>2. /\ webget' = [t \in Tokens |-> IF webget[t].status = "unused" THEN NoSession
                                      ELSE [NoSession EXCEPT !.status = "gone"]]
    BY <1>6 DEF Restart, WebGetRestart
  <2> QED
    BY <2>1, <2>2, CommitInvQuiet DEF SessionsShape, NoSession
<1> QED
  BY <1>2, <1>3, <1>4, <1>5, <1>6 DEF Next

LEMMA CommitInvInit == Init => CommitInv
<1> SUFFICES ASSUME Init PROVE CommitInv
  OBVIOUS
<1>1. log = <<TopicContract, BatchOpened>> /\ webget = [t \in Tokens |-> NoSession]
  BY DEF Init, BusInit, WebGetInit
<1>2. IsLog(log) /\ Contributions(log) = {}
  BY <1>1 DEF IsLog, Contributions, OfType, TopicContract, BatchOpened
<1> QED
  BY <1>1, <1>2 DEF CommitInv, SessionsShape, NoSession, OneContributionEach, CommittedIsRecorded

(***************************************************************************)
(* However many tokens a participant holds, and whatever it contributes    *)
(* over HTTP or in a run: a committed session has its participant's only   *)
(* contribution in the ledger, with the content that was submitted.        *)
(***************************************************************************)
THEOREM CommitsAreRecorded == Spec => []CommittedIsRecorded
<1>1. CommitInv => CommittedIsRecorded
  BY DEF CommitInv
<1> QED
  BY <1>1, CommitInvInit, CommitInvStep, PTL DEF Spec

-----------------------------------------------------------------------------
(***************************************************************************)
(* An open stream keeps its place on the event bus, for any number of      *)
(* streams, unless it came in the last second of another one: the second   *)
(* call of an unsubscribe is harmless as long as the set it remembers is   *)
(* the one the bus holds.  TLC finds what happens when it is not (the run  *)
(* stream_lost).                                                           *)
(***************************************************************************)

StreamStates == {"unused", "connecting", "open", "aborted", "closed"}

StreamsTyped ==
  /\ DOMAIN stream = Streams
  /\ \A s \in Streams :
       /\ DOMAIN stream[s] = {"status", "home", "late", "sent"}
       /\ stream[s].status \in StreamStates
       /\ stream[s].late \in BOOLEAN

\* The bus holds one of the sets there are, or none.
SetsTyped ==
  /\ Len(listeners) \in Nat
  /\ listeners \in [1..Len(listeners) -> SUBSET Streams]
  /\ entry \in 0..Len(listeners)

\* A stream is in no set but its own, and in that only while it is open.
InOwnSet ==
  \A h \in 1..Len(listeners) : \A s \in listeners[h] :
    stream[s].status = "open" /\ stream[s].home = h

\* A stream that has subscribed names a set.
HomeIsSet ==
  \A s \in Streams : stream[s].status \in {"open", "aborted"} =>
    stream[s].home \in 1..Len(listeners)

\* While a stream that did not come late is open, the bus holds the set of all
\* that are open or being closed, and the open ones are in it.
OneSetInUse ==
  \A s \in Streams : stream[s].status = "open" /\ ~stream[s].late =>
    /\ entry # 0
    /\ \A r \in Streams :
         /\ stream[r].status \in {"open", "aborted"} => stream[r].home = entry
         /\ stream[r].status = "open" => r \in listeners[entry]

StreamsInv == StreamsTyped /\ SetsTyped /\ InOwnSet /\ HomeIsSet /\ OneSetInUse

\* Publishing changes no stream's place.
LEMMA StreamsInvPublish ==
  ASSUME StreamsInv, NEW l, NEW ids, Publish(l, ids), UNCHANGED <<listeners, entry>>
  PROVE  StreamsInv'
<1>1. /\ DOMAIN stream' = Streams
      /\ \A s \in Streams :
           /\ DOMAIN stream'[s] = {"status", "home", "late", "sent"}
           /\ stream'[s].status = stream[s].status
           /\ stream'[s].home = stream[s].home
           /\ stream'[s].late = stream[s].late
  BY DEF Publish, StreamsInv, StreamsTyped
<1> QED
  BY <1>1 DEF StreamsInv, StreamsTyped, SetsTyped, InOwnSet, HomeIsSet, OneSetInUse

\* A stream whose frames or whose state outside the bus change.
LEMMA StreamsInvSame ==
  ASSUME StreamsInv, UNCHANGED <<listeners, entry>>, StreamsTyped',
         \A s \in Streams :
           /\ stream'[s].status = stream[s].status
              \/ {stream[s].status, stream'[s].status} \cap {"open", "aborted"} = {}
           /\ stream'[s].home = stream[s].home
           /\ stream'[s].late = stream[s].late
  PROVE  StreamsInv'
<1>1. \A s \in Streams : \A status \in {"open", "aborted"} :
        stream'[s].status = status <=> stream[s].status = status
  OBVIOUS
<1>2. SetsTyped' /\ \A h \in 1..Len(listeners) : listeners[h] \subseteq Streams
  BY DEF StreamsInv, SetsTyped
<1>3. InOwnSet'
  BY <1>1, <1>2 DEF StreamsInv, InOwnSet
<1>4. HomeIsSet'
  BY <1>1 DEF StreamsInv, HomeIsSet
<1>5. OneSetInUse'
  BY <1>1 DEF StreamsInv, OneSetInUse
<1> QED
  BY <1>2, <1>3, <1>4, <1>5 DEF StreamsInv

LEMMA StreamsInvConnect ==
  ASSUME StreamsInv, NEW s \in Streams, Connect(s)
  PROVE  StreamsInv'
<1> DEFINE home == IF entry = 0 THEN Len(listeners) + 1 ELSE entry
           late == \E r \in Streams : \/ stream[r].status = "aborted"
                                      \/ stream[r].status = "open" /\ r \notin Listening
<1>1. /\ stream[s].status = "connecting"
      /\ entry' = home
      /\ listeners' = IF entry = 0 THEN Append(listeners, {s})
                      ELSE [listeners EXCEPT ![entry] = listeners[entry] \cup {s}]
      /\ stream' = [stream EXCEPT ![s].status = "open", ![s].home = home, ![s].late = late]
  BY DEF Connect, Subscribe
<1>2. /\ late \in BOOLEAN
      /\ ~late => \A r \in Streams : /\ stream[r].status # "aborted"
                                     /\ stream[r].status = "open" => r \in Listening
  OBVIOUS
<1> HIDE DEF home, late
<1>3. /\ StreamsTyped'
      /\ stream'[s].status = "open" /\ stream'[s].home = home /\ stream'[s].late = late
      /\ \A r \in Streams : r # s => stream'[r] = stream[r]
  BY <1>1, <1>2 DEF StreamsInv, StreamsTyped, StreamStates
<1>4. listeners \in Seq(SUBSET Streams) /\ {s} \in SUBSET Streams
  BY DEF StreamsInv, SetsTyped
<1>5. /\ SetsTyped'
      /\ home \in 1..Len(listeners') /\ Len(listeners) <= Len(listeners')
      /\ entry # 0 => home = entry /\ Len(listeners') = Len(listeners)
      /\ listeners'[home] = Listening \cup {s}
      /\ \A h \in 1..Len(listeners) : h # home => listeners'[h] = listeners[h]
      /\ \A h \in 1..Len(listeners') : h # home => h \in 1..Len(listeners)
  <2>1. CASE entry = 0
    <3>1. /\ home = Len(listeners) + 1 /\ Listening = {} /\ Len(listeners) \in Nat
          /\ listeners' = Append(listeners, {s}) /\ entry' = home
      BY <1>1, <2>1 DEF home, Listening, StreamsInv, SetsTyped
    <3>2. /\ listeners' \in Seq(SUBSET Streams) /\ Len(listeners') = Len(listeners) + 1
          /\ \A h \in 1..Len(listeners) : listeners'[h] = listeners[h]
          /\ listeners'[Len(listeners) + 1] = {s}
      BY <1>4, <3>1, AppendProperties
    <3>3. listeners' \in [1..Len(listeners') -> SUBSET Streams] /\ Len(listeners') \in Nat
      BY <3>2, LenProperties
    <3>4. entry' \in 0..Len(listeners')
      BY <3>1, <3>2
    <3>5. SetsTyped'
      BY <3>3, <3>4 DEF SetsTyped
    <3> QED
      BY <2>1, <3>1, <3>2, <3>5
  <2>2. CASE entry # 0
    BY <1>1, <1>4, <2>2 DEF home, Listening, StreamsInv, SetsTyped
  <2> QED
    BY <2>1, <2>2
<1>6. Listening \subseteq Streams
      /\ \A r \in Listening : entry # 0 /\ stream[r].status = "open" /\ stream[r].home = entry
  BY DEF Listening, StreamsInv, SetsTyped, InOwnSet
<1>7. InOwnSet'
  <2>1. ASSUME NEW h \in 1..Len(listeners'), NEW r \in listeners'[h]
        PROVE  stream'[r].status = "open" /\ stream'[r].home = h
    <3>1. CASE h = home
      <4>1. r = s \/ r \in Listening
        BY <1>5, <2>1, <3>1
      <4>2. CASE r = s
        BY <1>3, <3>1, <4>2
      <4>3. CASE r \in Listening /\ r # s
        BY <1>3, <1>5, <1>6, <3>1, <4>3
      <4> QED
        BY <4>1, <4>2, <4>3
    <3>2. CASE h # home
      <4>1. h \in 1..Len(listeners) /\ r \in listeners[h]
        BY <1>5, <2>1, <3>2
      <4>2. r \in Streams /\ stream[r].status = "open" /\ stream[r].home = h
        BY <4>1 DEF StreamsInv, SetsTyped, InOwnSet
      <4> QED
        BY <1>1, <1>3, <4>2
    <3> QED
      BY <3>1, <3>2
  <2> QED
    BY <2>1 DEF InOwnSet
<1>8. HomeIsSet'
  <2>1. ASSUME NEW r \in Streams, stream'[r].status \in {"open", "aborted"}
        PROVE  stream'[r].home \in 1..Len(listeners')
    <3>1. CASE r = s
      BY <1>3, <1>5, <3>1
    <3>2. CASE r # s
      <4>1. stream[r].home \in 1..Len(listeners) /\ stream'[r].home = stream[r].home
        BY <1>3, <2>1, <3>2 DEF StreamsInv, HomeIsSet
      <4>2. Len(listeners) \in Nat /\ Len(listeners') \in Nat
        BY <1>5 DEF StreamsInv, SetsTyped
      <4> QED
        BY <1>5, <4>1, <4>2
    <3> QED
      BY <3>1, <3>2
  <2> QED
    BY <2>1 DEF HomeIsSet
<1>9. OneSetInUse'
  <2>1. ASSUME NEW q \in Streams, stream'[q].status = "open", ~stream'[q].late
        PROVE  /\ entry' # 0
               /\ \A r \in Streams :
                    /\ stream'[r].status \in {"open", "aborted"} => stream'[r].home = entry'
                    /\ stream'[r].status = "open" => r \in listeners'[entry']
    <3>1. entry' # 0
      BY <1>1, <1>5
    <3>2. CASE q = s
      <4>1. \A r \in Streams : r # s /\ stream[r].status \in {"open", "aborted"} =>
              r \in Listening
        BY <1>2, <1>3, <2>1, <3>2
      <4>2. ASSUME NEW r \in Streams
            PROVE  /\ stream'[r].status \in {"open", "aborted"} => stream'[r].home = home
                   /\ stream'[r].status = "open" => r \in listeners'[home]
        <5>1. CASE r = s
          BY <1>3, <1>5, <5>1
        <5>2. CASE r # s
          <6>1. stream'[r] = stream[r]
            BY <1>3, <5>2
          <6>2. stream[r].status \in {"open", "aborted"} =>
                  r \in Listening /\ home = entry /\ stream[r].home = entry
            BY <1>5, <1>6, <4>1, <5>2
          <6> QED
            BY <1>5, <6>1, <6>2
        <5> QED
          BY <5>1, <5>2
      <4> QED
        BY <1>1, <3>1, <4>2
    <3>3. CASE q # s
      <4>1. /\ entry # 0
            /\ \A r \in Streams :
                 /\ stream[r].status \in {"open", "aborted"} => stream[r].home = entry
                 /\ stream[r].status = "open" => r \in listeners[entry]
        BY <1>3, <2>1, <3>3 DEF StreamsInv, OneSetInUse
      <4>2. home = entry /\ entry' = entry /\ listeners'[entry] = listeners[entry] \cup {s}
        BY <1>1, <1>5, <4>1 DEF Listening
      <4> QED
        BY <1>3, <4>1, <4>2
    <3> QED
      BY <3>2, <3>3
  <2> QED
    BY <2>1 DEF OneSetInUse
<1> QED
  BY <1>3, <1>5, <1>7, <1>8, <1>9 DEF StreamsInv

\* The first and the second call of an unsubscribe.
LEMMA StreamsInvLeave ==
  ASSUME StreamsInv, NEW s \in Streams, Abort(s) \/ LeaveLoop(s)
  PROVE  StreamsInv'
<1> DEFINE home == stream[s].home
<1>1. PICK status \in {"aborted", "closed"} :
        /\ stream[s].status \in {"open", "aborted"}
        /\ status = "aborted" => stream[s].status = "open"
        /\ listeners' = [listeners EXCEPT ![home] = listeners[home] \ {s}]
        /\ entry' = IF listeners'[home] = {} THEN 0 ELSE entry
        /\ stream' = [stream EXCEPT ![s].status = status]
  BY DEF Abort, LeaveLoop, Unsubscribe
<1>2. home \in 1..Len(listeners)
  BY <1>1 DEF StreamsInv, HomeIsSet
<1> HIDE DEF home
<1>3. /\ StreamsTyped'
      /\ stream'[s].status = status /\ stream'[s].home = stream[s].home
      /\ stream'[s].late = stream[s].late
      /\ \A r \in Streams : r # s => stream'[r] = stream[r]
  BY <1>1 DEF StreamsInv, StreamsTyped, StreamStates
<1>4. /\ Len(listeners') = Len(listeners)
      /\ listeners'[home] = listeners[home] \ {s}
      /\ \A h \in 1..Len(listeners) : h # home => listeners'[h] = listeners[h]
  BY <1>1, <1>2 DEF StreamsInv, SetsTyped
<1>5. SetsTyped'
  BY <1>1, <1>2, <1>4 DEF StreamsInv, SetsTyped
<1>6. ASSUME NEW h \in 1..Len(listeners')
      PROVE  s \notin listeners'[h] /\ listeners'[h] \subseteq listeners[h]
  <2>1. CASE h = home
    BY <1>4, <2>1
  <2>2. CASE h # home
    BY <1>4, <1>6, <2>2 DEF home, StreamsInv, InOwnSet
  <2> QED
    BY <2>1, <2>2
<1>7. InOwnSet'
  BY <1>3, <1>4, <1>6 DEF StreamsInv, InOwnSet, SetsTyped
<1>8. HomeIsSet'
  <2>1. ASSUME NEW r \in Streams, stream'[r].status \in {"open", "aborted"}
        PROVE  stream'[r].home \in 1..Len(listeners')
    <3>1. stream[r].status \in {"open", "aborted"} /\ stream'[r].home = stream[r].home
      BY <1>1, <1>3, <2>1
    <3> QED
      BY <1>4, <3>1 DEF StreamsInv, HomeIsSet
  <2> QED
    BY <2>1 DEF HomeIsSet
<1>9. OneSetInUse'
  <2>1. ASSUME NEW q \in Streams, stream'[q].status = "open", ~stream'[q].late
        PROVE  /\ entry' # 0
               /\ \A r \in Streams :
                    /\ stream'[r].status \in {"open", "aborted"} => stream'[r].home = entry'
                    /\ stream'[r].status = "open" => r \in listeners'[entry']
    <3>1. q # s /\ stream[q].status = "open" /\ ~stream[q].late
      BY <1>3, <2>1
    <3>2. /\ entry # 0
          /\ \A r \in Streams :
               /\ stream[r].status \in {"open", "aborted"} => stream[r].home = entry
               /\ stream[r].status = "open" => r \in listeners[entry]
      BY <3>1 DEF StreamsInv, OneSetInUse
    <3>3. home = entry
      BY <1>1, <3>2 DEF home
    <3>4. q \in listeners'[home]
      BY <1>4, <3>1, <3>2, <3>3
    <3>5. entry' = entry
      BY <1>1, <3>4
    <3> QED
      BY <1>1, <1>3, <1>4, <3>2, <3>3, <3>5
  <2> QED
    BY <2>1 DEF OneSetInUse
<1> QED
  BY <1>3, <1>5, <1>7, <1>8, <1>9 DEF StreamsInv

LEMMA StreamsInvRestart ==
  ASSUME StreamsInv, Restart
  PROVE  StreamsInv'
<1>1. /\ listeners' = <<>> /\ entry' = 0
      /\ stream' = [s \in Streams |->
                      IF stream[s].status = "unused" THEN stream[s]
                      ELSE [status |-> "closed", home |-> 0, late |-> FALSE, sent |-> <<>>]]
  BY DEF Restart, BusRestart
<1>2. StreamsTyped'
  BY <1>1 DEF StreamsInv, StreamsTyped, StreamStates
<1>3. SetsTyped'
  BY <1>1 DEF SetsTyped
<1>4. \A s \in Streams : stream'[s].status \notin {"open", "aborted"}
  BY <1>1
<1> QED
  BY <1>1, <1>2, <1>3, <1>4 DEF StreamsInv, InOwnSet, HomeIsSet, OneSetInUse

LEMMA StreamsInvStep ==
  ASSUME StreamsInv, [Next]_vars
  PROVE  StreamsInv'
<1>1. ASSUME UNCHANGED <<listeners, entry, stream>>
      PROVE  StreamsInv'
  BY <1>1 DEF StreamsInv, StreamsTyped, SetsTyped, InOwnSet, HomeIsSet, OneSetInUse
<1>2. CASE FollowStep
  <2>1. ASSUME NEW s \in Streams, Connect(s) \/ Abort(s) \/ LeaveLoop(s)
        PROVE  StreamsInv'
    BY <2>1, StreamsInvConnect, StreamsInvLeave
  <2>2. ASSUME NEW s \in Streams, StartFollow(s)
        PROVE  StreamsInv'
    <3>1. /\ stream[s].status = "unused" /\ UNCHANGED <<listeners, entry>>
          /\ stream' = [stream EXCEPT ![s].status = "connecting"]
      BY <2>2 DEF StartFollow
    <3>2. /\ StreamsTyped'
          /\ stream'[s].status = "connecting" /\ stream'[s].home = stream[s].home
          /\ stream'[s].late = stream[s].late
          /\ \A r \in Streams : r # s => stream'[r] = stream[r]
      BY <3>1 DEF StreamsInv, StreamsTyped, StreamStates
    <3> QED
      BY <3>1, <3>2, StreamsInvSame
  <2>3. ASSUME NEW q \in Requests, StageReturns(q) \/ StageThrows(q)
        PROVE  StreamsInv'
    BY <2>3, StreamsInvPublish DEF StageReturns, StageThrows, PublishNewEvents
  <2>4. CASE HttpMutation
    BY <2>4, StreamsInvPublish DEF HttpMutation
  <2>5. CASE StopFollow \/ HandleStreamEvent
    <3>1. \E sent : stream' = [stream EXCEPT ![page.follows].sent = sent]
      BY <2>5 DEF StopFollow, HandleStreamEvent
    <3>2. /\ StreamsTyped'
          /\ \A r \in Streams : /\ stream'[r].status = stream[r].status
                                /\ stream'[r].home = stream[r].home
                                /\ stream'[r].late = stream[r].late
      BY <3>1 DEF StreamsInv, StreamsTyped
    <3> QED
      BY <2>5, <3>2, StreamsInvSame DEF StopFollow, HandleStreamEvent
  <2> QED
    BY <1>1, <1>2, <2>1, <2>2, <2>3, <2>4, <2>5
    DEF FollowStep, BusNext, StartStage, StageAppends, AnswerQuery, ReadQuery, QueryFails
<1>3. CASE ResourcesStep
  <2>1. UNCHANGED <<listeners, entry>>
    BY <1>3 DEF ResourcesStep, Aside
  <2> QED
    BY <1>1, <1>3, <2>1, StreamsInvPublish
    DEF ResourcesStep, AccessNext, PlanNotRecorded, DeliverUrl, DeliverDirectly, Revoke,
        GrantNotRecorded, Access, AccessExpired, Tick
<1>4. CASE SubmitStep
  <2>1. CASE (WebGetNext \/ Tick) /\ Aside
    BY <1>1, <2>1, StreamsInvPublish
    DEF Aside, WebGetNext, CreateSession, SessionExpires, SubmitChunk, Commit, ReadResource, Tick
  <2>2. CASE HttpMutation
    BY <2>2, StreamsInvPublish DEF HttpMutation
  <2> QED
    BY <1>4, <2>1, <2>2 DEF SubmitStep
<1>5. CASE RunsStep \/ UNCHANGED vars
  BY <1>1, <1>5 DEF RunsStep, vars, busVars
<1>6. CASE Restart
  BY <1>6, StreamsInvRestart
<1> QED
  BY <1>2, <1>3, <1>4, <1>5, <1>6 DEF Next

LEMMA StreamsInvInit == Init => StreamsInv
<1> SUFFICES ASSUME Init PROVE StreamsInv
  OBVIOUS
<1>1. /\ listeners = <<>> /\ entry = 0
      /\ stream = [s \in Streams |-> [status |-> "unused", home |-> 0, late |-> FALSE,
                                      sent |-> <<>>]]
  BY DEF Init, BusInit
<1>2. StreamsTyped
  BY <1>1 DEF StreamsTyped, StreamStates
<1>3. SetsTyped
  BY <1>1 DEF SetsTyped
<1> QED
  BY <1>1, <1>2, <1>3 DEF StreamsInv, InOwnSet, HomeIsSet, OneSetInUse

(***************************************************************************)
(* For any number of streams that open, abort and leave their loop in any  *)
(* order, with restarts in between: an open stream that did not come late  *)
(* is listening.                                                           *)
(***************************************************************************)
THEOREM StreamsKeepTheirPlace == Spec => []ListenersKept
<1>1. StreamsInv => ListenersKept
  BY DEF StreamsInv, OneSetInUse, ListenersKept, Listening
<1> QED
  BY <1>1, StreamsInvInit, StreamsInvStep, PTL DEF Spec
-----------------------------------------------------------------------------
(***************************************************************************)
(* What streams and reads show of an event is what its visibility allowed  *)
(* when it was shown, and what is visible stays so.                        *)
(***************************************************************************)
Below(i, ids) == {j \in ids : j < i}
Above(i, ids) == {j \in ids : i < j}

\* Of finitely many numbers one is the least and one the greatest.
LEMMA LeastExists ==
  ASSUME NEW S \in SUBSET Nat, IsFiniteSet(S), S # {}
  PROVE  \E i \in S : \A j \in S : i <= j
<1> DEFINE R == StrictSubsetOrdering(S)
           F == {Below(i, S) : i \in S}
<1>0. \A i \in S : Below(i, S) \in SUBSET S
  BY DEF Below
<1>1. F \subseteq FiniteSubsetsOf(S) /\ F # {}
  <2>1. \A i \in S : Below(i, S) \in FiniteSubsetsOf(S)
    BY <1>0, FS_Subset DEF FiniteSubsetsOf
  <2> QED
    BY <2>1
<1>2. IsWellFoundedOn(R, FiniteSubsetsOf(S))
  BY FS_StrictSubsetOrderingWellFounded
<1> HIDE DEF R, F
<1>3. PICK X \in F : \A Y \in F : <<Y, X>> \notin R
  BY <1>1, <1>2, WFMin
<1> USE DEF R, F
<1>4. PICK i \in S : X = Below(i, S)
  BY <1>3
<1>5. ASSUME NEW j \in S, ~(i <= j) PROVE FALSE
  <2>1. /\ Below(j, S) \subseteq Below(i, S) /\ j \in Below(i, S) /\ j \notin Below(j, S)
    <3>1. i \in Nat /\ j \in Nat /\ \A n \in S : n \in Nat
      BY <1>4, <1>5
    <3>2. j < i /\ ~(j < j) /\ \A n \in S : n < j => n < i
      BY <1>5, <3>1
    <3> QED
      BY <1>0, <1>4, <1>5, <3>2 DEF Below
  <2>2. <<Below(j, S), Below(i, S)>> \in R
    BY <1>0, <2>1 DEF StrictSubsetOrdering
  <2> QED
    BY <1>3, <1>4, <2>2
<1> QED
  BY <1>5

LEMMA GreatestExists ==
  ASSUME NEW S \in SUBSET Nat, IsFiniteSet(S), S # {}
  PROVE  \E i \in S : \A j \in S : j <= i
<1> DEFINE R == StrictSubsetOrdering(S)
           F == {Above(i, S) : i \in S}
<1>0. \A i \in S : Above(i, S) \in SUBSET S
  BY DEF Above
<1>1. F \subseteq FiniteSubsetsOf(S) /\ F # {}
  <2>1. \A i \in S : Above(i, S) \in FiniteSubsetsOf(S)
    BY <1>0, FS_Subset DEF FiniteSubsetsOf
  <2> QED
    BY <2>1
<1>2. IsWellFoundedOn(R, FiniteSubsetsOf(S))
  BY FS_StrictSubsetOrderingWellFounded
<1> HIDE DEF R, F
<1>3. PICK X \in F : \A Y \in F : <<Y, X>> \notin R
  BY <1>1, <1>2, WFMin
<1> USE DEF R, F
<1>4. PICK i \in S : X = Above(i, S)
  BY <1>3
<1>5. ASSUME NEW j \in S, ~(j <= i) PROVE FALSE
  <2>1. /\ Above(j, S) \subseteq Above(i, S) /\ j \in Above(i, S) /\ j \notin Above(j, S)
    <3>1. i \in Nat /\ j \in Nat /\ \A n \in S : n \in Nat
      BY <1>4, <1>5
    <3>2. i < j /\ ~(j < j) /\ \A n \in S : j < n => i < n
      BY <1>5, <3>1
    <3> QED
      BY <1>0, <1>4, <1>5, <3>2 DEF Above
  <2>2. <<Above(j, S), Above(i, S)>> \in R
    BY <1>0, <2>1 DEF StrictSubsetOrdering
  <2> QED
    BY <1>3, <1>4, <2>2
<1> QED
  BY <1>5

\* The k-th frame of a publication exists: one of the ids has k - 1 before it.
LEMMA RankExists ==
  ASSUME NEW S \in SUBSET Nat, IsFiniteSet(S), NEW k \in 1..Cardinality(S)
  PROVE  \E i \in S : Cardinality({j \in S : j < i}) = k - 1
<1> DEFINE A == {i \in S : Cardinality(Below(i, S)) >= k - 1}
<1>0. \A i \in S : /\ IsFiniteSet(Below(i, S)) /\ Cardinality(Below(i, S)) \in Nat
                   /\ Below(i, S) \in SUBSET Nat
  BY FS_Subset, FS_CardinalityType DEF Below
<1>1. A # {}
  <2>1. S # {} /\ Cardinality(S) \in Nat
    BY FS_EmptySet, FS_CardinalityType
  <2>2. PICK m \in S : \A j \in S : j <= m
    BY <2>1, GreatestExists
  <2>3. Below(m, S) = S \ {m}
    <3>1. \A j \in S : j < m <=> j # m
      BY <2>2
    <3> QED
      BY <3>1 DEF Below
  <2>4. Cardinality(Below(m, S)) = Cardinality(S) - 1
    BY <2>3, FS_RemoveElement
  <2> QED
    BY <2>1, <2>4
<1>2. IsFiniteSet(A) /\ A \in SUBSET Nat
  BY FS_Subset
<1>3. PICK a \in A : \A j \in A : a <= j
  BY <1>1, <1>2, LeastExists
<1>4. CASE Cardinality(Below(a, S)) > k - 1
  <2>1. Below(a, S) # {}
    BY <1>4, FS_EmptySet
  <2>2. PICK b \in Below(a, S) : \A j \in Below(a, S) : j <= b
    BY <1>0, <1>3, <2>1, GreatestExists
  <2>3. b \in S /\ b < a
    BY <2>2 DEF Below
  <2>4. Below(b, S) = Below(a, S) \ {b}
    <3>1. ASSUME NEW j \in S PROVE j < b <=> j < a /\ j # b
      BY <1>3, <2>2, <2>3 DEF Below
    <3> QED
      BY <3>1 DEF Below
  <2>5. Cardinality(Below(b, S)) = Cardinality(Below(a, S)) - 1
    <3>1. IsFiniteSet(Below(a, S)) /\ b \in Below(a, S)
      BY <1>0, <1>3, <2>2
    <3>2. Cardinality(Below(a, S) \ {b}) = Cardinality(Below(a, S)) - 1
      BY <3>1, FS_RemoveElement
    <3> QED
      BY <2>4, <3>2
  <2>6. b \in A
    BY <1>0, <1>3, <1>4, <2>3, <2>5
  <2> QED
    BY <1>3, <2>3, <2>6
<1>5. CASE ~(Cardinality(Below(a, S)) > k - 1)
  <2>1. a \in S /\ Cardinality(Below(a, S)) >= k - 1 /\ Cardinality(Below(a, S)) \in Nat
    BY <1>0, <1>3
  <2>2. Cardinality(Below(a, S)) = k - 1
    BY <1>5, <2>1
  <2> QED
    BY <2>1, <2>2 DEF Below
<1> QED
  BY <1>4, <1>5

\* A sealed contribution is shown once its batch is revealed.
Honest(l, i, v) ==
  v = "shown" /\ l[i].type = "sealed_contribution_submitted" => IsSealedContributionRevealed(l, i)

HonestFrames(l) ==
  {f \in [event : DOMAIN l, view : {"shown", "redacted"}] : Honest(l, f.event, f.view)}

HonestViews(l, f) == DOMAIN f \subseteq DOMAIN l /\ \A i \in DOMAIN f : Honest(l, i, f[i])

PageTyped ==
  /\ DOMAIN page = {"follows", "streamed", "read", "query", "answer"}
  /\ page.follows # NoStream => page.follows \in Streams

PageHonest ==
  /\ HonestViews(log, page.streamed)
  /\ HonestViews(log, page.read)
  /\ HonestViews(log, page.answer)

\* A read is of the whole log, and no earlier than what was streamed before it.
ReadsAreWhole ==
  /\ \A i \in DOMAIN page.read : 1..i \subseteq DOMAIN page.read
  /\ \A i \in DOMAIN page.answer : 1..i \subseteq DOMAIN page.answer
  /\ page.query = "answered" => DOMAIN page.streamed \subseteq DOMAIN page.answer
  /\ page.query = "read" => DOMAIN page.streamed \subseteq DOMAIN page.read

FramesHonest == \A s \in Streams : stream[s].sent \in Seq(HonestFrames(log))

WatchInv == IsLog(log) /\ PageTyped /\ PageHonest /\ ReadsAreWhole /\ FramesHonest

LEMMA HonestLater ==
  ASSUME NEW l, NEW m, IsLog(l), Grows(l, m), NEW i \in DOMAIN l, NEW v, Honest(l, i, v)
  PROVE  i \in DOMAIN m /\ Honest(m, i, v)
<1>1. DOMAIN l \subseteq DOMAIN m /\ \A j \in DOMAIN l : m[j] = l[j]
  BY KeptPositions
<1>2. IsSealedContributionRevealed(l, i) => IsSealedContributionRevealed(m, i)
  BY <1>1 DEF IsSealedContributionRevealed, OfType
<1> QED
  BY <1>1, <1>2 DEF Honest

LEMMA HonestFramesLater ==
  ASSUME NEW l, NEW m, IsLog(l), Grows(l, m)
  PROVE  HonestFrames(l) \subseteq HonestFrames(m) /\ Seq(HonestFrames(l)) \subseteq Seq(HonestFrames(m))
<1>1. HonestFrames(l) \subseteq HonestFrames(m)
  <2> SUFFICES ASSUME NEW f \in HonestFrames(l) PROVE f \in HonestFrames(m)
    OBVIOUS
  <2>1. /\ f \in [event : DOMAIN l, view : {"shown", "redacted"}]
        /\ f.event \in DOMAIN l /\ Honest(l, f.event, f.view)
    BY DEF HonestFrames
  <2>2. f.event \in DOMAIN m /\ Honest(m, f.event, f.view)
    BY <2>1, HonestLater
  <2>3. f \in [event : DOMAIN m, view : {"shown", "redacted"}]
    BY <2>1, <2>2
  <2> QED
    BY <2>2, <2>3 DEF HonestFrames
<1> QED
  BY <1>1

LEMMA HonestViewsLater ==
  ASSUME NEW l, NEW m, IsLog(l), Grows(l, m), NEW f, HonestViews(l, f)
  PROVE  HonestViews(m, f)
BY HonestLater DEF HonestViews

LEMMA FramesAreHonest ==
  ASSUME NEW l, IsLog(l), NEW ids \in SUBSET DOMAIN l
  PROVE  Frames(l, ids) \in Seq(HonestFrames(l))
<1>1. DOMAIN l = 1..Len(l) /\ Len(l) \in Nat
  BY LogDomain DEF IsLog
<1>2. ids \in SUBSET Nat /\ IsFiniteSet(ids)
  <2>1. IsFiniteSet(1..Len(l)) /\ ids \in SUBSET (1..Len(l))
    BY <1>1, FS_Interval
  <2> QED
    BY <2>1, FS_Subset
<1>3. Cardinality(ids) \in Nat
  BY <1>2, FS_CardinalityType
<1>4. ASSUME NEW k \in 1..Cardinality(ids)
      PROVE  Frames(l, ids)[k] \in HonestFrames(l)
  <2> DEFINE i == CHOOSE i \in ids : Cardinality({j \in ids : j < i}) = k - 1
  <2>1. i \in ids
    BY <1>2, RankExists
  <2>2. Frames(l, ids)[k] = [event |-> i, view |-> SafeRunEventView(l, i)]
    BY DEF Frames
  <2> HIDE DEF i
  <2>3. SafeRunEventView(l, i) \in {"shown", "redacted"} /\ Honest(l, i, SafeRunEventView(l, i))
    BY DEF SafeRunEventView, Honest
  <2> QED
    BY <2>1, <2>2, <2>3 DEF HonestFrames
<1>5. Frames(l, ids) \in [1..Cardinality(ids) -> HonestFrames(l)]
  <2>1. DOMAIN Frames(l, ids) = 1..Cardinality(ids)
        /\ Frames(l, ids) = [k \in 1..Cardinality(ids) |-> Frames(l, ids)[k]]
    BY DEF Frames
  <2> QED
    BY <1>4, <2>1
<1> QED
  BY <1>3, <1>5, SeqDef

\* Whatever is published of the log, late or twice, is shown as it may be now.
LEMMA WatchPublish ==
  ASSUME WatchInv, StreamsInv, Grows(log, log'), UNCHANGED page,
         NEW ids \in SUBSET DOMAIN log', Publish(log', ids)
  PROVE  WatchInv'
<1>1. IsLog(log) /\ IsLog(log')
  BY DEF WatchInv, Grows
<1>2. Frames(log', ids) \in Seq(HonestFrames(log'))
  BY <1>1, FramesAreHonest
<1>3. ASSUME NEW s \in Streams
      PROVE  stream'[s].sent \in Seq(HonestFrames(log'))
  <2>1. stream[s].sent \in Seq(HonestFrames(log'))
    BY <1>1, HonestFramesLater DEF WatchInv, FramesHonest
  <2>2. \/ stream'[s] = stream[s]
        \/ stream'[s] = [stream[s] EXCEPT !.sent = @ \o Frames(log', ids)]
    BY DEF Publish
  <2>3. stream'[s].sent = stream[s].sent \/ stream'[s].sent = stream[s].sent \o Frames(log', ids)
    BY <2>2 DEF StreamsInv, StreamsTyped
  <2> QED
    BY <1>2, <2>1, <2>3, ConcatProperties
<1>4. PageHonest'
  BY <1>1, HonestViewsLater DEF WatchInv, PageHonest
<1> QED
  BY <1>1, <1>3, <1>4 DEF WatchInv, PageTyped, ReadsAreWhole, FramesHonest

\* A step that publishes nothing and leaves the page alone.
LEMMA WatchQuiet ==
  ASSUME WatchInv, Grows(log, log'), UNCHANGED page,
         \A s \in Streams : stream'[s].sent \in {stream[s].sent, <<>>}
  PROVE  WatchInv'
<1>1. IsLog(log) /\ IsLog(log')
  BY DEF WatchInv, Grows
<1>2. PageHonest'
  BY <1>1, HonestViewsLater DEF WatchInv, PageHonest
<1>3. FramesHonest'
  BY <1>1, HonestFramesLater, EmptySeq DEF WatchInv, FramesHonest
<1> QED
  BY <1>1, <1>2, <1>3 DEF WatchInv, PageTyped, ReadsAreWhole

LEMMA WatchSame ==
  ASSUME WatchInv, UNCHANGED <<log, stream, page>>
  PROVE  WatchInv'
BY GrowsReflexive, WatchQuiet DEF WatchInv

LEMMA WatchStream ==
  ASSUME WatchInv, HandleStreamEvent, StreamsInv
  PROVE  WatchInv'
<1> DEFINE s == page.follows
           frame == Head(stream[s].sent)
<1>1. /\ s \in Streams /\ stream[s].sent # <<>> /\ log' = log
      /\ stream[s].sent \in Seq(HonestFrames(log))
  BY DEF WatchInv, PageTyped, HandleStreamEvent, FramesHonest
<1>2. frame \in HonestFrames(log) /\ Tail(stream[s].sent) \in Seq(HonestFrames(log))
  BY <1>1, HeadTailProperties
<1>3. frame.event \in DOMAIN log /\ Honest(log, frame.event, frame.view)
  BY <1>2 DEF HonestFrames
<1>4. FramesHonest'
  <2>1. stream' = [stream EXCEPT ![s].sent = Tail(stream[s].sent)]
    BY DEF HandleStreamEvent
  <2>2. \A r \in Streams : r # s => stream'[r] = stream[r]
    BY <2>1 DEF StreamsInv, StreamsTyped
  <2>3. stream'[s].sent = Tail(stream[s].sent)
    BY <1>1, <2>1 DEF StreamsInv, StreamsTyped
  <2> QED
    BY <1>1, <1>2, <2>2, <2>3 DEF WatchInv, FramesHonest
<1>5. page' = [page EXCEPT !.streamed = StreamedWith(frame), !.query = "asked", !.answer = <<>>]
  BY DEF HandleStreamEvent
<1> HIDE DEF frame
<1>6. /\ page'.streamed = StreamedWith(frame)
      /\ page'.query = "asked" /\ page'.answer = <<>> /\ page'.read = page.read
      /\ page'.follows = page.follows /\ DOMAIN page' = DOMAIN page
  BY <1>5 DEF WatchInv, PageTyped
<1>7. /\ DOMAIN page'.streamed = {frame.event} \cup DOMAIN page.streamed
      /\ \A i \in DOMAIN page'.streamed :
           page'.streamed[i] = IF i = frame.event THEN frame.view ELSE page.streamed[i]
  BY <1>6 DEF StreamedWith, Merged
<1>8. HonestViews(log, page'.streamed)
  BY <1>3, <1>7 DEF WatchInv, PageHonest, HonestViews
<1>9. HonestViews(log, <<>>) /\ DOMAIN <<>> = {}
  BY DEF HonestViews
<1> QED
  BY <1>1, <1>4, <1>6, <1>8, <1>9 DEF WatchInv, PageTyped, PageHonest, ReadsAreWhole

LEMMA WatchRead ==
  ASSUME WatchInv, AnswerQuery \/ ReadQuery \/ QueryFails
  PROVE  WatchInv'
<1>1. UNCHANGED <<log, stream>>
  BY DEF AnswerQuery, ReadQuery, QueryFails
<1>2. FramesHonest' /\ IsLog(log)'
  BY <1>1 DEF WatchInv, FramesHonest
<1>3. HonestViews(log, <<>>) /\ DOMAIN <<>> = {}
  BY DEF HonestViews
<1>4. CASE AnswerQuery
  <2>1. /\ page'.streamed = page.streamed /\ page'.query = "answered"
        /\ page'.answer = RunEvents(log) /\ page'.read = page.read
        /\ page'.follows = page.follows /\ DOMAIN page' = DOMAIN page
    BY <1>4 DEF AnswerQuery, WatchInv, PageTyped
  <2>2. DOMAIN RunEvents(log) = DOMAIN log /\ HonestViews(log, RunEvents(log))
    BY DEF RunEvents, HonestViews, Honest, SafeRunEventView
  <2>3. DOMAIN log = 1..Len(log) /\ Len(log) \in Nat
    BY LogDomain DEF WatchInv, IsLog
  <2>4. \A i \in DOMAIN log : 1..i \subseteq DOMAIN log
    BY <2>3
  <2> HIDE DEF AnswerQuery
  <2> QED
    BY <1>1, <1>2, <2>1, <2>2, <2>4 DEF WatchInv, PageTyped, PageHonest, ReadsAreWhole, HonestViews
<1>5. CASE ReadQuery
  <2>1. /\ page'.streamed = page.streamed /\ page'.query = "read" /\ page.query = "answered"
        /\ page'.answer = <<>> /\ page'.read = page.answer
        /\ page'.follows = page.follows /\ DOMAIN page' = DOMAIN page
    BY <1>5 DEF ReadQuery, WatchInv, PageTyped
  <2> QED
    BY <1>1, <1>2, <1>3, <2>1 DEF WatchInv, PageTyped, PageHonest, ReadsAreWhole
<1>6. CASE QueryFails
  <2>1. /\ page'.streamed = page.streamed /\ page'.query = "failed"
        /\ page'.answer = page.answer /\ page'.read = page.read
        /\ page'.follows = page.follows /\ DOMAIN page' = DOMAIN page
    BY <1>6 DEF QueryFails, WatchInv, PageTyped
  <2> QED
    BY <1>1, <1>2, <2>1 DEF WatchInv, PageTyped, PageHonest, ReadsAreWhole
<1> QED
  BY <1>4, <1>5, <1>6

LEMMA WatchFollow ==
  ASSUME WatchInv, StreamsInv, StopFollow \/ \E s \in Streams : StartFollow(s)
  PROVE  WatchInv'
<1>1. log' = log /\ IsLog(log)
  BY DEF StopFollow, StartFollow, WatchInv
<1>2. /\ page'.streamed = page.streamed /\ page'.query = page.query
      /\ page'.answer = page.answer /\ page'.read = page.read
      /\ page'.follows \in Streams \cup {NoStream} /\ DOMAIN page' = DOMAIN page
  BY DEF StopFollow, StartFollow, WatchInv, PageTyped
<1>3. \A s \in Streams : stream'[s].sent \in {stream[s].sent, <<>>}
  BY DEF StopFollow, StartFollow, StreamsInv, StreamsTyped
<1>4. FramesHonest'
  BY <1>1, <1>3, EmptySeq DEF WatchInv, FramesHonest
<1> QED
  BY <1>1, <1>2, <1>4 DEF WatchInv, PageTyped, PageHonest, ReadsAreWhole

LEMMA WatchRestart ==
  ASSUME WatchInv, StreamsInv, BusRestart, UNCHANGED log
  PROVE  WatchInv'
<1>1. /\ page'.streamed = page.streamed
      /\ page'.query = IF page.query = "read" THEN "read" ELSE "failed"
      /\ page'.answer = <<>> /\ page'.read = page.read
      /\ page'.follows = NoStream /\ DOMAIN page' = DOMAIN page
  BY DEF BusRestart, WatchInv, PageTyped
<1>2. \A s \in Streams : stream'[s].sent \in {stream[s].sent, <<>>}
  BY DEF BusRestart
<1>3. FramesHonest'
  BY <1>2, EmptySeq DEF WatchInv, FramesHonest
<1>4. HonestViews(log, <<>>) /\ DOMAIN <<>> = {}
  BY DEF HonestViews
<1> QED
  BY <1>1, <1>3, <1>4 DEF WatchInv, PageTyped, PageHonest, ReadsAreWhole

\* A handler publishes what it appended.
LEMMA WatchHandler ==
  ASSUME WatchInv, StreamsInv, Handled, UNCHANGED page,
         \/ UNCHANGED stream
         \/ Publish(log', Appended(log'))
         \/ Publish(log', {Len(log')}) /\ Len(log') # 0
  PROVE  WatchInv'
<1>1. Grows(log, log') /\ IsLog(log)
  BY DEF Handled, WatchInv
<1>2. DOMAIN log' = 1..Len(log') /\ Len(log') \in Nat
  BY <1>1, LogDomain DEF Grows, IsLog
<1>3. Appended(log') \in SUBSET DOMAIN log' /\ (Len(log') # 0 => {Len(log')} \in SUBSET DOMAIN log')
  BY <1>2 DEF Appended
<1> QED
  BY <1>1, <1>3, WatchPublish, WatchQuiet

LEMMA WatchMutation ==
  ASSUME WatchInv, StreamsInv, HttpMutation
  PROVE  WatchInv'
<1>1. IsLog(log)
  BY DEF WatchInv
<1>2. Handled /\ Publish(log', {Len(log')}) /\ UNCHANGED page
  BY <1>1, HttpMutationHandled DEF HttpMutation
<1>3. Len(log') # 0
  <2>1. PICK e : log' = Append(log, e)
    BY DEF HttpMutation
  <2>2. Len(log') = Len(log) + 1 /\ Len(log) \in Nat
    BY <1>1, <2>1, AppendGrows DEF IsLog
  <2> QED
    BY <2>2
<1> QED
  BY <1>2, <1>3, WatchHandler

LEMMA WatchStep ==
  ASSUME WatchInv, StreamsInv, [Next]_vars
  PROVE  WatchInv'
<1>0. IsLog(log)
  BY DEF WatchInv
<1>1. CASE FollowStep
  <2>1. ASSUME NEW s \in Streams, Connect(s) \/ Abort(s) \/ LeaveLoop(s)
        PROVE  WatchInv'
    <3>1. \A r \in Streams : stream'[r].sent = stream[r].sent
      BY <2>1 DEF Connect, Subscribe, Abort, LeaveLoop, StreamsInv, StreamsTyped
    <3> QED
      BY <1>0, <2>1, <3>1, GrowsReflexive, WatchQuiet DEF Connect, Abort, LeaveLoop
  <2>2. ASSUME NEW q \in Requests, StageReturns(q) \/ StageThrows(q)
        PROVE  WatchInv'
    <3>1. /\ Publish(log', DOMAIN log' \ request[q].before)
          /\ UNCHANGED <<log, page>>
      BY <2>2 DEF StageReturns, StageThrows, PublishNewEvents
    <3> QED
      BY <1>0, <3>1, GrowsReflexive, WatchPublish
  <2>3. ASSUME NEW q \in Requests, StageAppends(q)
        PROVE  WatchInv'
    <3>1. Grows(log, log') /\ UNCHANGED <<stream, page>>
      BY <1>0, <2>3, AppendGrows DEF StageAppends
    <3> QED
      BY <3>1, WatchQuiet
  <2>4. ASSUME NEW q \in Requests, StartStage(q)
        PROVE  WatchInv'
    BY <2>4, WatchSame DEF StartStage
  <2> QED
    BY <1>1, <2>1, <2>2, <2>3, <2>4, WatchMutation, WatchFollow, WatchStream, WatchRead
    DEF FollowStep, BusNext
<1>2. CASE ResourcesStep
  <2>1. UNCHANGED page /\ (UNCHANGED stream \/ Publish(log', Appended(log')))
    BY <1>2
    DEF ResourcesStep, Aside, AccessNext, PlanNotRecorded, DeliverUrl, DeliverDirectly, Revoke,
        GrantNotRecorded, Access, AccessExpired, Tick
  <2> QED
    BY <1>0, <1>2, <2>1, ResourcesStepHandled, WatchHandler
<1>3. CASE SubmitStep
  <2>1. CASE (WebGetNext \/ Tick) /\ Aside
    <3>1. UNCHANGED page /\ (UNCHANGED stream \/ Publish(log', Appended(log')))
      BY <2>1
      DEF Aside, WebGetNext, CreateSession, SessionExpires, SubmitChunk, Commit, ReadResource, Tick
    <3> QED
      BY <1>0, <1>3, <3>1, SubmitStepHandled, WatchHandler
  <2> QED
    BY <1>3, <2>1, WatchMutation DEF SubmitStep
<1>4. CASE RunsStep \/ UNCHANGED vars
  BY <1>4, WatchSame DEF RunsStep, vars, busVars
<1>5. CASE Restart
  BY <1>5, WatchRestart DEF Restart
<1> QED
  BY <1>1, <1>2, <1>3, <1>4, <1>5 DEF Next

LEMMA WatchInit == Init => WatchInv
<1> SUFFICES ASSUME Init PROVE WatchInv
  OBVIOUS
<1>1. /\ log = <<TopicContract, BatchOpened>>
      /\ stream = [s \in Streams |-> [status |-> "unused", home |-> 0, late |-> FALSE,
                                      sent |-> <<>>]]
      /\ page = [follows |-> NoStream, streamed |-> <<>>, read |-> <<>>,
                 query |-> "asked", answer |-> <<>>]
  BY DEF Init, BusInit
<1>2. IsLog(log)
  BY <1>1 DEF IsLog
<1>3. FramesHonest
  BY <1>1, EmptySeq DEF FramesHonest
<1>4. HonestViews(log, <<>>) /\ DOMAIN <<>> = {}
  BY DEF HonestViews
<1> QED
  BY <1>1, <1>2, <1>3, <1>4 DEF WatchInv, PageTyped, PageHonest, ReadsAreWhole

\* What the next two theorems rest on: frames on their way, what the page was
\* streamed, what it read and what it is reading show no more than the log
\* reveals, and a read that is not older than the last frame is of the whole log.
THEOREM WatchersSeeTheLog == Spec => []WatchInv
BY WatchInit, WatchStep, StreamsInvInit, StreamsInvStep, PTL DEF Spec

(***************************************************************************)
(* However often, late or out of order an event is published, and whatever *)
(* restarts and reads come between: neither a stream nor a read shows a    *)
(* sealed contribution before its batch is revealed.                       *)
(***************************************************************************)
THEOREM SealedStaysRedacted == Spec => []RedactedUntilReveal
<1>1. WatchInv => RedactedUntilReveal
  <2> SUFFICES ASSUME WatchInv, NEW i \in Contributions(log) \cap DOMAIN Timeline,
                      Timeline[i] = "shown"
               PROVE  \E j \in OfType(log, "sealed_batch_revealed") : i \in log[j].basedOn
    BY DEF RedactedUntilReveal
  <2>1. /\ i \in DOMAIN page.streamed \cup DOMAIN page.read
        /\ Timeline[i] = IF i \in DOMAIN page.streamed THEN page.streamed[i] ELSE page.read[i]
    BY DEF Timeline, Merged
  <2>2. Honest(log, i, "shown")
    BY <2>1 DEF WatchInv, PageHonest, HonestViews
  <2> QED
    BY <2>2 DEF Honest, Contributions, OfType, IsSealedContributionRevealed
<1> QED
  BY <1>1, WatchersSeeTheLog, PTL

(***************************************************************************)
(* A page that is not reading has every event before each one it was       *)
(* streamed, although nothing is published to it while its stream is not   *)
(* listening: every frame makes it read again.                             *)
(***************************************************************************)
THEOREM TimelinesHaveNoGap == Spec => []NoGapBehindStream
<1>1. WatchInv => NoGapBehindStream
  <2>1. DOMAIN Timeline = DOMAIN page.streamed \cup DOMAIN page.read
    BY DEF Timeline, Merged
  <2> QED
    BY <2>1 DEF WatchInv, ReadsAreWhole, NoGapBehindStream
<1> QED
  BY <1>1, WatchersSeeTheLog, PTL

-----------------------------------------------------------------------------
(***************************************************************************)
(* A resource is served only on a grant that the ledger accounts for.      *)
(*                                                                         *)
(* A grant's creation is recorded before its URL is handed out, so every   *)
(* grant that can be used has its event; a revocation changes the grant    *)
(* before it is recorded, so a grant whose revocation is recorded cannot   *)
(* be used.                                                                *)
(***************************************************************************)
GrantsTyped ==
  /\ grants \in [Accesses -> [status : {"unused", "stored", "gone"}, expiresAt : Nat,
                              revokedAt : Nat \cup {Never}, served : Nat]]
  /\ now \in Nat

\* A grant whose URL somebody has was created and recorded.
HandedIsRecorded ==
  \A g \in handed \cap Accesses :
    /\ grants[g].status # "unused"
    /\ grants[g].status = "stored" =>
         \E i \in OfType(log, "resource_access_grant_created") :
           log[i].access = g /\ log[i].expiresAt = grants[g].expiresAt

\* A grant whose revocation is recorded is revoked or gone.
RecordedIsRevoked ==
  \A i \in OfType(log, "resource_access_grant_revoked"), g \in Accesses :
    log[i].access = g =>
      /\ grants[g].status # "unused"
      /\ grants[g].status = "stored" => grants[g].revokedAt # Never

AccessInv == IsLog(log) /\ GrantsTyped /\ HandedIsRecorded /\ RecordedIsRevoked

\* A step adds no revocation.
NoRevocation ==
  /\ Grows(log, log')
  /\ \A i \in DOMAIN log' : i \in DOMAIN log \/ log'[i].type # "resource_access_grant_revoked"

LEMMA KeptEvents ==
  ASSUME IsLog(log), Grows(log, log'), NEW type
  PROVE  /\ OfType(log, type) \subseteq OfType(log', type)
         /\ \A i \in OfType(log, type) : log'[i] = log[i]
BY KeptPositions DEF OfType

LEMMA NoRevocationKeeps ==
  ASSUME IsLog(log), NoRevocation
  PROVE  /\ OfType(log', "resource_access_grant_revoked") = OfType(log, "resource_access_grant_revoked")
         /\ \A i \in OfType(log, "resource_access_grant_revoked") : log'[i] = log[i]
BY KeptPositions DEF NoRevocation, OfType

\* A step that records no revocation, hands out no URL and takes no grant back
\* to life.
LEMMA AccessInvQuiet ==
  ASSUME AccessInv, NoRevocation, GrantsTyped', handed' = handed,
         \A g \in Accesses :
           /\ grants'[g].status = "unused" => grants[g].status = "unused"
           /\ g \in handed /\ grants'[g].status = "stored" =>
                grants[g].status = "stored" /\ grants'[g].expiresAt = grants[g].expiresAt
           /\ grants[g].status # "unused" /\ grants'[g].status = "stored" =>
                /\ grants[g].status = "stored"
                /\ grants[g].revokedAt # Never => grants'[g].revokedAt # Never
  PROVE  AccessInv'
<1>1. /\ OfType(log', "resource_access_grant_revoked") = OfType(log, "resource_access_grant_revoked")
      /\ \A i \in OfType(log, "resource_access_grant_revoked") : log'[i] = log[i]
  BY NoRevocationKeeps DEF AccessInv
<1>2. RecordedIsRevoked'
  BY <1>1 DEF AccessInv, RecordedIsRevoked
<1>3. /\ OfType(log, "resource_access_grant_created") \subseteq
           OfType(log', "resource_access_grant_created")
      /\ \A i \in OfType(log, "resource_access_grant_created") : log'[i] = log[i]
  BY KeptEvents DEF AccessInv, NoRevocation
<1>4. HandedIsRecorded'
  BY <1>3 DEF AccessInv, HandedIsRecorded
<1> QED
  BY <1>2, <1>4 DEF AccessInv, NoRevocation, Grows

\* The record of a grant that is created.
LEMMA StoredGrant ==
  ASSUME NEW expiry \in Nat
  PROVE  LET stored == [Unused EXCEPT !.status = "stored", !.expiresAt = expiry]
         IN  /\ stored \in [status : {"unused", "stored", "gone"}, expiresAt : Nat,
                            revokedAt : Nat \cup {Never}, served : Nat]
             /\ stored.status = "stored" /\ stored.expiresAt = expiry
BY DEF Unused

\* The grant a handler creates is new: no URL and no revocation names it.
LEMMA CreatedGrant ==
  ASSUME AccessInv, NEW g \in Accesses, CreateGrant(g), now' = now
  PROVE  /\ GrantsTyped'
         /\ grants[g].status = "unused" /\ g \notin handed
         /\ \A h \in Accesses : h # g => grants'[h] = grants[h]
         /\ grants'[g].status = "stored" /\ grants'[g].expiresAt = now + Ttl
<1> DEFINE stored == [Unused EXCEPT !.status = "stored", !.expiresAt = now + Ttl]
<1>1. /\ grants[g].status = "unused"
      /\ grants' = [grants EXCEPT ![g] = stored]
  BY DEF CreateGrant
<1>2. now + Ttl \in Nat
  BY ClockAssumption DEF AccessInv, GrantsTyped
<1>3. /\ stored \in [status : {"unused", "stored", "gone"}, expiresAt : Nat,
                     revokedAt : Nat \cup {Never}, served : Nat]
      /\ stored.status = "stored" /\ stored.expiresAt = now + Ttl
  BY <1>2, StoredGrant
<1> HIDE DEF stored
<1>4. GrantsTyped'
  BY <1>1, <1>3 DEF AccessInv, GrantsTyped
<1>5. g \notin handed
  BY <1>1 DEF AccessInv, HandedIsRecorded
<1> QED
  BY <1>1, <1>3, <1>4, <1>5 DEF AccessInv, GrantsTyped

\* A grant that is created and recorded may be handed out.
LEMMA AccessInvGrants ==
  ASSUME AccessInv, NEW g \in Accesses, CreateGrant(g), now' = now,
         NoRevocation, handed' \in {handed, handed \cup {g}},
         \E i \in OfType(log', "resource_access_grant_created") :
           log'[i].access = g /\ log'[i].expiresAt = now + Ttl
  PROVE  AccessInv'
<1>1. /\ GrantsTyped'
      /\ grants[g].status = "unused" /\ g \notin handed
      /\ \A h \in Accesses : h # g => grants'[h] = grants[h]
      /\ grants'[g].status = "stored" /\ grants'[g].expiresAt = now + Ttl
  BY CreatedGrant
<1>2. /\ OfType(log', "resource_access_grant_revoked") = OfType(log, "resource_access_grant_revoked")
      /\ \A i \in OfType(log, "resource_access_grant_revoked") : log'[i] = log[i]
  BY NoRevocationKeeps DEF AccessInv
<1>3. RecordedIsRevoked'
  BY <1>1, <1>2 DEF AccessInv, RecordedIsRevoked
<1>4. /\ OfType(log, "resource_access_grant_created") \subseteq
           OfType(log', "resource_access_grant_created")
      /\ \A i \in OfType(log, "resource_access_grant_created") : log'[i] = log[i]
  BY KeptEvents DEF AccessInv, NoRevocation
<1>5. HandedIsRecorded'
  <2>1. ASSUME NEW h \in handed' \cap Accesses
        PROVE  /\ grants'[h].status # "unused"
               /\ grants'[h].status = "stored" =>
                    \E i \in OfType(log', "resource_access_grant_created") :
                      log'[i].access = h /\ log'[i].expiresAt = grants'[h].expiresAt
    <3>1. CASE h = g
      BY <1>1, <3>1
    <3>2. CASE h # g
      BY <1>1, <1>4, <3>2 DEF AccessInv, HandedIsRecorded
    <3> QED
      BY <3>1, <3>2
  <2> QED
    BY <2>1 DEF HandedIsRecorded
<1> QED
  BY <1>1, <1>3, <1>5 DEF AccessInv, NoRevocation, Grows

\* POST .../deliveries and GET /webget/:token/resources/:resourceId.
LEMMA AccessInvAfterGrant ==
  ASSUME AccessInv, NEW g \in Accesses, NEW p, CreateGrant(g), now' = now,
         log' = AfterGrant(g, p), handed' \in {handed, handed \cup {g}}
  PROVE  AccessInv'
<1>1. /\ Grows(log, log') /\ Len(log') = Len(log) + 1
      /\ log'[Len(log) + 1] = GrantCreated(g, p, now + Ttl)
      /\ \A i \in DOMAIN log' : i \in DOMAIN log \/ log'[i] = GrantCreated(g, p, now + Ttl)
  BY AppendGrows, NewPositions DEF AfterGrant, AccessInv
<1>2. NoRevocation
  BY <1>1 DEF NoRevocation, GrantCreated
<1>3. Len(log) + 1 \in DOMAIN log'
  BY <1>1, LogDomain DEF AccessInv, Grows, IsLog
<1>4. /\ Len(log) + 1 \in OfType(log', "resource_access_grant_created")
      /\ log'[Len(log) + 1].access = g /\ log'[Len(log) + 1].expiresAt = now + Ttl
  BY <1>1, <1>3 DEF OfType, GrantCreated
<1> QED
  BY <1>2, <1>4, AccessInvGrants

LEMMA AccessInvDeliverUrl ==
  ASSUME AccessInv, NEW g \in Accesses, NEW p, NEW key, DeliverUrl(g, p, key)
  PROVE  AccessInv'
<1> DEFINE granted == AfterGrant(g, p)
           plan == DeliveryPlanned(p, key, "url")
           n == Len(log) + 1
<1>1. /\ CreateGrant(g) /\ log' = AfterAppend(granted, plan)
      /\ handed' = handed \cup {g} /\ now' = now
  BY DEF DeliverUrl
<1>2. /\ Grows(log, granted) /\ Len(granted) = n /\ granted[n] = GrantCreated(g, p, now + Ttl)
      /\ \A i \in DOMAIN granted : i \in DOMAIN log \/ granted[i] = GrantCreated(g, p, now + Ttl)
  BY AppendGrows, NewPositions DEF AfterGrant, AccessInv
<1>3. IsLog(granted) /\ n \in DOMAIN granted
  BY <1>2, LogDomain DEF AccessInv, Grows, IsLog
<1>4. plan.type = "resource_delivery_planned"
  BY DEF DeliveryPlanned
<1> HIDE DEF granted, plan, n
<1>5. Grows(granted, log') /\ \A i \in DOMAIN log' : i \in DOMAIN granted \/ log'[i] = plan
  BY <1>1, <1>3, AfterAppendGrows
<1>6. DOMAIN granted \subseteq DOMAIN log' /\ \A i \in DOMAIN granted : log'[i] = granted[i]
  BY <1>3, <1>5, KeptPositions
<1>7. Grows(log, log')
  BY <1>2, <1>5, GrowsTransitive DEF AccessInv
<1>8. NoRevocation
  BY <1>2, <1>4, <1>5, <1>6, <1>7 DEF NoRevocation, GrantCreated
<1>9. /\ n \in OfType(log', "resource_access_grant_created")
      /\ log'[n].access = g /\ log'[n].expiresAt = now + Ttl
  BY <1>2, <1>3, <1>6 DEF OfType, GrantCreated
<1> QED
  BY <1>1, <1>8, <1>9, AccessInvGrants

\* POST /resource-access/:accessId/revoke.
LEMMA AccessInvRevoke ==
  ASSUME AccessInv, NEW g \in Accesses, NEW recorded \in BOOLEAN, Revoke(g, recorded)
  PROVE  AccessInv'
<1> DEFINE revoked == GrantRevoked(g, RevokedGrant(g).revokedAt)
<1>1. /\ grants[g].status = "stored"
      /\ grants' = [grants EXCEPT ![g] = RevokedGrant(g)]
      /\ log' = IF recorded THEN AfterAppend(log, revoked) ELSE log
      /\ UNCHANGED <<handed, now>>
  BY DEF Revoke
<1>2. /\ RevokedGrant(g).status = "stored" /\ RevokedGrant(g).expiresAt = grants[g].expiresAt
      /\ RevokedGrant(g).revokedAt \in Nat /\ RevokedGrant(g).served = grants[g].served
      /\ RevokedGrant(g) \in [status : {"unused", "stored", "gone"}, expiresAt : Nat,
                              revokedAt : Nat \cup {Never}, served : Nat]
  BY <1>1 DEF RevokedGrant, AccessInv, GrantsTyped
<1>3. GrantsTyped'
  BY <1>1, <1>2 DEF AccessInv, GrantsTyped
<1>4. /\ grants'[g] = RevokedGrant(g)
      /\ \A h \in Accesses : h # g => grants'[h] = grants[h]
  BY <1>1 DEF AccessInv, GrantsTyped
<1>5. Grows(log, log') /\ \A i \in DOMAIN log' : i \in DOMAIN log \/ log'[i] = revoked
  BY <1>1, AfterAppendGrows, GrowsReflexive DEF AccessInv
<1>6. DOMAIN log \subseteq DOMAIN log' /\ \A i \in DOMAIN log : log'[i] = log[i]
  BY <1>5, KeptPositions DEF AccessInv
<1>7. HandedIsRecorded'
  <2>1. /\ OfType(log, "resource_access_grant_created") \subseteq
             OfType(log', "resource_access_grant_created")
        /\ \A i \in OfType(log, "resource_access_grant_created") : log'[i] = log[i]
    BY <1>5, KeptEvents DEF AccessInv
  <2>2. \A h \in Accesses : /\ grants'[h].status = grants[h].status
                            /\ grants'[h].expiresAt = grants[h].expiresAt
    BY <1>1, <1>2, <1>4
  <2> QED
    BY <1>1, <2>1, <2>2 DEF AccessInv, HandedIsRecorded
<1>8. ASSUME NEW i \in OfType(log', "resource_access_grant_revoked"), NEW h \in Accesses,
             log'[i].access = h
      PROVE  /\ grants'[h].status # "unused"
             /\ grants'[h].status = "stored" => grants'[h].revokedAt # Never
  <2>1. CASE h = g
    BY <1>2, <1>4, <2>1, ClockAssumption
  <2>2. CASE h # g
    <3>1. log'[i] # revoked
      BY <1>8, <2>2 DEF GrantRevoked
    <3>2. i \in OfType(log, "resource_access_grant_revoked") /\ log'[i] = log[i]
      BY <1>5, <1>6, <1>8, <3>1 DEF OfType
    <3> QED
      BY <1>4, <1>8, <2>2, <3>2 DEF AccessInv, RecordedIsRevoked
  <2> QED
    BY <2>1, <2>2
<1>9. RecordedIsRevoked'
  BY <1>8 DEF RecordedIsRevoked
<1> QED
  BY <1>3, <1>5, <1>7, <1>9 DEF AccessInv, Grows

\* The other steps leave the ledger alone or add no revocation.
LEMMA AccessInvUnchanged ==
  ASSUME AccessInv, NoRevocation, UNCHANGED accessVars
  PROVE  AccessInv'
BY AccessInvQuiet DEF accessVars, AccessInv, GrantsTyped

LEMMA CoreAppendsNoRevocation ==
  ASSUME IsLog(log), NEW e \in CoreAppends(log), log' = Append(log, e)
  PROVE  NoRevocation
BY AppendGrows, NewPositions
DEF NoRevocation, CoreAppends, Proposal, Reveal, Contribution

LEMMA AccessInvResources ==
  ASSUME AccessInv, ResourcesStep
  PROVE  AccessInv'
<1>1. ASSUME NEW g \in Accesses, NEW p \in Participants, PlanNotRecorded(g, p)
      PROVE  AccessInv'
  BY <1>1, AccessInvAfterGrant DEF PlanNotRecorded
<1>2. ASSUME NEW g \in Accesses, NEW p \in Participants, NEW key, DeliverUrl(g, p, key)
      PROVE  AccessInv'
  BY <1>2, AccessInvDeliverUrl
<1>3. ASSUME NEW p \in Participants, NEW key \in DeliveryKeys, DeliverDirectly(p, key)
      PROVE  AccessInv'
  <2>1. NoRevocation
    BY <1>3, AppendGrows, NewPositions
    DEF DeliverDirectly, DeliveryPlanned, NoRevocation, AccessInv
  <2> QED
    BY <1>3, <2>1, AccessInvUnchanged DEF DeliverDirectly
<1>4. ASSUME NEW g \in Accesses, NEW recorded \in BOOLEAN, Revoke(g, recorded)
      PROVE  AccessInv'
  BY <1>4, AccessInvRevoke
<1>5. ASSUME UNCHANGED log
      PROVE  NoRevocation
  BY <1>5, GrowsReflexive DEF NoRevocation, AccessInv
<1>6. ASSUME NEW g \in Accesses, GrantNotRecorded(g)
      PROVE  AccessInv'
  <2>1. CreateGrant(g) /\ UNCHANGED <<log, handed, now>> /\ NoRevocation
    BY <1>5, <1>6 DEF GrantNotRecorded
  <2> QED
    BY <2>1, CreatedGrant, AccessInvQuiet
<1>7. ASSUME NEW g \in Accesses, Access(g) \/ AccessExpired(g)
      PROVE  AccessInv'
  <2>1. UNCHANGED <<log, handed, now>> /\ NoRevocation
    BY <1>5, <1>7 DEF Access, AccessExpired
  <2>2. GrantsTyped'
    BY <1>7, <2>1 DEF Access, AccessExpired, AccessInv, GrantsTyped
  <2>3. \A h \in Accesses :
          /\ grants'[h].status = grants[h].status \/ grants'[h].status = "gone"
          /\ grants'[h].expiresAt = grants[h].expiresAt
          /\ grants'[h].revokedAt = grants[h].revokedAt
    BY <1>7 DEF Access, AccessExpired, AccessInv, GrantsTyped
  <2>4. \A h \in Accesses : grants[h].status \in {"unused", "stored", "gone"}
    BY DEF AccessInv, GrantsTyped
  <2>5. \A h \in Accesses : grants[h].status = "unused" => grants'[h].status = "unused"
    BY <1>7 DEF Access, AccessExpired, IsActive, AccessInv, GrantsTyped
  <2> QED
    BY <2>1, <2>2, <2>3, <2>4, <2>5, AccessInvQuiet
<1>8. CASE Tick
  <2>1. NoRevocation
    BY <1>5, <1>8 DEF Tick
  <2>2. GrantsTyped'
    BY <1>8 DEF Tick, AccessInv, GrantsTyped
  <2> QED
    BY <1>8, <2>1, <2>2, AccessInvQuiet DEF Tick
<1> QED
  BY <1>1, <1>2, <1>3, <1>4, <1>6, <1>7, <1>8 DEF ResourcesStep, AccessNext

LEMMA AccessInvWebGet ==
  ASSUME AccessInv, WebGetNext
  PROVE  AccessInv'
<1>1. ASSUME UNCHANGED <<log, grants, handed, now>>
      PROVE  AccessInv'
  <2>1. NoRevocation
    BY <1>1, GrowsReflexive DEF NoRevocation, AccessInv
  <2> QED
    BY <1>1, <2>1, AccessInvUnchanged DEF accessVars
<1>2. ASSUME NEW t \in Tokens, Commit(t)
      PROVE  AccessInv'
  <2>1. log' = AfterAppend(log, CommittedContribution(t)) /\ UNCHANGED <<grants, handed, now>>
    BY <1>2 DEF Commit
  <2>2. CommittedContribution(t).type = "sealed_contribution_submitted"
    BY DEF CommittedContribution, Contribution
  <2>3. NoRevocation
    BY <2>1, <2>2, AfterAppendGrows DEF NoRevocation, AccessInv
  <2> QED
    BY <2>1, <2>3, AccessInvUnchanged DEF accessVars
<1>3. ASSUME NEW t \in Tokens, NEW g \in Accesses, ReadResource(t, g)
      PROVE  AccessInv'
  BY <1>3, AccessInvAfterGrant DEF ReadResource
<1> QED
  BY <1>1, <1>2, <1>3 DEF WebGetNext, CreateSession, SessionExpires, SubmitChunk

LEMMA AccessInvStep ==
  ASSUME AccessInv, [Next]_vars
  PROVE  AccessInv'
<1>1. ASSUME UNCHANGED <<log, accessVars>>
      PROVE  AccessInv'
  <2>1. NoRevocation
    BY <1>1, GrowsReflexive DEF NoRevocation, AccessInv
  <2> QED
    BY <1>1, <2>1, AccessInvUnchanged
<1>2. ASSUME HttpMutation \/ \E q \in Requests : StageAppends(q), UNCHANGED accessVars
      PROVE  AccessInv'
  <2>1. NoRevocation
    BY <1>2, CoreAppendsNoRevocation DEF HttpMutation, StageAppends, AccessInv
  <2> QED
    BY <1>2, <2>1, AccessInvUnchanged
<1>3. CASE FollowStep
  BY <1>1, <1>2, <1>3
  DEF FollowStep, BusNext, Connect, Abort, LeaveLoop, StartFollow, StartStage, StageReturns,
      StageThrows, StopFollow, HandleStreamEvent, AnswerQuery, ReadQuery, QueryFails
<1>4. CASE ResourcesStep
  BY <1>4, AccessInvResources
<1>5. CASE SubmitStep
  <2>1. CASE WebGetNext /\ Aside
    BY <2>1, AccessInvWebGet
  <2>2. CASE Tick /\ UNCHANGED webget /\ Aside
    <3>1. NoRevocation
      BY <2>2, GrowsReflexive DEF Tick, NoRevocation, AccessInv
    <3>2. GrantsTyped'
      BY <2>2 DEF Tick, AccessInv, GrantsTyped
    <3> QED
      BY <2>2, <3>1, <3>2, AccessInvQuiet DEF Tick
  <2>3. CASE HttpMutation /\ UNCHANGED <<accessVars, webget>>
    BY <1>2, <2>3
  <2> QED
    BY <1>5, <2>1, <2>2, <2>3 DEF SubmitStep
<1>6. CASE RunsStep \/ UNCHANGED vars
  BY <1>1, <1>6 DEF RunsStep, vars, busVars
<1>7. CASE Restart
  <2>1. /\ UNCHANGED <<log, handed, now>>
        /\ grants' = [g \in Accesses |->
                        IF accessStore = "sqlite" \/ grants[g].status = "unused" THEN grants[g]
                        ELSE [Unused EXCEPT !.status = "gone"]]
    BY <1>7 DEF Restart, AccessRestart
  <2>2. NoRevocation
    BY <2>1, GrowsReflexive DEF NoRevocation, AccessInv
  <2>3. GrantsTyped'
    BY <2>1 DEF AccessInv, GrantsTyped, Unused
  <2>4. \A g \in Accesses :
          \/ grants'[g] = grants[g]
          \/ grants[g].status # "unused" /\ grants'[g].status = "gone"
    BY <2>1 DEF Unused
  <2> QED
    BY <2>1, <2>2, <2>3, <2>4, AccessInvQuiet
<1> QED
  BY <1>3, <1>4, <1>5, <1>6, <1>7 DEF Next

LEMMA AccessInvInit == Init => AccessInv
<1> SUFFICES ASSUME Init PROVE AccessInv
  OBVIOUS
<1>1. /\ log = <<TopicContract, BatchOpened>>
      /\ grants = [g \in Accesses |-> Unused] /\ handed = {} /\ now = 0
  BY DEF Init, BusInit, AccessInit
<1>2. IsLog(log) /\ OfType(log, "resource_access_grant_revoked") = {}
  BY <1>1 DEF IsLog, OfType, TopicContract, BatchOpened
<1>3. GrantsTyped
  BY <1>1 DEF GrantsTyped, Unused
<1> QED
  BY <1>1, <1>2, <1>3 DEF AccessInv, HandedIsRecorded, RecordedIsRevoked

\* What AccessesAreAudited rests on: a grant whose URL a requester has is in the
\* ledger, and a revocation is in the ledger only once the grant is revoked or
\* its store has lost it.
THEOREM AccessInvariant == Spec => []AccessInv
BY AccessInvInit, AccessInvStep, PTL DEF Spec

\* Only GET /resource-access/:accessId serves a grant.
LEMMA ServedByAccess ==
  ASSUME AccessInv, [Next]_vars, NEW g \in Accesses, grants'[g].served > grants[g].served
  PROVE  Access(g)
<1>1. grants[g].served \in Nat /\ grants[g].served >= 0
  BY DEF AccessInv, GrantsTyped
<1>2. grants'[g] # grants[g]
  BY <1>1
<1>3. ASSUME NEW h \in Accesses, CreateGrant(h)
      PROVE  FALSE
  <2>1. grants' = [grants EXCEPT ![h] = [Unused EXCEPT !.status = "stored", !.expiresAt = now + Ttl]]
    BY <1>3 DEF CreateGrant
  <2>2. h = g
    BY <1>2, <2>1 DEF AccessInv, GrantsTyped
  <2>3. grants'[g].served = 0
    BY <2>1, <2>2 DEF Unused, AccessInv, GrantsTyped
  <2> QED
    BY <1>1, <2>3
<1>4. \A h \in Accesses : ~AccessExpired(h)
  BY <1>1 DEF AccessExpired, AccessInv, GrantsTyped
<1>5. \A h \in Accesses, recorded \in BOOLEAN : ~Revoke(h, recorded)
  BY <1>1 DEF Revoke, RevokedGrant, AccessInv, GrantsTyped
<1>6. \A h \in Accesses : Access(h) => h = g
  BY <1>2 DEF Access, AccessInv, GrantsTyped
<1>7. ~Restart
  BY <1>1, <1>2 DEF Restart, AccessRestart, Unused
<1> QED
  BY <1>2, <1>3, <1>4, <1>5, <1>6, <1>7
  DEF Next, vars, FollowStep, ResourcesStep, SubmitStep, RunsStep, AccessNext, WebGetNext, accessVars,
      GrantNotRecorded, PlanNotRecorded, DeliverUrl, DeliverDirectly, ReadResource, Tick,
      CreateSession, SessionExpires, SubmitChunk, Commit

(***************************************************************************)
(* Whatever appends fail between the grant store and the ledger, and       *)
(* whenever the daemon restarts, with either grant store: a resource is    *)
(* served only on a grant that is recorded, not yet as revoked, and in     *)
(* time.                                                                   *)
(***************************************************************************)
THEOREM AccessesAreAudited == Spec => AccessAudited
<1>1. AccessInv /\ [Next]_vars =>
        [\A g \in Accesses : grants'[g].served > grants[g].served =>
           /\ \E i \in OfType(log, "resource_access_grant_created") :
                log[i].access = g /\ now < log[i].expiresAt
           /\ \A i \in OfType(log, "resource_access_grant_revoked") : log[i].access # g]_grants
  <2> SUFFICES ASSUME AccessInv, [Next]_vars, NEW g \in Accesses,
                      grants'[g].served > grants[g].served
               PROVE  /\ \E i \in OfType(log, "resource_access_grant_created") :
                           log[i].access = g /\ now < log[i].expiresAt
                      /\ \A i \in OfType(log, "resource_access_grant_revoked") : log[i].access # g
    OBVIOUS
  <2>1. /\ g \in handed /\ grants[g].status = "stored" /\ grants[g].revokedAt = Never
        /\ now < grants[g].expiresAt
    BY ServedByAccess DEF Access, IsActive
  <2> QED
    BY <2>1 DEF AccessInv, HandedIsRecorded, RecordedIsRevoked
<1> QED
  BY <1>1, AccessInvariant, PTL DEF Spec, AccessAudited
-----------------------------------------------------------------------------
(***************************************************************************)
(* A revocation can be recorded again.                                     *)
(***************************************************************************)
RevocationKey(g) == <<"revoked", g>>

\* The event under the key of a revocation says what the grant store says.
RecordsAgree ==
  \A g \in Accesses : \A i \in DOMAIN log : log[i].key = RevocationKey(g) =>
    /\ grants[g].status # "unused"
    /\ grants[g].status = "stored" =>
         /\ grants[g].revokedAt # Never
         /\ log[i] = GrantRevoked(g, grants[g].revokedAt)

\* A step adds nothing under the key of a revocation.
NoRevocationKey ==
  /\ Grows(log, log')
  /\ \A g \in Accesses : \A i \in DOMAIN log' :
       i \in DOMAIN log \/ log'[i].key # RevocationKey(g)

\* A grant comes to life once, and the time of its revocation does not move.
GrantsMoveOn ==
  \A g \in Accesses :
    /\ grants'[g].status = "unused" => grants[g].status = "unused"
    /\ grants'[g].status = "stored" /\ grants[g].status # "unused" =>
         /\ grants[g].status = "stored"
         /\ grants[g].revokedAt # Never => grants'[g].revokedAt = grants[g].revokedAt

LEMMA RecordsAgreeKept ==
  ASSUME IsLog(log), RecordsAgree, NoRevocationKey, GrantsMoveOn
  PROVE  RecordsAgree'
<1>1. \A i \in DOMAIN log : i \in DOMAIN log' /\ log'[i] = log[i]
  BY KeptPositions DEF NoRevocationKey
<1> SUFFICES ASSUME NEW g \in Accesses, NEW i \in DOMAIN log', log'[i].key = RevocationKey(g)
             PROVE  /\ grants'[g].status # "unused"
                    /\ grants'[g].status = "stored" =>
                         /\ grants'[g].revokedAt # Never
                         /\ log'[i] = GrantRevoked(g, grants'[g].revokedAt)
  BY DEF RecordsAgree
<1>2. i \in DOMAIN log /\ log'[i] = log[i]
  BY <1>1 DEF NoRevocationKey
<1> QED
  BY <1>2 DEF RecordsAgree, GrantsMoveOn

LEMMA UnchangedGrants == ASSUME UNCHANGED grants PROVE GrantsMoveOn
BY DEF GrantsMoveOn

LEMMA QuietLog ==
  ASSUME IsLog(log), UNCHANGED log
  PROVE  NoRevocationKey
BY GrowsReflexive DEF NoRevocationKey

LEMMA CreatedMovesOn ==
  ASSUME AccessInv, NEW g \in Accesses, CreateGrant(g), now' = now
  PROVE  GrantsMoveOn
BY CreatedGrant DEF GrantsMoveOn

\* The keys of the other events.
LEMMA OtherKeys ==
  ASSUME NEW g \in Accesses
  PROVE  /\ \A h, p, t : GrantCreated(h, p, t).key # RevocationKey(g)
         /\ \A p, mode : \A key \in DeliveryKeys \cup {NoKey} :
              DeliveryPlanned(p, key, mode).key # RevocationKey(g)
         /\ \A l : \A e \in CoreAppends(l) : e.key # RevocationKey(g)
         /\ \A t : CommittedContribution(t).key # RevocationKey(g)
         /\ \A h, t : GrantRevoked(h, t).key = RevocationKey(g) => h = g
<1>1. RevocationKey(g) \notin DeliveryKeys \cup {NoKey}
  BY KeysAssumption DEF RevocationKey
<1>2. \A h, p, t : GrantCreated(h, p, t).key # RevocationKey(g)
  BY DEF GrantCreated, RevocationKey
<1>3. \A p, mode : \A key \in DeliveryKeys \cup {NoKey} :
        DeliveryPlanned(p, key, mode).key # RevocationKey(g)
  BY <1>1 DEF DeliveryPlanned
<1>4. ASSUME NEW l, NEW e \in CoreAppends(l)
      PROVE  e.key # RevocationKey(g)
  <2>1. e.key = NoKey
    BY DEF CoreAppends, Proposal, Reveal, Contribution
  <2> QED
    BY <1>1, <2>1
<1>5. \A t : CommittedContribution(t).key # RevocationKey(g)
  BY DEF CommittedContribution, Contribution, CommitKey, RevocationKey
<1>6. \A h, t : GrantRevoked(h, t).key = RevocationKey(g) => h = g
  BY DEF GrantRevoked, RevocationKey
<1> QED
  BY <1>2, <1>3, <1>4, <1>5, <1>6

LEMMA AppendsAnother ==
  ASSUME IsLog(log), NEW e, log' = Append(log, e) \/ log' = AfterAppend(log, e),
         \A g \in Accesses : e.key # RevocationKey(g)
  PROVE  NoRevocationKey
<1>1. Grows(log, log') /\ \A i \in DOMAIN log' : i \in DOMAIN log \/ log'[i] = e
  <2>1. CASE log' = Append(log, e)
    BY <2>1, AppendGrows, NewPositions
  <2>2. CASE log' = AfterAppend(log, e)
    BY <2>2, AfterAppendGrows
  <2> QED
    BY <2>1, <2>2
<1> QED
  BY <1>1 DEF NoRevocationKey

LEMMA DeliverUrlKeys ==
  ASSUME AccessInv, NEW g, NEW p, NEW key \in DeliveryKeys \cup {NoKey}, DeliverUrl(g, p, key)
  PROVE  NoRevocationKey
<1> DEFINE granted == AfterGrant(g, p)
           plan == DeliveryPlanned(p, key, "url")
<1>1. log' = AfterAppend(granted, plan)
  BY DEF DeliverUrl
<1>2. /\ Grows(log, granted)
      /\ \A i \in DOMAIN granted : i \in DOMAIN log \/ granted[i] = GrantCreated(g, p, now + Ttl)
  BY AppendGrows, NewPositions DEF AfterGrant, AccessInv
<1>3. \A h \in Accesses : /\ plan.key # RevocationKey(h)
                          /\ GrantCreated(g, p, now + Ttl).key # RevocationKey(h)
  BY OtherKeys
<1>4. IsLog(granted)
  BY <1>2 DEF Grows
<1> HIDE DEF granted, plan
<1>5. Grows(granted, log') /\ \A i \in DOMAIN log' : i \in DOMAIN granted \/ log'[i] = plan
  BY <1>1, <1>4, AfterAppendGrows
<1>6. DOMAIN granted \subseteq DOMAIN log' /\ \A i \in DOMAIN granted : log'[i] = granted[i]
  BY <1>4, <1>5, KeptPositions
<1>7. Grows(log, log')
  BY <1>2, <1>5, GrowsTransitive DEF AccessInv
<1> QED
  BY <1>2, <1>3, <1>5, <1>6, <1>7 DEF NoRevocationKey

\* A revocation is recorded as the store has it, or is there already.
LEMMA RecordsAgreeRevoke ==
  ASSUME AccessInv, RecordsAgree, NEW g \in Accesses, NEW recorded \in BOOLEAN,
         Revoke(g, recorded)
  PROVE  RecordsAgree'
<1> DEFINE at == RevokedGrant(g).revokedAt
           revoked == GrantRevoked(g, at)
<1>1. /\ grants[g].status = "stored"
      /\ grants' = [grants EXCEPT ![g] = RevokedGrant(g)]
      /\ log' = IF recorded THEN AfterAppend(log, revoked) ELSE log
  BY DEF Revoke
<1>2. /\ RevokedGrant(g).status = "stored" /\ at # Never
      /\ grants[g].revokedAt # Never => at = grants[g].revokedAt
  BY <1>1, ClockAssumption DEF RevokedGrant, AccessInv, GrantsTyped
<1>3. /\ grants'[g] = RevokedGrant(g)
      /\ \A h \in Accesses : h # g => grants'[h] = grants[h]
  BY <1>1 DEF AccessInv, GrantsTyped
<1>4. Grows(log, log') /\ \A i \in DOMAIN log' : i \in DOMAIN log \/ log'[i] = revoked
  BY <1>1, AfterAppendGrows, GrowsReflexive DEF AccessInv
<1>5. \A i \in DOMAIN log : log'[i] = log[i]
  BY <1>4, KeptPositions DEF AccessInv
<1> SUFFICES ASSUME NEW h \in Accesses, NEW i \in DOMAIN log', log'[i].key = RevocationKey(h)
             PROVE  /\ grants'[h].status # "unused"
                    /\ grants'[h].status = "stored" =>
                         /\ grants'[h].revokedAt # Never
                         /\ log'[i] = GrantRevoked(h, grants'[h].revokedAt)
  BY DEF RecordsAgree
<1>6. CASE i \notin DOMAIN log
  <2>1. log'[i] = revoked /\ h = g
    BY <1>4, <1>6, OtherKeys
  <2> QED
    BY <1>2, <1>3, <2>1
<1>7. CASE i \in DOMAIN log /\ h = g
  <2>1. log'[i] = log[i] /\ grants[g].revokedAt # Never
        /\ log[i] = GrantRevoked(g, grants[g].revokedAt)
    BY <1>1, <1>5, <1>7 DEF RecordsAgree
  <2> QED
    BY <1>2, <1>3, <1>7, <2>1
<1>8. CASE i \in DOMAIN log /\ h # g
  BY <1>3, <1>5, <1>8 DEF RecordsAgree
<1> QED
  BY <1>6, <1>7, <1>8

LEMMA RecordsAgreeResources ==
  ASSUME AccessInv, RecordsAgree, ResourcesStep
  PROVE  RecordsAgree'
<1>0. IsLog(log)
  BY DEF AccessInv
<1>1. ASSUME NEW g \in Accesses, NEW p \in Participants, PlanNotRecorded(g, p)
      PROVE  RecordsAgree'
  <2>1. CreateGrant(g) /\ log' = Append(log, GrantCreated(g, p, now + Ttl)) /\ now' = now
    BY <1>1 DEF PlanNotRecorded, AfterGrant
  <2>2. NoRevocationKey
    BY <1>0, <2>1, AppendsAnother, OtherKeys
  <2> QED
    BY <1>0, <2>1, <2>2, CreatedMovesOn, RecordsAgreeKept
<1>2. ASSUME NEW g \in Accesses, NEW p \in Participants,
             NEW key \in DeliveryKeys \cup {NoKey}, DeliverUrl(g, p, key)
      PROVE  RecordsAgree'
  <2>1. CreateGrant(g) /\ now' = now
    BY <1>2 DEF DeliverUrl
  <2> QED
    BY <1>0, <1>2, <2>1, DeliverUrlKeys, CreatedMovesOn, RecordsAgreeKept
<1>3. ASSUME NEW p \in Participants, NEW key \in DeliveryKeys, DeliverDirectly(p, key)
      PROVE  RecordsAgree'
  <2>1. log' = Append(log, DeliveryPlanned(p, key, "none")) /\ UNCHANGED grants
    BY <1>3 DEF DeliverDirectly, accessVars
  <2>2. NoRevocationKey
    BY <1>0, <2>1, AppendsAnother, OtherKeys
  <2> QED
    BY <1>0, <2>1, <2>2, UnchangedGrants, RecordsAgreeKept
<1>4. ASSUME NEW g \in Accesses, NEW recorded \in BOOLEAN, Revoke(g, recorded)
      PROVE  RecordsAgree'
  BY <1>4, RecordsAgreeRevoke
<1>5. ASSUME NEW g \in Accesses, GrantNotRecorded(g)
      PROVE  RecordsAgree'
  BY <1>0, <1>5, CreatedMovesOn, QuietLog, RecordsAgreeKept DEF GrantNotRecorded
<1>6. ASSUME NEW g \in Accesses, Access(g) \/ AccessExpired(g)
      PROVE  RecordsAgree'
  <2>1. UNCHANGED log
    BY <1>6 DEF Access, AccessExpired
  <2>2. GrantsMoveOn
    BY <1>6 DEF Access, AccessExpired, IsActive, GrantsMoveOn, AccessInv, GrantsTyped
  <2> QED
    BY <1>0, <2>1, <2>2, QuietLog, RecordsAgreeKept
<1>7. CASE Tick
  BY <1>0, <1>7, UnchangedGrants, QuietLog, RecordsAgreeKept DEF Tick
<1> QED
  BY <1>1, <1>2, <1>3, <1>4, <1>5, <1>6, <1>7 DEF ResourcesStep, AccessNext

LEMMA RecordsAgreeWebGet ==
  ASSUME AccessInv, RecordsAgree, WebGetNext
  PROVE  RecordsAgree'
<1>0. IsLog(log)
  BY DEF AccessInv
<1>1. ASSUME UNCHANGED <<log, grants>>
      PROVE  RecordsAgree'
  BY <1>0, <1>1, UnchangedGrants, QuietLog, RecordsAgreeKept
<1>2. ASSUME NEW t \in Tokens, Commit(t)
      PROVE  RecordsAgree'
  <2>1. log' = AfterAppend(log, CommittedContribution(t)) /\ UNCHANGED grants
    BY <1>2 DEF Commit
  <2>2. NoRevocationKey
    BY <1>0, <2>1, AppendsAnother, OtherKeys
  <2> QED
    BY <1>0, <2>1, <2>2, UnchangedGrants, RecordsAgreeKept
<1>3. ASSUME NEW t \in Tokens, NEW g \in Accesses, ReadResource(t, g)
      PROVE  RecordsAgree'
  <2>1. /\ CreateGrant(g) /\ now' = now
        /\ log' = Append(log, GrantCreated(g, webget[t].participant, now + Ttl))
    BY <1>3 DEF ReadResource, AfterGrant
  <2>2. NoRevocationKey
    BY <1>0, <2>1, AppendsAnother, OtherKeys
  <2> QED
    BY <1>0, <2>1, <2>2, CreatedMovesOn, RecordsAgreeKept
<1> QED
  BY <1>1, <1>2, <1>3 DEF WebGetNext, CreateSession, SessionExpires, SubmitChunk

LEMMA RecordsAgreeStep ==
  ASSUME AccessInv, RecordsAgree, [Next]_vars
  PROVE  RecordsAgree'
<1>0. IsLog(log)
  BY DEF AccessInv
<1>1. ASSUME UNCHANGED <<log, grants>>
      PROVE  RecordsAgree'
  BY <1>0, <1>1, UnchangedGrants, QuietLog, RecordsAgreeKept
<1>2. ASSUME HttpMutation \/ \E q \in Requests : StageAppends(q), UNCHANGED grants
      PROVE  RecordsAgree'
  <2>1. PICK e \in CoreAppends(log) : log' = Append(log, e)
    BY <1>2 DEF HttpMutation, StageAppends
  <2>2. NoRevocationKey
    BY <1>0, <2>1, AppendsAnother, OtherKeys
  <2> QED
    BY <1>0, <1>2, <2>2, UnchangedGrants, RecordsAgreeKept
<1>3. CASE FollowStep
  BY <1>1, <1>2, <1>3
  DEF FollowStep, accessVars, BusNext, Connect, Abort, LeaveLoop, StartFollow, StartStage,
      StageReturns, StageThrows, StopFollow, HandleStreamEvent, AnswerQuery, ReadQuery, QueryFails
<1>4. CASE ResourcesStep
  BY <1>4, RecordsAgreeResources
<1>5. CASE SubmitStep
  BY <1>1, <1>2, <1>5, RecordsAgreeWebGet DEF SubmitStep, Tick, accessVars
<1>6. CASE RunsStep \/ UNCHANGED vars
  BY <1>1, <1>6 DEF RunsStep, vars, busVars, accessVars
<1>7. CASE Restart
  <2>1. /\ UNCHANGED log
        /\ grants' = [g \in Accesses |->
                        IF accessStore = "sqlite" \/ grants[g].status = "unused" THEN grants[g]
                        ELSE [Unused EXCEPT !.status = "gone"]]
    BY <1>7 DEF Restart, AccessRestart
  <2>2. \A g \in Accesses :
          \/ grants'[g] = grants[g]
          \/ grants[g].status # "unused" /\ grants'[g].status = "gone"
    BY <2>1 DEF Unused
  <2>3. GrantsMoveOn
    BY <2>2 DEF GrantsMoveOn
  <2> QED
    BY <1>0, <2>1, <2>3, QuietLog, RecordsAgreeKept
<1> QED
  BY <1>3, <1>4, <1>5, <1>6, <1>7 DEF Next

LEMMA RecordsAgreeInit == Init => RecordsAgree
<1> SUFFICES ASSUME Init, NEW g \in Accesses, NEW i \in DOMAIN log, log[i].key = RevocationKey(g)
             PROVE  FALSE
  BY DEF RecordsAgree
<1>1. log = <<TopicContract, BatchOpened>> /\ RevocationKey(g) # NoKey
  BY KeysAssumption DEF Init, BusInit, RevocationKey
<1>2. log[i] = TopicContract \/ log[i] = BatchOpened
  BY <1>1
<1> QED
  BY <1>1, <1>2 DEF TopicContract, BatchOpened

\* An event under the key of the revocation is the record it would write again.
LEMMA AgreedIsNoConflict ==
  ASSUME RecordsAgree, NEW g \in Accesses, grants[g].status = "stored",
         grants[g].revokedAt # Never
  PROVE  ~IsConflict(log, GrantRevoked(g, grants[g].revokedAt))
<1> DEFINE revoked == GrantRevoked(g, grants[g].revokedAt)
<1>1. ASSUME NEW i \in KeyHolders(log, revoked)
      PROVE  log[i] = revoked
  BY <1>1 DEF KeyHolders, RecordsAgree, GrantRevoked, RevocationKey
<1>2. IsCompatible(revoked, revoked)
  BY DEF IsCompatible
<1> SUFFICES ~IsConflict(log, revoked)
  OBVIOUS
<1> HIDE DEF revoked
<1>3. CASE KeyHolders(log, revoked) = {}
  BY <1>3 DEF IsConflict, IsNew
<1>4. ASSUME NEW i \in KeyHolders(log, revoked)
      PROVE  IsReplay(log, revoked)
  <2>1. IsCompatible(log[i], revoked)
    BY <1>1, <1>2, <1>4
  <2> QED
    BY <1>4, <2>1 DEF IsReplay, Replays
<1> QED
  BY <1>3, <1>4 DEF IsConflict

(***************************************************************************)
(* Whatever revocations failed to be recorded, are repeated at any later   *)
(* time or raced a restart, with either grant store: revoking a revoked    *)
(* grant again writes the missing record or meets its own.                 *)
(***************************************************************************)
THEOREM RevocationsAreRepairable == Spec => []RevocationRepairable
<1>1. RecordsAgree => RevocationRepairable
  BY AgreedIsNoConflict DEF RevocationRepairable
<1>2. AccessInv /\ RecordsAgree /\ [Next]_vars => AccessInv' /\ RecordsAgree'
  BY AccessInvStep, RecordsAgreeStep
<1>3. Init => AccessInv /\ RecordsAgree
  BY AccessInvInit, RecordsAgreeInit
<1> QED
  BY <1>1, <1>2, <1>3, PTL DEF Spec
=============================================================================
