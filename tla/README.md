# Deliberum in TLA+

Deliberum runs deliberations between participants (models, tools, people): an
orchestrator asks them for contributions, a core turns what they answer into
events, and an append-only ledger of events is the source of truth. A daemon serves
all of it over HTTP and streams the ledger to whoever watches. This directory
holds a TLA+ model of the parts where the order of steps, crashes and retries
decide whether that works, the TLC configurations that check it on small
instances, and TLAPS proofs of its most important theorems.

Paths below are relative to the repository (`packages/...`, `apps/...`).
`PROJECT.json` maps every definition to the lines it models.

## 1. Inventory

| Part | State | Operations | Interacts with | What is hard, and what makes it correct |
|---|---|---|---|---|
| Event stores (`packages/storage`) | per session a log; indexes by id and idempotency key; JSON: memory and a file; SQLite: rows and a write lock | `appendEventResult`, list, load | called by the core | retries, two connections, crashes inside a write, writes that throw. A log only grows, one event per key, what was returned is durable |
| Core, sealed divergence (`core/src/sealed-divergence.ts`) | none; reads the ledger | open, submit, close | event store | retries with keys, any order of calls, clock. One contribution per author; whole, justified, final reveals |
| Core, proposals and outcome (`extraction-proposals.ts`, `process-proposals.ts`, `final-outcome.ts`, `projections.ts`) | none; reads the ledger | propose, challenge, accept, decide, audit, record evidence, compile | event store | any order of events, retries whose input depends on the ledger. No conclusion without acceptance; outcomes follow the frontier |
| Sealed divergence runner (`orchestrator/src/sealed-divergence-runner.ts`) | the round's record in the run store; a claim with a time to live; working copies in memory | one execution of a round | core, run store, adapters | everything at once: awaits, two stores, crash between two writes, expired claims, late answers, budgets |
| Generator runners (extraction, review, repair, evidence check, finalization) | a record each, with the same kind of claim | one execution each | core, run store, generators, HTTP clients | as the runner, with answers of several events written one by one, and acceptance after review |
| Adaptive scheduler (`adaptive-primitive-scheduler.ts`) | none; reads run and ledger | suggest process proposals | orchestration | its rules are written again in the executor. Suggestions are executable, silence means done |
| Run orchestration (`run-orchestration.ts`, `run-routes.ts`) | the rounds of the run record | start stages, execute accepted process proposals, publish | runners, event bus, scheduler | default round ids, rounds retried after newer ones; overlapping stages |
| Event bus, streams, run page (`event-stream.ts`, `run-routes.ts`, `apps/web/src/run-workspace.tsx`) | listener sets by session; streams; a timeline | subscribe, publish, unsubscribe twice, follow, read | orchestration, HTTP handlers | streams that come while others leave; frames and reads that overtake each other. Every event published, no gap, nothing sealed shown |
| Run creation and run stores (`create-deliberation-run.ts`, `json-file-run-store.ts`, `sqlite-run-store.ts`) | runs by id; JSON: memory and file | create, update, load | ledger, runners | two stores written one after the other; memory before file |
| Resource access grants (`resource-access-*.ts`, `resource-delivery*.ts`) | grants in memory or SQLite | deliver, use, expire, revoke | ledger (audit events), WebGET | the grant store and the ledger change one after the other, appends fail, the process restarts |
| WebGET sessions (`webget-session-store.ts`, `webget-routes.ts`) | sessions with chunks, by token | create, submit chunks, read a resource, commit | core, grants | commits repeated under other tokens, against direct contributions and the reveal |
| Daemon process lock (`sqlite-daemon-process-lock.ts`, `server.ts`) | a row with owner and expiry; a timer | acquire, heartbeat, release | SQLite file, daemon start and stop | late or failing heartbeats, crashes. One daemon per database |
| HTTP API (`app.ts`, routes) | none of its own | the mutations above | all of the above | requests land between the turns of a runner |
| Provider setup (`setup-env.ts`, the setup routes of `app.ts`, `install...` of `run-orchestration.ts`) | the env file's managed blocks; the environment, adapters and generators in use | save a setup, save or clear role defaults, load at start | HTTP API, run orchestration | the file is read and written asynchronously, `writeFile` empties it first, the process dies in between; a setup replaces another one that is in use. What was saved is there after a restart, and what is reported is what runs use |
| Operation audit log (`operation-audit-log.ts`, `sqlite-operation-audit-log.ts`) | the latest entries in memory, a JSON file or a table; rotated JSONL files | record, prune, load, export, rotate | every request's middleware | memory before file, insert before prune, a rotation of several renames. A recorded entry stays until later ones displace it; the export has no gap |
| Delivery planner, resource broker, adapters, client, CLI, other web pages, evaluation, presets, schemas | tables, or none | | | not modelled: see section 8 |

`PROJECT.json` lists these components in detail with their status, and under
`hazards` each place where one of these difficulties bites.

## 2. Modules

```
EventStore                  decision of appendEventResult            (pure)
  EventLedger               what every store promises                (abstract specification)
  JsonFileEventStore        file store, crash and restart            implements EventLedger
    JsonFileEventStoreProofs
  SqliteEventStore          transactions of several connections      implements EventLedger
    SqliteEventStoreProofs
  SealedDivergence          open / submit / close on a ledger
    SealedRound             executions of the runner over ledger and run store
      SealedRoundProofs     of both, and that rounds implement SealedDivergence
  Deliberation              proposals, acceptances, conclusions, outcome on a ledger
    DeliberationProofs
    AdaptiveRun             scheduler, accepted process proposals, stages of a run
      AdaptiveRunProofs     (with DeliberationProofs)
    GeneratorRound          executions of the five generator runners
      GeneratorRoundProofs  (with DeliberationProofs)
  DaemonEventBus            publication, streams, the page that follows a run
    ResourceAccess          access grants and their audit trail
      WebGet                submissions over links
        Daemon              all of these, DaemonRuns and restarts, over one ledger
          DaemonProofs
DaemonRuns                  run creation and run stores
DaemonProcessLock           which daemon may use the database
SetupEnv                    the env file and what a setup installs
OperationAudit              the audit log and its exported files
MCDaemonHost                lock, event stores, setup and audit log of one daemon
  DaemonHostProofs          of the four of them
MC<module>                  instances for TLC, with one or several .cfg each
```

**EventStore** is the decision the three stores share: an input is new, a replay
of the event under its key, or a conflict. The comparison of a retry with the
stored event ignores what `idempotency.ts` ignores. The in-memory store is this
decision applied to a log, so the modules above the stores use
`AfterAppend` and `ReturnedEvent` directly.

**EventLedger** is the abstract specification: per session, a log that only grows, with
unique keys and ids. Its one action extends the logs by any number of events at once,
because a JSON store that lost a write makes its event visible with the next one.

**JsonFileEventStore.** `mem` is `eventsBySession` (the indexes are functions of
it), `file` the persisted ledger, `up` whether the process runs, `acked` a history
of every event returned as appended, and `replayed` of those returned as replays since
the last start. `AppendStored` is `storeEvent` then `persist`;
`AppendPersistFails` is the same call when `persist` throws; `Crash` covers a death
between calls and inside `persist` before or after the rename; `Restart` is `load`
with its validation as the guard.

**SqliteEventStore.** `rows` are the committed rows, `writer` the holder of SQLite's
write lock, and `pc`, `call`, `row` the transaction of each connection. `lookup`,
stamping, insert with commit, and return are separate steps. A crash rolls back or,
after the commit, loses the answer.

**SealedDivergence.** `ledger` is one session's log; an event's id is its position.
Node runs an operation of the core without interruption, so each is one action;
the ones that throw are stuttering steps.

**SealedRound** adds `run` (the plan, its budgets, and who else uses its batch; chosen once),
`round` (the record `run.sealedDivergenceRound`), `expired`
(its claim is past `expiresAt`), `exec[e]` (program counter and working copies of an
execution), `crashes`, and the history `called`. One action per store write or await
of `executeClaimedSealedDivergenceRound`: claim, budget check, opening, dispatch, one
answer or failure per adapter, merge and decision, close, record, release. The event
loop runs a turn to its end, so other executions and HTTP requests move only when
`Quiet` holds; a crash may come between any two steps of a turn. A crash loses `exec`
and keeps `round` and `ledger`, as the file and SQLite stores do.

**Deliberation** has the nine mutations of proposals, final candidates, audits and evidence
results, one action each, and the projections that read them back (`LatestStatus`, `AcceptedProposals`,
`Frontier`, `Outcome`). Each call ends in one append. Inputs that a call computes from the
ledger (the grounds and alternatives of a final candidate, the need an evidence result is
for) are computed when it is made, since a retry computes them again and the store compares.

**GeneratorRound** models the five generator runners, which are written one like the other:
`kind` says which one a behaviour is about and the definitions that differ are cases on it
(what may be a source, what a generator answers, the key of each item, whether acceptance or
compilation follows). `scenario` fixes the ledger the round starts from and the calls that
ask for it; `round`, `exec`, `crashes` are as in SealedRound. An answer of several events is
written one event per step, so a crash or a failure leaves a part of it.

**AdaptiveRun** puts the scheduler (`Suggestions`, by its gaps) and the executor
(`TargetsValid`, `ExecuteAccepted`) over the same ledger. A step of a stage is an execution of a
round in which one of its `Generators` answers, or none. The round may be completed by it, or
stay unfinished (`failed` stands for each such status); then it is executed again and the
generators that have not answered (`Written`) write in it behind what is there, an acceptance
policy after the last reviewer. The inside of an execution is the subject of the two round modules.
Each stage has the guards of its context (`ExtractionContext`, `RepairContext`, `EvidenceContext`:
needs that are accepted, about claims that are accepted) and of its round (`CanBegin`).
`rounds` is the run record's list of rounds per stage, with the id, the material and the events
of each.

**DaemonEventBus.** `log` is the ledger of one session, `published` what this process has
published, `listeners` and `entry` the listener sets ever made and the one the bus holds,
`stream[s]` an SSE connection, `request[q]` a start request with what its stage saw before,
`page` the web page's timeline. A mutation appends and publishes in one step; a stage appends
over time and publishes when it ends. A stream's route unsubscribes when it is aborted
(`Abort`) and again when its loop ends (`LeaveLoop`).

**ResourceAccess** adds `grants`, `handed` (whose URL a requester has) and a clock. Each
handler changes the grant store first and the ledger second, or fails in between. **WebGet**
adds `webget[t]`, the session of a token. **DaemonRuns** has `contracts` (sessions with their
topic contract), `runsById` and `runFile`, and the history `acked`. **Daemon** composes them: a
`scenario` says which of the parts is busy in a behaviour, all of them share the ledger, the
publication and `Restart`, which loses what is in memory.

**DaemonProcessLock.** `owner` and `expires` are the row, `serving[d]` says that a
daemon has opened the stores, `timer[d]` and `nextBeat[d]` are its interval timer, which a
busy event loop runs up to `MaxDelay` late. The history `timely` is true until a heartbeat
throws or is later than `Slack`.
`HeartbeatThrows` is the `catch` in `startHeartbeat`, which clears the timer and
nothing else.

**SetupEnv.** `envFile` says of each managed block whether it is absent, cut, or what it holds;
`env` is the environment the daemon reads its setup from, `runtime` the key, adapter and generators
that runs use, `call[c]` how far a request is: it has read the file (`Read`), truncated it (`Open`),
written it (`Write`, `WriteFails`), and then applies its setup and answers (`Apply`). Two requests
overlap at each of these steps; `Overlaid` is what the file system may leave of two writes.
`Stop` and `Start` are a daemon's end, anywhere, and `loadManagedDaemonSetupEnvFile`. The history
`saved` is what the answered calls have saved, as long as calls came one after the other.

**OperationAudit.** `log` is the configured log, `entries` its memory, `disk` its file or table,
`files` the JSONL files by their index, as the numbers of their lines, `recorded` the history
of the entries whose request was answered. A record that fails, or dies, after each of its writes is an action of its
own; `Rotated(k)` is a rotation after `k` of its operations.

**MCDaemonHost** checks the lock, the two event stores (whichever `createStartDaemonEventStore`
opens), the setup and the audit log in one instance. They do not touch one another, so a
behaviour follows one of them (`part`); durability and the refinement are stated of whichever store
is open.

## 3. Runs

Every invariant and property is stated with a comment in the module it belongs to.
Deadlock checking is off where the system really stops: at the bound of the clock,
of the ids or of the ledger, or when every budget is used up (a daemon, store or round that has
nothing left to do is not an error). It is on in `daemon_host`, where an event store can always
try again, crash or restart; `Halted` is the end of its other parts.

| Run | Question | Bounds |
|---|---|---|
| `daemon_host` | Does one daemon at most use the database while heartbeats are timely, and does its row change hands lawfully under any failure? Are events returned as appended durable in either store, do SQLite's constraints and chain hold, do both stores implement the ledger? Is a saved setup there after a restart? Do recorded audit entries and exported lines stay? | lock: 3 daemons, TTL 3, beat 1, slack 1, delay <= 3, clock 0..10; JSON: 2 sessions, 3 ids, 1 key, 2 bodies, any number of crashes; SQLite: 2 connections, 1 session, 3 ids; setup: 2 overlapping requests, 2 values; audit: 3 logs, 4 entries, 2 kept, 3 rotated files, clock 0..1 |
| `json_store_replay` | violation: see section 6 | the JSON part |
| `daemon_lock_busy` | violation: see section 6 | the lock, delay <= 1 |
| `setup_in_use` | violation: see section 6 | the setup part |
| `sealed_batches` | Are reveals whole and justified, contributions unique, and batches sealed once exposed? | 2 authors, 2 batches, 4 policies, 1 shared key or none, 2 payloads, clock 0..1 |
| `round` | What does a round keep under each reveal policy, with crashes, store errors, expired claims, takeovers, retries and a running clock; and beside HTTP clients and a follow-up round? | 2 participants, 2 executions, 1 crash; alone: 4 plans, calls <= 4, events <= 3 or 4, clock 0..1; with HTTP: 2 plans, 2 rounds, 3 batch ids, calls <= 2 |
| `round_fair` | Liveness: is every claim released, does every execution end? | 4 plans, store errors and expired claims, calls <= 3, no crash, no symmetry |
| `round_reclaim` | violation: see section 6 | `all_completed`, 1 crash, calls <= 4 |
| `adaptive_run` | Are conclusions grounded, outcomes up to date, calls repeatable, suggestions executable with a stage that can begin, silences justified, rounds true to their material? | clients alone: 6 events; runs from the start, 6 events with requests and 12 without, and from after an acceptance, 6 to 11 events; two round ids, two generators |
| `generator` | Do record and ledger agree, is nothing done twice, do answers replay, do evicted executions keep out, does acceptance follow review? | each of the 5 kinds, on ledgers of 2 to 4 events, 2 generators, 2 executions, 1 crash, 1 call of another client |
| `daemon` | Is every event published, nothing sealed shown, no gap in a followed timeline; do grants and revocations match their audit; are commits recorded and runs kept? | 2 streams, 2 requests, 2 grants, 2 tokens, 2 chunks, 2 runs, clock 0..3, 1 restart, 4 to 7 events |
| `stream_lost` | violation: see section 6 | as `daemon`, streams only |

Why the bounds suffice. Two executions give every pair of an evicted and a taking-over
execution; participants and generators of a round do not interact except through counts and
shared targets, for which two (with quorum 1, all, or none) give each side of each comparison;
one crash per behaviour with expiring claims gives a crash at every step and a successor at
every later one; two batches distinguish "this batch" from "another"; one key for two callers
gives replay, conflict and sharing. The clocks need one value before, one at and one after a
deadline or an expiry. Two streams are one that leaves and one that comes; two requests are
two stages that overlap; two tokens are a submission and its repetition. The starting ledgers of `generator` and
`adaptive_run` are chosen so that drafts share a candidate's name, and bring an open need, an
open objection or neither; one of `adaptive_run` has a need whose claim nobody proposed. Its requests
are given stage by stage, with two round ids where the stages mix rounds up, and with events enough
for two generators to write in one round, for an acceptance after two reviewers, and for each
exception of `SuggestionsExecutable` to be met. For the lock, TTL, beat and slack are the smallest durations with
the default's order, and ten ticks are several lives of the row. Two setup values are the one in
use and the one that replaces it. Four entries of a log that keeps two, at one time or at two, are
pruned by time and by id; three rotated files have a first, a middle and a last one.

Symmetry is used for event ids, payloads, participants, generators (of `adaptive_run`), executions,
batches, streams and requests,
and only in runs without liveness.

Each property of a passing run has a mutant: an operator in the module, marked
`\* Mutant:`, that changes one definition the way a slip in the code would, and makes
the run find that property violated.

## 4. Fairness

`FairRoundSpec` asks strong fairness of `Proceed(e)` for each execution `e`: a turn
of `e` that is ready again and again is taken. Node's event loop is a queue, so a ready
continuation is not overtaken for ever; strong fairness is needed because `Quiet`
disables `Proceed(e)` whenever another execution is inside its turn. Two conditions
of the code are behind it. A participant that never answers is turned into
`timed_out` by `executeAdapterWithTimeout` only when the plan sets
`timeouts.participantMs`, which is optional; without it an adapter that stays silent
keeps its execution (and, until the TTL, its claim) waiting, and the liveness results
do not apply. And the process lives: `MaxCrashes = 0` in `round_fair`, since a crash
ends an execution by other means. Safety runs assume no fairness.

No liveness is stated elsewhere. The generator runners have no timeout of their own, so no
fairness of a generator's answer is justified; a run of AdaptiveRun goes on when its clients
ask it to, who need not (`SilentOnlyWhenDone` is the safety part: the scheduler does not stop
suggesting early); a stream that lost its place is never repaired by the code.

## 5. Proofs

All theorems hold for every value of the constants that satisfies the assumptions
named in the modules, and together they state every safety property, invariant or action
property, that a passing run checks. The assumptions say that sentinels are not members of what they stand outside
of (`NoStream`, `NoRound`, `NoBatch`, `NoExec`, `NoKey`, `NoConnection`), that the keys the code
composes are what it composes (`RoundKeysAssumption`: a participant's key is not the round's
opening or closing key; `KeysAssumption` of GeneratorRound and ResourceAccess), that bounds are
numbers and participants finitely many, and which states behaviours begin in
(`RunsAssumption`, `ScenariosAssumption`, `StartsAssumption`): ledgers whose events name earlier
ones, as the core writes them. TLC evaluates all of them.

**JsonFileEventStoreProofs** shows that the store implements `EventLedger`
(`StoreImplementsLedger`) and that its file is durable (`FileIsDurable`). The invariant says of
the memory what is wanted of the file: both are valid ledgers, and while the process runs the
memory extends the file. The file alone would not do, for a failed write leaves the memory
ahead, and the next write persists both events. `StoreEventValid` is the core: an event
that the indexes admit, stamped, continues a valid ledger.

**SqliteEventStoreProofs** proves the same of interleaved transactions: `AcknowledgedStays`,
`ChainStaysIntact` and `StoreImplementsLedger`. The rows are a set; `IsLog` says that those of a
session are the entries of one sequence, and `QueriesRead` that the three queries
(`ORDER BY sequence`, `MAX(sequence) + 1`, `LIMIT 1`) read that sequence, which takes a counting
argument (`RowsBelow`). `TransactionsHold` is why the interleaving is harmless: between `BEGIN
IMMEDIATE` and the commit a connection holds the lock, so the row it has stamped still `Fits`,
that is, continues its session's log and repeats no id and no key. The refinement maps the rows to their
logs; `InsertExtends` shows that a commit appends to one of them. The only assumption is
that no connection is called `NoConnection`.

**SealedRoundProofs**, first of the batches alone. `IInv` is the conjunction of `TypeOK`, the
invariants of `sealed_batches` and three facts they need: a batch is opened once
(`OpenedOnce`: otherwise `OpenedBatch`, the configuration by which a reveal is judged,
would depend on a choice), a revealed batch was opened (`RevealedWasOpened`), and nothing
joins a batch after its reveal (`RevealIsFinal`). None of
the invariants is inductive alone: that a reveal stays whole needs that nothing joins
its batch later, and that it stays justified needs both. The argument:

1. `StepAppends`: a step leaves the ledger alone or appends one *admissible* event. This is
   where the core's checks and the store's idempotency meet: the case of a retry under the
   author's own key, which the core lets through, is a replay or a conflict in the store
   and appends nothing.
2. `Keeps...`: each conjunct survives the append of an admissible event.
3. `RevealedBatchFrozen`: no admissible event belongs to a revealed batch, whence also
   `ExposedBatchIsClosed`, the action property.

The theorems of `Spec` are `TypeCorrect`, `NoDoubleContribution`, `RevealOnceAndWhole`,
`RevealsAreJustified` and `ExposedBatchIsClosed`.

Then of the rounds (`RoundSpec`). `RoundRefinesBatches` shows that each step of a round is a step of
SealedDivergence or leaves its ledger alone, which brings the batch invariants (`IInv`) to
rounds. `RoundInv` adds what couples ledger, record and executions:

- `ClaimInv`: who is inside a turn owns the claim, and the record of a working owner is
  *running*. This is why an evicted execution finds out before it writes, and gives
  `RevealedRecordStays` and `ClaimIsKept`.
- `BatchInv`: the keys of a round name its own events, and only the record's round has an open
  batch. That keys are unique is what makes the opening after a crash return the batch
  of the opening that was not recorded (`AtMostOneBatchIsOpen`).
- `RecordNeverAhead` and `CopyInv`: neither the record nor any working copy says more than the ledger
  holds. Neither is inductive alone, as each is written from the other.
- `ViewInv`: who was shown a contribution belongs to a revealed batch and is not admitted to it
  (`ContributionsIndependent`).
- `CallsInv` and `EventsInv` restate the budgets as what the owner of the claim may *still* use: calls and events so
  far, those its next turns may add, and the reveal if it would come to that. `BudgetsHold`
  follows since those that are not owner may not use anything.

**DeliberationProofs** is about the ledger under the calls of its clients. `LedgerOK` says that no key has
two events and that every event refers to earlier ones of the right type. That its
projections can be compared over time rests on lemmas of what one more event changes in them: an
acceptance is the only event that changes a frontier.

- `NoConclusionWithoutAcceptance` proves `ConclusionsGrounded`: the frontier a conclusion reads
  consists of drafts with their acceptance, and both are among its grounds.
- `OutcomesCoverTheFrontier` proves `OutcomeCoversFrontier`, which no invariant makes true but
  `compileOutcome` itself: the proof is about its branches.
- `RepeatedCallsFindTheirEvent` proves `RepeatedCallReplays` from `FinalsAsToday`: a final
  candidate that no acceptance follows has the grounds and alternatives it would be given today.

**AdaptiveRunProofs.** `RunInv` says that each event of the ledger is *right* (`LedgerRight`) and each
round of the record too (`RoundOK`): a review answers the one extraction round it names,
the audits of a finalization are of its one candidate. One id per stage names one
round (`OneRoundPerId`), else a retry could resume another one. A round that has events is written
in again: `EndStageStep` shows for each kind of stage that the old events and the new ones are both about the
material the record names, since that does not change between executions (`CanBegin`).
`RoundsStayTrue` and `SilenceMeansDone` follow from it. `SuggestionsCanRun` compares the scheduler's rules
with the executor's (`SuggestedTargets`) and with the guards of the stages (`SuggestedStage`); the
second needs how rounds come by their ids and material (`RecordInv`): only a round for a process
proposal is begun with a candidate, only a round with a candidate is completed, and rounds of
extraction and review have the default id or the one a request names. `RoundIdsAssumption` says that
these two differ from each other and from the ids that process proposals give, which the code
prefixes. `RunsConcludeOnAcceptance` states conclusions and outcomes
for ledgers to which the stages of a run add events. `SessionsReplayCalls` is limited to sessions without a
run, whose calls are those of Deliberation: in AdaptiveRun a stage's appends carry no keys, their
retries are the subject of `AnswersFindTheirEvents`.

**GeneratorRoundProofs.** `RoundInv` has a part for each thing that a partly written answer, an
evicted execution or another client could spoil: `TurnInv` (one execution is inside a turn and, where its
turn took the claim, still owns it), `WorkInv` (an event with a key of the round is by the member,
of the kind and about the target that its key says), `RecordInv` (what the record lists is such
work, and a done generator has some), `MemoryInv` (what an execution still has to write,
`WritingOK`, and to accept, `AcceptingOK`) and `AcceptInv`. `WorkInv` is the heart: one event per key, and the key
determines generator and target, so a second answer finds its key taken (`NoWorkTwice`), and if it
is the same answer, finds its event (`AnswersFindTheirEvents`). For repairs the latter needs
`RepairsAsToday`, that the drafts a repair rests on are those of today as long as nothing
was accepted since the round's start. The others: `RecordTellsTheLedger`,
`OnlyOwnersAppend`, `AcceptancesFollowReviews`.

**DaemonProofs**, about the specification of the composed daemon, so that every handler of
every part counts. All of it rests on one fact, `Handled`: a step of a handler only adds
events to the log and publishes exactly what it adds (a stage publishes later).

- `NothingStaysUnpublished` proves `PublishedWhenQuiet` from `PublishedOrAwaited`: an event
  since the start is published, or a stage is running that did not see it when it began. The
  second case is what makes it inductive: an event appended while two stages run is awaited by
  both, and the end of either publishes it. `BeforeInLog` is needed for the events that are
  appended after a stage began not to be among those it saw.
- `RunsAreSafe` proves `RunsSurvive` with `FileBehindMemory`: a failed write leaves the memory
  ahead, and the next write saves it too, so what a caller was told can only be overtaken.
- `CommitsAreRecorded` proves `CommittedIsRecorded` with `OneContributionEach`: a commit that
  finds its key taken is a replay, of an event with its content, and the only one of its
  participant.
- `AccessesAreAudited` proves the action property `AccessAudited` from two invariants about two
  stores that change one after the other. `HandedIsRecorded`: a grant whose URL somebody has is
  in the ledger with its expiry, or its store has lost it. `RecordedIsRevoked`: a
  revocation in the ledger belongs to a grant that is revoked or lost. Both fail if a
  handler changes its stores in the other order.
- `RevocationsAreRepairable` proves `RevocationRepairable`: a revocation in the ledger bears the
  time that its grant still has, since a grant revoked once keeps its time, so that the record a
  repeated call would write is the one that is there (`RecordsAgree`).
- `StreamsKeepTheirPlace` proves `ListenersKept`. `OneSetInUse` says that, while a stream that
  did not come late is open, all streams that are open or being closed are in the one set the
  bus holds; this is what makes the second call of an unsubscribe harmless. A stream is *late*
  when it came in the last second of another one, or after that had cost another stream its
  place; `stream_lost` shows that such a stream does lose it.
- `WatchersSeeTheLog` proves `WatchInv`: what frames in flight, reads and the page hold are
  events of the log in a view that was *honest* when it was made, hence is for ever as
  batches are not sealed again (`FramesHonest`, `PageHonest`), and reads are of a whole prefix,
  which, when no newer read is due, includes all that was streamed (`ReadsAreWhole`).
  `SealedStaysRedacted` (`RedactedUntilReveal`) and `TimelinesHaveNoGap` (`NoGapBehindStream`) follow
  from it.

**DaemonHostProofs** is about MCDaemonHost, the parts that do not touch one another. The theorems of the
lock and of the audit log are stated of these components' own specifications, those of the stores and
the setup of `HostSpec`.

- The lock. `ServingOwns` ties the row to the timer: as long as `timely` holds, a serving daemon
  owns the row, and `expires + HeartbeatMs = nextBeat + TtlMs`. With `SlackFits == HeartbeatMs +
  Slack < TtlMs` it is inductive, and implies `MutualExclusion` since two daemons cannot own one
  row. `SlackFits` is a hypothesis of `ServingDaemonOwnsRow` and `OneDaemonServes`, not an assumption of the
  model: the code only requires `heartbeatMs < ttlMs`. `RowChangesHandsExpired` proves
  `TakenOnlyWhenExpired` and needs neither: of all statements only `acquire` writes another
  daemon's row. That `timely` cannot be dropped is what `daemon_lock_busy` shows.
- The event stores. `StoresInv` instantiates the invariants of the two proof modules above for
  the store that the daemon has opened; `StoredEventsAreDurable`, `StoredChainsStayIntact` and
  `StoresAreLedgers` state what the run checks.
- The setup. `SavedSetupsAreLoaded` proves `SetupSurvivesRestart` from `SetupInv`: while
  `saved` is settled, calls came one by one (`OneByOne`), so one call at most is under
  way, and the file is what is saved, empty, or what that call is going to answer for, according to its step.
- The audit log. `AnsweredStaysAudited` proves `RecordedSurvives`. The property counts the entries
  that are later than a lost one; the invariant `SurvivalInv` says the same of the memory *and* of the
  file, as the next write is made from one and the next start from the other. That pruning
  keeps it is a counting argument: among the entries a prune keeps are `MaxEntries` later ones
  than each that it drops. `MirrorKeepsLatest` proves `ExportKeepsLatest`, which is
  inductive together with the type of the files. `RotatedMoves` says where `k`
  operations of a rotation leave each file: `NewIndex` keeps the order of the files and only the
  oldest one goes, so a gap between two files, left by an interrupted rotation, never becomes a
  gap between two lines.

**Only model-checked.** Liveness (`ClaimReleased`, `ExecutionEnds`): it needs the fairness of
`FairRoundSpec`, so ENABLED, which is beyond the prover. Induction over data is too, but no
definition that the theorems are about is recursive. `RepeatedCallReplays` of sessions that have a
run: `RepeatedCallsFindTheirEvent` and `SessionsReplayCalls` are about sessions without one. The properties that fail (section 6) are
TLC's counterexamples.

## 6. Disagreements found

| Run | What the code does | What is said |
|---|---|---|
| `json_store_replay` | The event enters the memory before `persist`; after a failed write a retry is answered from memory with an event no file holds | `docs/EVENT_LEDGER.md:3` |
| `round_reclaim` | After a crash between a contribution and its record, the taking-over execution asks again; a different answer conflicts with the stored contribution and the round can no longer be revealed | `stage18c.test.ts:449` |
| `daemon_lock_busy` | One failed heartbeat clears the timer; the row expires under a daemon that serves on, and a second one starts | `docs/STORAGE_RECOVERY.md:113` |
| `setup_in_use` | A setup saved while another one is in use replaces the key and the participants' adapter; the generators that the first one installed stay, with its base URL and model, until a restart | `setup-env.ts:140` |
| `stream_lost` | A stream unsubscribes twice, up to a second apart; the second call removes the listener set that a stream opened in between has joined, which then receives no event | `docs/CLI_DAEMON_WEB.md:105` |

Limits of what the code promises are conditions of properties rather than findings, where
nothing in the repository says otherwise:

- `WithinBudgets`, of the events, leaves out `deadline` plans (a deadline that passes during the dispatch
  adds a reveal that the estimate did not count) and HTTP clients, whose events no budget counts.
- `RepeatedCallReplays` leaves out three event types whose payload ids `idempotency.ts` does not
  ignore, so that their retries conflict, and final candidates after a later acceptance, whose
  sources and alternatives are computed anew (`final-outcome.ts:184`), so that the repeated call
  conflicts with its own event, where `docs/CLI_DAEMON_WEB.md:193` speaks of a replay without
  saying until when.
- `SameAnswerReplays` leaves out evidence checks and finalizations for the same two reasons.
- `SuggestionsExecutable` names what keeps a suggestion from being executed: a frontier with two
  candidates of one id, which the executor counts twice; a divergence revealed without a
  contribution, of which nothing can be extracted; a need whose claim is not accepted
  (`evidence-check-context.ts:50`); and requests with round ids of their own. The scheduler looks at the latest
  round, the executor runs the default one: a review of the newest extraction conflicts with a
  default review begun for an older one, an extraction or a finalization suggested again finds the
  default round completed or begun for another review. Each of these is reached in `adaptive_run`.
- `ListenersKept` leaves out late streams, see `stream_lost`.
- `SetupSurvivesRestart` leaves out calls that overlap and calls that are interrupted while they
  write: the first may lose a block that was saved, both may leave a cut block, with which the daemon
  does not start (the env file is not written by way of a temporary file, as the stores are).
  Role defaults that are saved before any provider is are loaded, but not used, until one is.

## 7. What is abstracted

- Event hashes: the id of an event stands for its hash (collision freedom).
- Names, texts and payloads are model values; validation of shapes by the schemas is not
  modelled, inputs are the well-formed ones.
- Clocks are natural numbers; the TTL of a round's claim is nondeterministic (`ExpireClaim`,
  `ClaimsExpire`), which allows more than any TTL and clock do.
- SealedRound and GeneratorRound take a write to either store as atomic and durable; what the
  stores do inside is the subject of the store modules and DaemonRuns. They have one process;
  two daemons on one database are what DaemonProcessLock excludes.
- `maxEvents` of SealedRound counts from the topic contract on.
- A step of AdaptiveRun is an execution in which at most one generator answers, so that one in
  which several answer is several steps, and a stage of DaemonEventBus is whatever the core may
  append. The stages' own interleavings are those of the round modules.
- Daemon lets one part be busy at a time beside restarts and, for submissions, HTTP
  contributions: the parts share the ledger and the bus, which only adds events of other
  types to the log of each.

## 8. Not modelled, and why

- The delivery planner is a chain of conditions on one resource and one policy, without state;
  ResourceAccess takes every plan it can return. The resource broker is a table by id.
- Adapters and provider clients are calls to external services: the runners see an answer, an
  error or silence.
- Validation, registries, schemas, presets and the parsing of settings transform or check
  single values.
- Client, command line, evaluation and the web pages beside the run's event timeline present
  or forward what the daemon returns. They are more than half of the repository's lines, which
  is why the map covers a small share of it: of `packages/core/src` and the runners it covers most
  of the code that changes state.
- Of the audit log: its export over HTTP, which is sent and forgotten, and the parsing of entries.
- Of the modelled parts: texts, sizes and redaction markers of contexts, diagnostics and
  provider metadata, URL signatures and served content, previews and summaries of a run.

## 9. What is left

1. **Runs over failing run stores**: SealedRound and GeneratorRound with the writes of DaemonRuns
   that fail, where a claim in memory outlives its file.
2. **SharedLedger**: two cores on one SQLite ledger, to state what the process lock is for.
3. Proofs of these two, in the modules that hold the proofs of their parts, as each
   component's theorems have their module.
