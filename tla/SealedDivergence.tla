--------------------------- MODULE SealedDivergence ---------------------------
(***************************************************************************)
(* The sealed batch protocol of packages/core/src/sealed-divergence.ts on  *)
(* the event ledger of one session: a batch is opened, its participants    *)
(* contribute without seeing each other, and the batch is revealed as a    *)
(* whole once its reveal policy allows it.                                 *)
(*                                                                         *)
(* The core keeps no state of its own: each operation reads the events of  *)
(* the batch, checks, and appends at most one event.  Node runs it without *)
(* interruption, so an operation is one step.  An operation that throws,   *)
(* and a replay, leave the ledger alone: they are stuttering steps.        *)
(*                                                                         *)
(* An event's id is its position in the ledger.                            *)
(***************************************************************************)
EXTENDS EventStore, FiniteSets

CONSTANTS Authors,    \* ids that may author a contribution
          Batches,    \* batch ids the id generator may produce
          Configs,    \* batch configurations callers ask for
          Payloads,   \* contribution payloads
          Keys,       \* idempotency keys of callers
          System,     \* the author of the batch events
          MaxTime     \* bound of the clock

Policies == {"all_completed", "manual", "quorum", "deadline"}

\* SealedBatchSchema, the fields a caller chooses.
BatchConfig == [participants : SUBSET Authors, revealPolicy : Policies,
                quorumCount : Nat, deadlineAt : Nat]

ASSUME KeysAssumption == NoKey \notin Keys
ASSUME SystemAssumption == System \notin Authors
ASSUME ConfigsAssumption == Configs \subseteq BatchConfig
ASSUME MaxTimeAssumption == MaxTime \in Nat

VARIABLES ledger,   \* the session's events, in sequence order
          now       \* the clock

vars == <<ledger, now>>
-----------------------------------------------------------------------------
(***************************************************************************)
(* getOpenBatchState: the events of a batch in a ledger.                   *)
(***************************************************************************)
OfType(l, b, type) == {i \in DOMAIN l : l[i].batch = b /\ l[i].type = type}

Opened(l, b) == OfType(l, b, "sealed_batch_opened")
Contributions(l, b) == OfType(l, b, "sealed_contribution_submitted")
Revealed(l, b) == OfType(l, b, "sealed_batch_revealed")

OpenedEvent(l, b) == CHOOSE i \in Opened(l, b) : TRUE
OpenedBatch(l, b) == l[OpenedEvent(l, b)].body

IsOpen(l, b) == Opened(l, b) # {} /\ Revealed(l, b) = {}

ContributingAuthors(l, b) == {l[i].author : i \in Contributions(l, b)}

(***************************************************************************)
(* The inputs of the three appends.                                        *)
(***************************************************************************)
OpenInput(b, cfg, k) ==
  [type |-> "sealed_batch_opened", batch |-> b, author |-> System, key |-> k,
   body |-> cfg, based |-> {}]

ContributionInput(l, b, a, k, p) ==
  [type |-> "sealed_contribution_submitted", batch |-> b, author |-> a,
   key |-> k, body |-> p, based |-> {OpenedEvent(l, b)}]

\* Mutant: the contributions are collected over all batches.
RevealInput_AllBatches(l, b, k, t) ==
  [type |-> "sealed_batch_revealed", batch |-> b, author |-> System, key |-> k,
   body |-> OpenedBatch(l, b),
   based |-> {OpenedEvent(l, b)} \cup
             {i \in DOMAIN l : l[i].type = "sealed_contribution_submitted"},
   revealedAt |-> t]

RevealInput(l, b, k, t) ==
  [type |-> "sealed_batch_revealed", batch |-> b, author |-> System, key |-> k,
   body |-> OpenedBatch(l, b),
   based |-> {OpenedEvent(l, b)} \cup Contributions(l, b), revealedAt |-> t]

(***************************************************************************)
(* assertAuthorizedParticipant and assertNoDuplicateContribution.          *)
(***************************************************************************)
IsAuthorized(cfg, a) == cfg.participants # {} => a \in cfg.participants

\* Mutant: any idempotency key exempts from the check.
IsDuplicate_AnyKeyExempts(l, b, a, k) ==
  k = NoKey /\ \E i \in Contributions(l, b) : l[i].author = a

IsDuplicate(l, b, a, k) ==
  \E i \in Contributions(l, b) :
    l[i].author = a /\ ~(k # NoKey /\ l[i].key = k)

\* Mutant: the reveal is not looked for.
CanSubmit_AfterReveal(l, b, a, k) ==
  /\ Opened(l, b) # {}
  /\ IsAuthorized(OpenedBatch(l, b), a)
  /\ ~IsDuplicate(l, b, a, k)

CanSubmit(l, b, a, k) ==
  /\ IsOpen(l, b)
  /\ IsAuthorized(OpenedBatch(l, b), a)
  /\ ~IsDuplicate(l, b, a, k)

\* assertRevealPolicyCanClose.
PolicyAllows(cfg, authors, t) ==
  \/ cfg.revealPolicy = "manual"
  \/ cfg.revealPolicy = "quorum" /\ Cardinality(authors) >= cfg.quorumCount
  \/ cfg.revealPolicy = "deadline" /\ t >= cfg.deadlineAt
  \/ cfg.revealPolicy = "all_completed" /\ cfg.participants \subseteq authors

\* Mutant: the policy is judged at the end of the clock.
CanClose_IgnoresClock(l, b, t) ==
  /\ IsOpen(l, b)
  /\ PolicyAllows(OpenedBatch(l, b), ContributingAuthors(l, b), MaxTime)

CanClose(l, b, t) ==
  /\ IsOpen(l, b)
  /\ PolicyAllows(OpenedBatch(l, b), ContributingAuthors(l, b), t)
-----------------------------------------------------------------------------
Init == ledger = <<>> /\ now = 0

\* openSealedBatch: the id generator supplies a batch id nobody has used.
OpenSealedBatch(b, cfg, k) ==
  /\ \A i \in DOMAIN ledger : ledger[i].batch # b
  /\ ledger' = AfterAppend(ledger, OpenInput(b, cfg, k))
  /\ UNCHANGED now

SubmitSealedContribution(b, a, k, p) ==
  /\ CanSubmit(ledger, b, a, k)
  /\ ledger' = AfterAppend(ledger, ContributionInput(ledger, b, a, k, p))
  /\ UNCHANGED now

CloseSealedBatch(b, k) ==
  /\ CanClose(ledger, b, now)
  /\ ledger' = AfterAppend(ledger, RevealInput(ledger, b, k, now))
  /\ UNCHANGED now

Tick == now < MaxTime /\ now' = now + 1 /\ UNCHANGED ledger

Next == \/ \E b \in Batches, k \in Keys \cup {NoKey} :
             \/ \E cfg \in Configs : OpenSealedBatch(b, cfg, k)
             \/ \E a \in Authors, p \in Payloads :
                  SubmitSealedContribution(b, a, k, p)
             \/ CloseSealedBatch(b, k)
        \/ Tick

Spec == Init /\ [][Next]_vars
-----------------------------------------------------------------------------
EventOf(types, authors, bodies) ==
  [type : types, batch : Batches, author : authors, key : Keys \cup {NoKey},
   body : bodies, based : SUBSET Nat]

RevealedEvents ==
  [type : {"sealed_batch_revealed"}, batch : Batches, author : {System},
   key : Keys \cup {NoKey}, body : Configs, based : SUBSET Nat,
   revealedAt : Nat]

EventType ==
  EventOf({"sealed_batch_opened"}, {System}, Configs)
    \cup EventOf({"sealed_contribution_submitted"}, Authors, Payloads)
    \cup RevealedEvents

\* The ledger holds well-formed batch events.
TypeOK == ledger \in Seq(EventType) /\ now \in Nat

\* However contributions, retries and reused keys interleave, no author has two
\* contributions in one batch (assertNoDuplicateContribution with the store's
\* idempotency, which exempts a retry from the first check).
OneContributionPerAuthor ==
  \A b \in Batches : \A i, j \in Contributions(ledger, b) :
    ledger[i].author = ledger[j].author => i = j

\* A batch is revealed at most once and nothing joins it afterwards: the reveal
\* is the last event of its batch.
RevealIsFinal ==
  \A b \in Batches : \A r \in Revealed(ledger, b) :
    \A i \in DOMAIN ledger : ledger[i].batch = b => i <= r

\* A reveal names every contribution of its batch, none of another batch and
\* none that came later, so the batch is revealed as a whole.
RevealListsBatch ==
  \A b \in Batches : \A r \in Revealed(ledger, b) :
    ledger[r].based = Opened(ledger, b) \cup Contributions(ledger, b)

\* When a batch was revealed its policy was met by the contributions it names,
\* at the time the reveal records.
RevealJustified ==
  \A b \in Batches : \A r \in Revealed(ledger, b) :
    PolicyAllows(OpenedBatch(ledger, b), {ledger[i].author : i \in ledger[r].based} \ {System},
                 ledger[r].revealedAt)

\* Mutant: a contribution of an open batch is exposed.
CanExpose_BeforeReveal(l, i) == l[i].type = "sealed_contribution_submitted"

\* context-builder.ts, canExposeSealedContribution.
CanExpose(l, i) ==
  \E r \in Revealed(l, l[i].batch) : i \in l[r].based

\* Once one contribution of a batch is exposed to readers, no contribution is
\* added to the batch: nobody contributes having read another contribution of
\* the same batch.
ExposureSealsBatch ==
  [][\A b \in Batches :
       (\E i \in Contributions(ledger, b) : CanExpose(ledger, i))
         => Contributions(ledger', b) = Contributions(ledger, b)]_vars
=============================================================================
