----------------------------- MODULE EventStore -----------------------------
(***************************************************************************)
(* What appendEventResult of an event store decides about one input, given *)
(* the events its session already holds.  The three stores of              *)
(* packages/storage (in-memory, JSON file, SQLite) share this decision and *)
(* differ in where the events live and when they become durable.           *)
(*                                                                         *)
(* An event is a record with at least the fields key (its idempotency key, *)
(* NoKey when the caller gave none) and type.  Its remaining fields are    *)
(* whatever the using module needs; the fields a store or an id generator  *)
(* fills in (GeneratedFields) are ignored when a retry is compared with    *)
(* the event it repeats.                                                   *)
(***************************************************************************)
EXTENDS Naturals, Sequences

CONSTANT NoKey      \* the caller gave no idempotency key

\* Mutant: the payload id of an acceptance is compared.
TypesWithIgnoredPayloadId_NotAccepted ==
  {"extraction_proposed", "proposal_challenged",
   "final_candidate_proposed", "final_audit_recorded", "resource_delivery_planned",
   "resource_access_grant_created", "resource_access_grant_revoked"}

(***************************************************************************)
(* idempotency.ts: a retry carries a new event id, a new clock reading and *)
(* no store-assigned fields; the opening of a sealed batch also carries a  *)
(* new batch id, and the payloads of some types an id generated for each   *)
(* call.  Everything else must be what the stored event says (the times    *)
(* openedAt and committedAt of payloads, ignored as well, are in no        *)
(* event of these modules).  The types process_proposal_challenged,        *)
(* process_proposal_decided and evidence_result_recorded generate a        *)
(* payload id too, and are not listed.                                     *)
(***************************************************************************)
TypesWithIgnoredPayloadId ==
  {"extraction_proposed", "proposal_challenged", "proposal_accepted",
   "final_candidate_proposed", "final_audit_recorded", "resource_delivery_planned",
   "resource_access_grant_created", "resource_access_grant_revoked"}

GeneratedFields(e) ==
  {"id", "key", "sequence", "prev", "revealedAt"} \cup
  (IF e.type = "sealed_batch_opened" THEN {"batch"} ELSE {}) \cup
  (IF e.type \in TypesWithIgnoredPayloadId THEN {"payloadId"} ELSE {})

Comparable(e) == [f \in DOMAIN e \ GeneratedFields(e) |-> e[f]]

IsCompatible(existing, input) ==
  /\ existing.type = input.type
  /\ Comparable(existing) = Comparable(input)

\* The positions of a session's log that hold the input's idempotency key.
KeyHolders(log, input) ==
  {i \in DOMAIN log : input.key # NoKey /\ log[i].key = input.key}

(***************************************************************************)
(* The three outcomes of appendEventResult: a new event, the event stored  *)
(* earlier under the same key, or an error.                                *)
(***************************************************************************)
IsNew(log, input) == KeyHolders(log, input) = {}

Replays(log, input) ==
  {i \in KeyHolders(log, input) : IsCompatible(log[i], input)}

IsReplay(log, input) == Replays(log, input) # {}

IsConflict(log, input) == ~IsNew(log, input) /\ ~IsReplay(log, input)

\* The log after the call; only a new event changes it.
AfterAppend(log, input) ==
  IF IsNew(log, input) THEN Append(log, input) ELSE log

\* The position of the event the call returns, when it returns one.
ReturnedEvent(log, input) ==
  IF IsNew(log, input)
    THEN Len(log) + 1
    ELSE CHOOSE i \in Replays(log, input) : TRUE

\* No key names two events of a session.
OneEventPerKey(log) ==
  \A i, j \in DOMAIN log :
    log[i].key # NoKey /\ log[i].key = log[j].key => i = j
=============================================================================
