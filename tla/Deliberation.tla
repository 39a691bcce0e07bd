---------------------------- MODULE Deliberation ----------------------------
(***************************************************************************)
(* The proposals of packages/core over the ledger of one session:          *)
(* extraction proposals and process proposals with their challenges,       *)
(* acceptances and decisions, final candidates, audits and evidence        *)
(* results, the projections that read them back, and the compiled outcome. *)
(* Every call of the HTTP API is one action; it ends in one append, so the *)
(* store decides between a new event, a replay and a conflict (EventStore).*)
(*                                                                         *)
(* An event's id is its position in the ledger.  basedOn holds the events  *)
(* it names as its sources.  payloadId is the id that the call generates   *)
(* for its payload; a position no event has yet is one that was never used.*)
(***************************************************************************)
EXTENDS EventStore, FiniteSets

CONSTANTS Authors,
          System,     \* the author of the topic contract
          Drafts,     \* what extractors propose: sets of deliberation objects
          Processes,  \* the payloads of process proposals
          Keys,       \* idempotency keys callers use, NoKey not among them
          MaxEvents   \* bound of the ledger's length

Kinds == {"candidate", "claim", "objection", "need", "obligation"}

(***************************************************************************)
(* A deliberation object has an id, here its name, that its proposer chose *)
(* and others may choose too.  live says of a candidate that it is active, *)
(* of an objection or an obligation that it awaits an answer, of a need    *)
(* that it is open; about names the object it refers to, if there is one.  *)
(***************************************************************************)
ASSUME DraftsAssumption ==
  \A draft \in Drafts : \A o \in draft :
    /\ DOMAIN o = {"name", "kind", "live", "about"}
    /\ o.kind \in Kinds /\ o.live \in BOOLEAN
ASSUME MaxEventsAssumption == MaxEvents \in Nat \ {0}

VARIABLE ledger

Decisions == {"accepted", "deferred", "rejected"}

OfType(l, type) == {i \in DOMAIN l : l[i].type = type}

\* createSession.
TopicContract == [type |-> "topic_contract_published", key |-> NoKey,
                  author |-> System, basedOn |-> {}]

Init == ledger = <<TopicContract>>
-----------------------------------------------------------------------------
\* The events of a type that name a proposal as their target and follow it.
Lifecycle(l, type, i) == {j \in OfType(l, type) : l[j].target = i /\ i < j}

Challenges(l, i) == Lifecycle(l, "proposal_challenged", i)
Acceptances(l, i) == Lifecycle(l, "proposal_accepted", i)

\* Mutant: a challenge takes the acceptance back.
AcceptedProposals_Unchallenged(l) ==
  {i \in OfType(l, "extraction_proposed") : Acceptances(l, i) # {} /\ Challenges(l, i) = {}}

\* Mutant: what was proposed counts as accepted.
AcceptedProposals_Proposed(l) == OfType(l, "extraction_proposed")

\* projectExtractionProposalStates: accepted for now, challenged or not.
AcceptedProposals(l) ==
  {i \in OfType(l, "extraction_proposed") : Acceptances(l, i) # {}}

\* projectAcceptedDeliberationObjects: every accepted proposal's objects, an
\* object that two of them contain once for each.
AcceptedObjects(l, kind) ==
  {d \in UNION {{[from |-> i, object |-> o] : o \in l[i].objects} : i \in AcceptedProposals(l)} :
     d.object.kind = kind}

\* projectCandidateFrontier.
Frontier(l) == {d \in AcceptedObjects(l, "candidate") : d.object.live}

\* projectProcessProposalStates: the last lifecycle event decides.
ProcessEvents(l, i) == Lifecycle(l, "process_proposal_challenged", i)
                         \cup Lifecycle(l, "process_proposal_decided", i)

LatestStatus(l, i) ==
  IF ProcessEvents(l, i) = {} THEN "proposed"
  ELSE LET last == CHOOSE j \in ProcessEvents(l, i) : \A k \in ProcessEvents(l, i) : k <= j
       IN  IF l[last].type = "process_proposal_challenged" THEN "challenged"
           ELSE l[last].status
-----------------------------------------------------------------------------
\* The id a call generates for its payload.
FreshId(l) == Len(l) + 1

ExtractionInput(l, a, key, draft, sources) ==
  [type |-> "extraction_proposed", key |-> key, author |-> a, basedOn |-> sources,
   objects |-> draft, payloadId |-> FreshId(l)]

\* A challenge, an acceptance or an audit of the event at position target.
ResponseInput(l, type, a, key, target) ==
  [type |-> type, key |-> key, author |-> a, basedOn |-> {target}, target |-> target,
   payloadId |-> FreshId(l)]

ProcessInput(a, key, process, sources) ==
  [type |-> "process_proposal_proposed", key |-> key, author |-> a, basedOn |-> sources,
   process |-> process]

DecisionInput(l, a, key, target, status) ==
  [type |-> "process_proposal_decided", key |-> key, author |-> a, basedOn |-> {target},
   target |-> target, status |-> status, payloadId |-> FreshId(l)]

\* The events an accepted object rests on.
Grounds(l, d) == {d.from} \cup Acceptances(l, d.from) \cup l[d.from].basedOn

\* candidatesById: of several candidates with one name the last one counts.
CandidateNamed(l, name) ==
  CHOOSE d \in Frontier(l) :
    /\ d.object.name = name
    /\ \A other \in Frontier(l) : other.object.name = name => other.from <= d.from

\* What proposeFinalCandidate writes: the alternatives and the grounds are
\* read from the ledger as it is when the call is made.
FinalInput(l, a, key, names) ==
  [type |-> "final_candidate_proposed", key |-> key, author |-> a,
   basedOn |-> UNION {Grounds(l, CandidateNamed(l, n)) : n \in names},
   candidates |-> names,
   alternatives |-> {d \in Frontier(l) : d.object.name \notin names},
   payloadId |-> FreshId(l)]

\* The need recordEvidenceResult finds: the first accepted one of that name.
NeedNamed(l, name) ==
  CHOOSE d \in AcceptedObjects(l, "need") :
    /\ d.object.name = name
    /\ \A other \in AcceptedObjects(l, "need") :
         other.object.name = name => d.from <= other.from

EvidenceInput(l, a, key, name) ==
  [type |-> "evidence_result_recorded", key |-> key, author |-> a,
   basedOn |-> Grounds(l, NeedNamed(l, name)), need |-> name, payloadId |-> FreshId(l)]

Names(objects) == {d.object.name : d \in objects}
-----------------------------------------------------------------------------
\* appendEventResult; a replay and a conflict leave the ledger as it is.
Store(input) == ledger' = AfterAppend(ledger, input)

\* POST /sessions/:sessionId/extractions.  All objects of a draft name one source.
ProposeExtraction(a, key, draft, source) ==
  /\ draft # {}
  /\ source \in DOMAIN ledger
  /\ Store(ExtractionInput(ledger, a, key, draft, {source}))

\* POST /sessions/:sessionId/proposals/:proposalEventId/challenges.
ChallengeProposal(a, key, target) ==
  /\ target \in OfType(ledger, "extraction_proposed")
  /\ Store(ResponseInput(ledger, "proposal_challenged", a, key, target))

\* POST /sessions/:sessionId/proposals/:proposalEventId/acceptance.
AcceptProposal(a, key, target) ==
  /\ target \in OfType(ledger, "extraction_proposed")
  /\ Store(ResponseInput(ledger, "proposal_accepted", a, key, target))

\* POST /sessions/:sessionId/process-proposals.
ProposeProcessProposal(a, key, process, source) ==
  /\ source \in DOMAIN ledger
  /\ Store(ProcessInput(a, key, process, {source}))

\* POST .../process-proposals/:proposalEventId/challenges.
ChallengeProcessProposal(a, key, target) ==
  /\ target \in OfType(ledger, "process_proposal_proposed")
  /\ Store(ResponseInput(ledger, "process_proposal_challenged", a, key, target))

\* POST .../process-proposals/:proposalEventId/decisions.
DecideProcessProposal(a, key, target, status) ==
  /\ target \in OfType(ledger, "process_proposal_proposed")
  /\ Store(DecisionInput(ledger, a, key, target, status))

\* POST /sessions/:sessionId/final-candidates.
ProposeFinalCandidate(a, key, names) ==
  /\ names # {}
  /\ names \subseteq Names(Frontier(ledger))
  /\ Store(FinalInput(ledger, a, key, names))

\* POST .../final-candidates/:proposalEventId/audits.
AuditFinalCandidate(a, key, target) ==
  /\ target \in OfType(ledger, "final_candidate_proposed")
  /\ Store(ResponseInput(ledger, "final_audit_recorded", a, key, target))

\* recordEvidenceResult, which the evidence check round calls.
RecordEvidenceResult(a, key, name) ==
  /\ name \in Names(AcceptedObjects(ledger, "need"))
  /\ Store(EvidenceInput(ledger, a, key, name))
-----------------------------------------------------------------------------
FinalProposals(l) == OfType(l, "final_candidate_proposed")

\* selectFinalCandidateProposalEvent: the requested one; without a request the
\* only one, if there is only one.
Unrequested == 0

Selected(l, requested) ==
  IF requested # Unrequested THEN {requested}
  ELSE IF Cardinality(FinalProposals(l)) = 1 THEN FinalProposals(l) ELSE {}

\* getValidFinalAudits, of the selected proposal or, without one, of all.
Audits(l, selected) ==
  {j \in OfType(l, "final_audit_recorded") :
     /\ l[j].target \in FinalProposals(l)
     /\ l[j].target < j
     /\ selected # {} => l[j].target \in selected}

\* buildEvidenceStatus: results count for every accepted need of their name.
Reported(l) == {l[j].need : j \in OfType(l, "evidence_result_recorded")}

Unchecked(l) == {d \in AcceptedObjects(l, "need") : d.object.name \notin Reported(l)}

\* isUnresolvedObjection, isUnfinishedQualityObligation.
Unanswered(l) ==
  {d \in AcceptedObjects(l, "objection") \cup AcceptedObjects(l, "obligation") : d.object.live}

\* compileOutcome.
DraftStatus(l, selected) ==
  IF Unanswered(l) # {} \/ Unchecked(l) # {} \/ selected = {} THEN "provisional" ELSE "draft"

Outcome(l, requested) ==
  LET selected == Selected(l, requested)
      chosen   == UNION {l[f].candidates : f \in selected}
  IN  [selected     |-> selected,
       recommended  |-> chosen,
       alternatives |-> {d \in Frontier(l) : d.object.name \notin chosen},
       audits       |-> Audits(l, selected),
       status       |-> DraftStatus(l, selected)]
-----------------------------------------------------------------------------
CallKeys == Keys \cup {NoKey}

CandidateNames == {o.name : o \in {x \in UNION Drafts : x.kind = "candidate"}}
NeedNames == {o.name : o \in {x \in UNION Drafts : x.kind = "need"}}

ExtractionCall(a, key) ==
  \/ \E draft \in Drafts, source \in 1..(Len(ledger) + 1) :
       ProposeExtraction(a, key, draft, source)
  \/ \E target \in DOMAIN ledger : \/ ChallengeProposal(a, key, target)
                                  \/ AcceptProposal(a, key, target)

ProcessCall(a, key) ==
  \/ \E process \in Processes, source \in DOMAIN ledger :
       ProposeProcessProposal(a, key, process, source)
  \/ \E target \in DOMAIN ledger :
       \/ ChallengeProcessProposal(a, key, target)
       \/ \E status \in Decisions : DecideProcessProposal(a, key, target, status)

OutcomeCall(a, key) ==
  \/ \E names \in SUBSET CandidateNames : ProposeFinalCandidate(a, key, names)
  \/ \E target \in DOMAIN ledger : AuditFinalCandidate(a, key, target)
  \/ \E name \in NeedNames : RecordEvidenceResult(a, key, name)

Next ==
  /\ Len(ledger) < MaxEvents
  /\ \E a \in Authors, key \in CallKeys :
       ExtractionCall(a, key) \/ ProcessCall(a, key) \/ OutcomeCall(a, key)

Spec == Init /\ [][Next]_ledger
-----------------------------------------------------------------------------
\* The accepted proposal and an acceptance of it, both before event i and both
\* among the events it is based on.
RestsOn(i, o) ==
  \E p, q \in ledger[i].basedOn :
    /\ ledger[p].type = "extraction_proposed" /\ o \in ledger[p].objects
    /\ ledger[q].type = "proposal_accepted" /\ ledger[q].target = p

\* No conclusion without acceptance: each candidate of a final proposal, and the
\* need of each evidence result, comes from a proposal that was accepted before,
\* and the event names both the proposal and its acceptance as its grounds.
ConclusionsGrounded ==
  \A i \in DOMAIN ledger :
    /\ ledger[i].type = "final_candidate_proposed" =>
         \A n \in ledger[i].candidates :
           \E o \in UNION Drafts : /\ o.name = n /\ o.kind = "candidate" /\ o.live
                                  /\ RestsOn(i, o)
    /\ ledger[i].type = "evidence_result_recorded" =>
         \E o \in UNION Drafts : /\ o.name = ledger[i].need /\ o.kind = "need"
                                /\ RestsOn(i, o)

\* Whatever was challenged, accepted or proposed since, a compiled outcome, of
\* whichever final candidate, recommends candidates of today's frontier, shows
\* the others as alternatives, and is no longer provisional only when all that
\* was accepted is answered and checked.
OutcomeCoversFrontier ==
  \A requested \in FinalProposals(ledger) \cup {Unrequested} :
    LET outcome == Outcome(ledger, requested)
    IN  /\ outcome.recommended \subseteq Names(Frontier(ledger))
        /\ outcome.recommended \cup Names(outcome.alternatives) = Names(Frontier(ledger))
        /\ outcome.status = "draft" =>
             /\ outcome.recommended # {}
             /\ \A d \in AcceptedObjects(ledger, "need") :
                  \E j \in OfType(ledger, "evidence_result_recorded") :
                    ledger[j].need = d.object.name
             /\ \A i \in OfType(ledger, "proposal_accepted") :
                  \A o \in ledger[ledger[i].target].objects :
                    o.kind \in {"objection", "obligation"} => ~o.live

\* What the call that wrote event i would pass to the store today.
RepeatedInput(i) ==
  LET e == ledger[i]
  IN  CASE e.type = "extraction_proposed" ->
             ExtractionInput(ledger, e.author, e.key, e.objects, e.basedOn)
        [] e.type = "process_proposal_proposed" ->
             ProcessInput(e.author, e.key, e.process, e.basedOn)
        [] e.type = "final_candidate_proposed" ->
             FinalInput(ledger, e.author, e.key, e.candidates)
        [] OTHER ->
             ResponseInput(ledger, e.type, e.author, e.key, e.target)

\* A client that lost the answer repeats its call under its key, however much
\* later: it gets the event it wrote.  A final candidate is based on the frontier
\* of the moment, so its call must be repeated before the next acceptance.
\* (Challenges and decisions of process proposals and evidence results conflict.)
RepeatedCallReplays ==
  \A i \in DOMAIN ledger :
    /\ ledger[i].key # NoKey
    /\ ledger[i].type \notin {"process_proposal_challenged", "process_proposal_decided",
                             "evidence_result_recorded"}
    /\ ledger[i].type = "final_candidate_proposed" =>
         \A j \in OfType(ledger, "proposal_accepted") : j < i
    => /\ IsReplay(ledger, RepeatedInput(i))
       /\ ReturnedEvent(ledger, RepeatedInput(i)) = i
=============================================================================
