----------------------------- MODULE AdaptiveRun -----------------------------
(***************************************************************************)
(* A run over its session's ledger: what the adaptive scheduler suggests,  *)
(* how a suggestion becomes an accepted process proposal, and how the      *)
(* daemon executes it, or a start request, as a stage of the run.  HTTP    *)
(* clients respond to proposals between the stages.                        *)
(*                                                                         *)
(* A step of a stage is an execution in which one generator of its round   *)
(* answers, or none; an execution in which several answer is several       *)
(* steps.  While its round is unfinished it is executed again, and others  *)
(* of its generators write in it.  Claims, crashes and failed writes of an *)
(* execution are the subject of SealedRound and GeneratorRound.  A request *)
(* of several stages is a sequence of steps, of which the daemon leaves    *)
(* the rest out when one of them fails.                                    *)
(***************************************************************************)
EXTENDS Deliberation, SequencesExt

CONSTANTS Divergence,   \* the id of the run's sealed divergence round
          Initial,      \* the id of a round whose request names none
          Another,      \* a round id that a request names
          Generators,   \* who drafts, reviews, repairs, checks and audits in the rounds
          Extracted,    \* what the extraction generator may draft
          Repaired,     \* what the repair generator may draft
          Starts        \* where behaviours begin, and what is asked of them

Stages == {"extraction", "review", "repair", "evidence", "finalization"}

\* A start without a run is a session with its clients alone; requests holds the
\* stages, with their round ids, that start requests ask of a run; maxEvents bounds
\* the length of its ledger.  A session begins with its topic contract; a run before
\* its generator rounds, or with a round of extractions that clients may have
\* accepted.
ASSUME StartsAssumption ==
  \A s \in Starts :
    /\ DOMAIN s = {"run", "requests", "maxEvents", "ledger", "divergence", "rounds"}
    /\ s.run \in BOOLEAN /\ s.maxEvents \in Nat
    /\ s.requests \subseteq (Stages \cup {"divergence"}) \X {Initial, Another}
    /\ s.divergence \in {"none", "failed", "waiting", "revealed"}
    /\ ~s.run => s.ledger = <<TopicContract>>
    /\ Len(s.ledger) \in Nat /\ s.ledger = [i \in 1..Len(s.ledger) |-> s.ledger[i]]
    /\ \A i \in DOMAIN s.ledger :
         LET e == s.ledger[i]
         IN  /\ e.type \in {"topic_contract_published", "sealed_contribution_submitted",
                            "sealed_batch_revealed", "extraction_proposed", "proposal_accepted"}
             /\ e.basedOn \subseteq DOMAIN s.ledger
             /\ e.type = "extraction_proposed" =>
                  IsFiniteSet(e.objects) /\ e.objects \subseteq UNION Drafts
             /\ e.type = "proposal_accepted" =>
                  e.target \in OfType(s.ledger, "extraction_proposed") /\ e.target < i
    /\ s.rounds = [stage \in Stages |-> s.rounds[stage]]
    /\ \A stage \in Stages \ {"extraction"} : s.rounds[stage] = <<>>
    /\ \/ s.rounds["extraction"] = <<>>
       \/ \E id \in {Initial, Another}, events \in SUBSET OfType(s.ledger, "extraction_proposed") :
            /\ events # {}
            /\ s.rounds["extraction"] = <<[id |-> id, source |-> Divergence, status |-> "completed",
                                           events |-> events, final |-> {}]>>
ASSUME RoundIdsAssumption == Initial # Another /\ {Initial, Another} \cap Nat = {}
ASSUME RunDraftsAssumption ==
  /\ {} \notin Extracted \cup Repaired
  /\ UNION (Extracted \cup Repaired) \subseteq UNION Drafts
  /\ \A draft \in Drafts \cup Extracted \cup Repaired : IsFiniteSet(draft)

VARIABLES start,      \* the member of Starts
          divergence, \* the status of the sealed divergence round
          rounds      \* by stage, the rounds of the run record in their order

runVars == <<ledger, start, divergence, rounds>>

RunInit == /\ start \in Starts
           /\ ledger = start.ledger
           /\ divergence = start.divergence
           /\ rounds = start.rounds

Recorded(stage, id) == {i \in DOMAIN rounds[stage] : rounds[stage][i].id = id}

\* ...Rounds?.at(-1): the rounds in the order in which they first began.
HasRound(stage) == rounds[stage] # <<>>
Latest(stage) == Last(rounds[stage])

Contributions == OfType(ledger, "sealed_contribution_submitted")
Reveals == OfType(ledger, "sealed_batch_revealed")
-----------------------------------------------------------------------------
(***************************************************************************)
(* suggestAdaptivePrimitiveProposals: the gaps of the run, as the process  *)
(* proposals that would close them.  There are at most four at a time, so  *)
(* that the limit of five cuts none off.                                   *)
(***************************************************************************)
Gap(primitive, targets) == [primitive |-> primitive, targets |-> targets]

If(condition, gaps) == IF condition THEN gaps ELSE {}

OpenNeeds == {d.object.name : d \in {x \in AcceptedObjects(ledger, "need") : x.object.live}}

Disputed == {d.object.about : d \in Unanswered(ledger)} \cap Names(Frontier(ledger))

NothingExtracted == ~HasRound("extraction") \/ Latest("extraction").events = {}

Revealed == IF Contributions # {} THEN Contributions ELSE Reveals

\* hasActiveProcessProposalTarget.
OmissionAuditProposed(f) ==
  \E p \in OfType(ledger, "process_proposal_proposed") :
    /\ ledger[p].process = Gap("omission_audit", {f})
    /\ LatestStatus(ledger, p) # "rejected"

\* Mutant: a completed review is suggested again.
ReviewGaps_Completed == {Gap("red_team", Latest("extraction").events)}

ReviewGaps ==
  If(~HasRound("review") \/ Latest("review").status # "completed",
     {Gap("red_team", Latest("extraction").events)})

ObjectGaps == If(OpenNeeds # {}, {Gap("evidence_check", OpenNeeds)})
                \cup If(Disputed # {}, {Gap("candidate_repair", Disputed)})

\* Mutant: a candidate is contested only where no finalization has begun.
FinalGaps_NotBegun ==
  IF HasRound("finalization") /\ Latest("finalization").final # {}
  THEN LET round == Latest("finalization")
           f     == CHOOSE x \in round.final : TRUE
       IN  If(round.events = {}, {Gap("final_audit", {f})})
             \cup If(round.events # {} /\ ~OmissionAuditProposed(f), {Gap("omission_audit", {f})})
  ELSE If(~HasRound("finalization") /\ Frontier(ledger) # {} /\ ObjectGaps = {},
          {Gap("final_contest", Names(Frontier(ledger)))})

FinalGaps ==
  IF HasRound("finalization") /\ Latest("finalization").final # {}
  THEN LET round == Latest("finalization")
           f     == CHOOSE x \in round.final : TRUE
       IN  If(round.events = {}, {Gap("final_audit", {f})})
             \cup If(round.events # {} /\ ~OmissionAuditProposed(f), {Gap("omission_audit", {f})})
  ELSE If(Frontier(ledger) # {} /\ ObjectGaps = {},
          {Gap("final_contest", Names(Frontier(ledger)))})

Suggestions ==
  CASE divergence = "none"      -> {Gap("sealed_divergence", {1})}
    [] divergence = "failed"    -> {Gap("sealed_divergence", {Divergence})}
    [] divergence = "waiting"   -> {}
    [] divergence = "revealed"  ->
         IF NothingExtracted THEN {Gap("relation_mapping", Revealed)}
         ELSE ReviewGaps \cup ObjectGaps \cup FinalGaps
-----------------------------------------------------------------------------
(***************************************************************************)
(* The resolve...Target functions of run-orchestration: what an accepted   *)
(* process proposal must target to be executable in the run as it is now.  *)
(***************************************************************************)
TargetsValid(process) ==
  LET primitive == process.primitive
      targets   == process.targets
  IN  \/ /\ primitive = "sealed_divergence"
         /\ targets = IF divergence = "none" THEN {1} ELSE {Divergence}
      \/ /\ primitive = "relation_mapping"
         /\ divergence = "revealed" /\ targets = Revealed
      \/ /\ primitive = "red_team"
         /\ HasRound("extraction")
         /\ targets # {} /\ targets \subseteq Latest("extraction").events
      \/ /\ primitive = "candidate_repair"
         /\ targets # {} /\ targets \subseteq Names(Frontier(ledger))
      \/ /\ primitive = "evidence_check"
         /\ targets # {} /\ targets \subseteq Names(AcceptedObjects(ledger, "need"))
      \/ /\ primitive = "final_contest"
         /\ targets # {} /\ targets \subseteq Names(Frontier(ledger))
         /\ Cardinality(targets) = Cardinality(Frontier(ledger))
      \/ /\ primitive \in {"final_audit", "omission_audit"}
         /\ Cardinality(targets) = 1 /\ targets \subseteq FinalProposals(ledger)
-----------------------------------------------------------------------------
NewRound(id, source) ==
  [id |-> id, source |-> source, status |-> "running", events |-> {}, final |-> {}]

\* What a stage works on: the round of that id, or a new one.
Begun(stage, id, source) ==
  IF Recorded(stage, id) = {} THEN NewRound(id, source)
  ELSE [rounds[stage][CHOOSE i \in Recorded(stage, id) : TRUE] EXCEPT !.source = source]

\* assertSame...: a finalization that began without a review may gain one.
SameSource(stage, old, new) ==
  \/ old = new
  \/ stage = "finalization" /\ old.review = {} /\ old.candidate = new.candidate

\* What a generator wrote in a round.  The keys of its events name the round, the
\* generator and what they answer: asked again, it finds them and writes none twice.
Written(round, g) == {ledger[e] : e \in {x \in round.events : ledger[x].author = g}}

\* Mutant: the material of the recorded round is not compared.
CanBegin_AnySource(stage, id, source) ==
  \A i \in Recorded(stage, id) : rounds[stage][i].status # "completed"

\* acquire...RoundExecutionClaim.
CanBegin(stage, id, source) ==
  \A i \in Recorded(stage, id) : /\ rounds[stage][i].status # "completed"
                                 /\ SameSource(stage, rounds[stage][i].source, source)

\* upsert...Round: a round keeps its place in the record.
Upsert(stage, round) ==
  rounds' = [rounds EXCEPT ![stage] =
              IF Recorded(stage, round.id) = {} THEN Append(@, round)
              ELSE [i \in DOMAIN @ |-> IF @[i].id = round.id THEN round ELSE @[i]]]

NextEvents(inputs) == (Len(ledger) + 1)..(Len(ledger) + Len(inputs))

\* A stage ends with what it appends, after what its round wrote before, and its
\* record.
EndStage(stage, id, source, status, inputs) ==
  LET round == Begun(stage, id, source)
  IN  /\ CanBegin(stage, id, source)
      /\ ledger' = ledger \o inputs
      /\ Upsert(stage, [round EXCEPT !.status = status, !.events = @ \cup NextEvents(inputs)])
      /\ UNCHANGED divergence
-----------------------------------------------------------------------------
\* failed stands for each status of an unfinished round: some generator has failed or
\* was not asked.
Outcomes == {"completed", "failed"}

\* runSealedDivergenceRound: it fails, waits or reveals what was contributed, under
\* a deadline perhaps nothing.
RunDivergence ==
  /\ divergence # "revealed"
  /\ \E status \in {"failed", "waiting", "revealed"}, n \in 0..1, a \in Authors :
       /\ divergence' = status
       /\ ledger' = IF status # "revealed" THEN ledger
                    ELSE ledger \o [i \in 1..n |-> [TopicContract EXCEPT
                                      !.type = "sealed_contribution_submitted", !.author = a]]
                                \o <<[TopicContract EXCEPT !.type = "sealed_batch_revealed"]>>
       /\ UNCHANGED rounds

\* buildExtractionContext.
ExtractionContext == divergence = "revealed" /\ Contributions # {}

\* runExtractionProposalRound.
RunExtraction(id) ==
  /\ divergence # "none"
  /\ \E status \in Outcomes, g \in Generators, draft \in Extracted \cup {{}} :
       LET round == Begun("extraction", id, Divergence)
       IN  /\ draft # {} => ExtractionContext /\ Written(round, g) = {}
           /\ status = "completed" => draft # {} \/ round.events # {}
           /\ EndStage("extraction", id, Divergence, status,
                IF draft = {} THEN <<>>
                ELSE <<ExtractionInput(ledger, g, NoKey, draft, Contributions)>>)

Responses(type, a, targets) ==
  LET input(i) == ResponseInput(ledger, type, a, NoKey, SetToSeq(targets)[i])
  IN  [i \in 1..Cardinality(targets) |-> input(i)]

\* runProposalReviewRound, of the latest extraction round as it is now.  A policy, if
\* there is one, accepts some of the proposals, challenged or not, once no reviewer
\* is left to answer.
RunReview(id, policy) ==
  /\ HasRound("extraction")
  /\ \E status \in Outcomes, g \in Generators, a \in Authors,
        disputed, accepted \in SUBSET Latest("extraction").events :
       LET source == Latest("extraction").id
           round  == Begun("review", id, source)
       IN  /\ Latest("extraction").events = {} => status = "failed"
           /\ disputed \cap {e.target : e \in Written(round, g)} = {}
           /\ accepted # {} => policy /\ status = "completed"
           /\ EndStage("review", id, source, status,
                Responses("proposal_challenged", g, disputed)
                  \o Responses("proposal_accepted", a, accepted))

\* buildCandidateRepairContext: an unanswered objection or obligation is about one of
\* the targets.
RepairContext(targets) == targets \cap Disputed # {} /\ targets \subseteq Names(Frontier(ledger))

\* runCandidateRepairRound.
RunRepair(id, targets) ==
  /\ RepairContext(targets)
  /\ \E status \in Outcomes, g \in Generators, draft \in Repaired \cup {{}} :
       LET round == Begun("repair", id, targets)
       IN  /\ draft # {} => Written(round, g) = {}
           /\ status = "completed" => draft # {} \/ round.events # {}
           /\ EndStage("repair", id, targets, status,
                IF draft = {} THEN <<>>
                ELSE <<ExtractionInput(ledger, g, NoKey, draft,
                         UNION {Grounds(ledger, CandidateNamed(ledger, n)) : n \in targets})>>)

\* buildEvidenceCheckContext: the targets are accepted needs, about accepted claims.
AboutClaims(needs) ==
  {NeedNamed(ledger, n).object.about : n \in needs} \subseteq Names(AcceptedObjects(ledger, "claim"))

EvidenceContext(targets) ==
  /\ targets # {} /\ targets \subseteq Names(AcceptedObjects(ledger, "need"))
  /\ AboutClaims(targets)

\* runEvidenceCheckRound: an answer is about some of the needs.
RunEvidence(id, targets) ==
  /\ EvidenceContext(targets)
  /\ \E status \in Outcomes, g \in Generators, needs \in SUBSET targets :
       LET round == Begun("evidence", id, targets)
       IN  /\ needs \cap {e.need : e \in Written(round, g)} = {}
           /\ status = "completed" => needs # {} \/ round.events # {}
           /\ EndStage("evidence", id, targets, status,
                [i \in 1..Cardinality(needs) |->
                   EvidenceInput(ledger, g, NoKey, SetToSeq(needs)[i])])

\* resolveSourceProposalReviewRoundId.
LatestReview == IF HasRound("review") THEN {Latest("review").id} ELSE {}

FinalizationOf(candidate) == [review |-> LatestReview, candidate |-> candidate]

\* runFinalizationRound: of an existing candidate, or of one that is generated now
\* unless the round has it already; auditors may fail, and there may be none.
RunFinalization(id, candidate) ==
  \E status \in Outcomes, g \in Generators, names \in SUBSET Names(Frontier(ledger)),
     audited \in BOOLEAN :
    LET source    == FinalizationOf(candidate)
        round     == Begun("finalization", id, source)
        generated == candidate \cup round.final = {} /\ names # {}
        final     == IF generated THEN {Len(ledger) + 1} ELSE candidate \cup round.final
        drafts    == IF generated THEN <<FinalInput(ledger, g, NoKey, names)>> ELSE <<>>
        audits    == IF audited /\ final # {} /\ Written(round, g) = {}
                     THEN <<ResponseInput(ledger, "final_audit_recorded", g, NoKey,
                                          CHOOSE f \in final : TRUE)>>
                     ELSE <<>>
    IN  /\ CanBegin("finalization", id, source)
        /\ status = "completed" => final # {}
        /\ names # {} => generated
        /\ audited => audits # <<>>
        /\ ledger' = ledger \o drafts \o audits
        /\ Upsert("finalization",
             [round EXCEPT !.status = status, !.final = final,
                           !.events = @ \cup (NextEvents(drafts \o audits) \ final)])
        /\ UNCHANGED divergence
-----------------------------------------------------------------------------
\* POST /runs/:runId/start, one stage of it.
StartStage(stage, id) ==
  \/ stage = "divergence" /\ RunDivergence
  \/ stage = "extraction" /\ RunExtraction(id)
  \/ stage = "review" /\ \E policy \in BOOLEAN : RunReview(id, policy)
  \/ stage = "repair" /\ RunRepair(id, Disputed)
  \/ stage = "evidence" /\ RunEvidence(id, OpenNeeds)
  \/ stage = "finalization" /\ RunFinalization(id, {})

\* POST /runs/:runId/process-proposals/:proposalEventId/execute.
ExecuteAccepted(p) ==
  LET primitive == ledger[p].process.primitive
      targets   == ledger[p].process.targets
  IN  /\ LatestStatus(ledger, p) = "accepted"
      /\ TargetsValid(ledger[p].process)
      /\ \/ primitive = "sealed_divergence" /\ RunDivergence
         \/ primitive = "relation_mapping" /\ RunExtraction(Initial)
         \/ primitive = "red_team" /\ RunReview(Initial, FALSE)
         \/ primitive = "candidate_repair" /\ RunRepair(p, targets)
         \/ primitive = "evidence_check" /\ RunEvidence(p, targets)
         \/ primitive = "final_contest" /\ RunFinalization(Initial, {})
         \/ primitive \in {"final_audit", "omission_audit"} /\ RunFinalization(p, targets)

\* Clients respond to what is proposed, and record suggestions as process proposals.
\* Each proposal is accepted once and each suggestion recorded once at a time, which
\* bounds the ledger and hides nothing.
ClientCall ==
  \E a \in Authors :
    \/ \E t \in OfType(ledger, "extraction_proposed") :
         Acceptances(ledger, t) = {} /\ AcceptProposal(a, NoKey, t)
    \/ \E gap \in Suggestions :
         /\ \A p \in OfType(ledger, "process_proposal_proposed") :
              ledger[p].process = gap => LatestStatus(ledger, p) = "rejected"
         /\ ProposeProcessProposal(a, NoKey, gap, 1)
    \/ \E p \in OfType(ledger, "process_proposal_proposed"),
          status \in {"accepted", "rejected"} :
         /\ LatestStatus(ledger, p) = "proposed"
         /\ DecideProcessProposal(a, NoKey, p, status)

RunNext ==
  \/ /\ ~start.run
     /\ Next
     /\ UNCHANGED <<start, divergence, rounds>>
  \/ /\ start.run
     /\ \/ \E request \in start.requests : StartStage(request[1], request[2])
        \/ \E p \in OfType(ledger, "process_proposal_proposed") : ExecuteAccepted(p)
        \/ ClientCall /\ UNCHANGED <<divergence, rounds>>
     /\ Len(ledger') <= start.maxEvents
     /\ UNCHANGED start

RunSpec == RunInit /\ [][RunNext]_runVars
-----------------------------------------------------------------------------
\* What executing a process proposal asks of the run besides its targets: the context
\* of the stage, and a round that may begin.  (A proposal accepted just now has the
\* only round of its id.)
StageCanBegin(process) ==
  LET primitive == process.primitive
      targets   == process.targets
  IN  /\ primitive = "relation_mapping" =>
           ExtractionContext /\ CanBegin("extraction", Initial, Divergence)
      /\ primitive = "red_team" => CanBegin("review", Initial, Latest("extraction").id)
      /\ primitive = "candidate_repair" => RepairContext(targets)
      /\ primitive = "evidence_check" => EvidenceContext(targets)
      /\ primitive = "final_contest" => CanBegin("finalization", Initial, FinalizationOf({}))

NamedRound(stages) == \E stage \in stages : Recorded(stage, Another) # {}

\* Scheduler, executor and stages judge a run by rules written three times, in two
\* packages: what the scheduler suggests has the targets that the executor asks for,
\* and its stage could begin if it were accepted now.  The exceptions are a frontier
\* with two candidates of one id, which the executor of a final contest counts twice
\* and its targets once; a divergence revealed without a contribution; a need about
\* a claim that is not accepted; and, since these suggestions run in the default
\* round of their stage, a stage or its material with a round of another id, when
\* the default round may be completed already or be about other material.
SuggestionsExecutable ==
  \A gap \in Suggestions :
    /\ \/ TargetsValid(gap)
       \/ /\ gap.primitive = "final_contest"
          /\ Cardinality(Names(Frontier(ledger))) < Cardinality(Frontier(ledger))
    /\ \/ StageCanBegin(gap)
       \/ gap.primitive = "relation_mapping" /\ (Contributions = {} \/ NamedRound({"extraction"}))
       \/ gap.primitive = "red_team" /\ NamedRound({"extraction", "review"})
       \/ gap.primitive = "evidence_check" /\ ~AboutClaims(gap.targets)
       \/ gap.primitive = "final_contest" /\ NamedRound({"review", "finalization"})

\* The scheduler does not fall silent halfway ("No explicit adaptive primitive gap
\* was detected"): after the divergence a run without a suggestion has accepted no
\* candidate, or has a final candidate that was audited, in a round of its own, and
\* whose omissions an audit is proposed for, so that its outcome can be compiled.
SilentOnlyWhenDone ==
  start.run /\ divergence = "revealed" /\ Suggestions = {} =>
    \/ Frontier(ledger) = {}
    \/ \E f \in FinalProposals(ledger) :
         /\ Outcome(ledger, f).audits # {}
         /\ OmissionAuditProposed(f)

\* Round ids have defaults and the material of a round the latest round's: however
\* rounds are begun, written in by one generator after another and interleaved with
\* others, all that a round wrote is about the material its record names.
RoundsKeepTheirMaterial ==
  \A stage \in Stages : \A i \in DOMAIN rounds[stage] :
    LET r == rounds[stage][i]
    IN  /\ stage = "review" =>
             \E j \in DOMAIN rounds["extraction"] :
               /\ rounds["extraction"][j].id = r.source
               /\ \A e \in r.events : ledger[e].target \in rounds["extraction"][j].events
        /\ stage = "evidence" => {ledger[e].need : e \in r.events} \subseteq r.source
        /\ stage = "finalization" => \A e \in r.events : {ledger[e].target} = r.final
=============================================================================
