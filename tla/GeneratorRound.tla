---------------------------- MODULE GeneratorRound ----------------------------
(***************************************************************************)
(* The rounds of packages/orchestrator that follow sealed divergence:      *)
(* extraction, proposal review, candidate repair, evidence check and       *)
(* finalization.  Each asks generators for material, appends what they     *)
(* return to the session's ledger and keeps a record of the round in the   *)
(* run store; a claim with a time to live keeps executions of one round    *)
(* apart.  The five runners are written one like the other; kind says      *)
(* which of them this round is, and the definitions that differ say how.   *)
(*                                                                         *)
(* Executions run in turns of the event loop, as those of SealedRound do:  *)
(* the other actions wait until no execution is inside a turn (Quiet), but *)
(* the process may die after each store write.                             *)
(***************************************************************************)
EXTENDS Deliberation

CONSTANTS Generators,    \* generators, reviewers or auditors, by the kind
          Author,        \* writes the final candidate: a generator, or the id that
                         \* stands for a draft of the request; also accepts proposals
          Execs,         \* execution-claim owner ids, reused once released
          NoExec,
          NoSource,      \* nothing recorded yet
          Scenarios,     \* what kind of round, on which ledger, asked for by which calls
          DraftOf,       \* what a generator drafts, whenever it is asked
          MaxCrashes,    \* bound of the crashes
          StoreMayFail,  \* may the event store throw?
          ClaimsExpire   \* may an execution outlive its claim's time to live?

RoundKinds == {"extraction", "review", "repair", "evidence", "finalization"}

Members == Generators \cup {Author}

ASSUME MembersAssumption ==
  /\ Author \notin Generators /\ Members \subseteq Authors
  /\ DraftOf \in [Generators -> Drafts \ {{}}]
\* requests holds the sets of generators that calls name, http bounds what other
\* clients append meanwhile.  ledger is what others wrote before, without keys.
ASSUME ScenariosAssumption ==
  \A s \in Scenarios :
    /\ DOMAIN s = {"kind", "ledger", "requests", "http"}
    /\ s.kind \in RoundKinds /\ s.http \in Nat
    /\ s.requests \subseteq SUBSET Generators
    /\ {} \in s.requests => s.kind \in {"review", "finalization"}
    /\ Len(s.ledger) \in Nat /\ s.ledger = [i \in 1..Len(s.ledger) |-> s.ledger[i]]
    /\ \A i \in DOMAIN s.ledger : s.ledger[i].key = NoKey
    /\ \A i \in OfType(s.ledger, "extraction_proposed") : s.ledger[i].objects \in Drafts
ASSUME LimitsAssumption == MaxCrashes \in Nat /\ {StoreMayFail, ClaimsExpire} \subseteq BOOLEAN
\* NoKey is none of the keys that a round composes: of its kind, a member, and what
\* the member answers to.
ASSUME KeysAssumption ==
  /\ NoKey \notin RoundKinds \X Members \X Nat
  /\ NoKey \notin RoundKinds \X Members \X NeedNames
  /\ NoKey \notin RoundKinds \X Members \X SUBSET CandidateNames

VARIABLES scenario, \* this run's member of Scenarios
          round,    \* the round's record in the run store
          exec,     \* exec[e]: what execution e holds in memory
          crashes

roundVars == <<scenario, ledger, round, exec, crashes>>

kind == scenario.kind

NoRecord == [status |-> "none", source |-> NoSource, state |-> [g \in Members |-> "absent"],
             ids |-> [g \in Members |-> {}], events |-> {}, accepted |-> {}, claim |-> NoExec]

Idle == [pc |-> "idle", stage |-> "generators", requested |-> {}, retry |-> {},
         policy |-> "none", offered |-> {}, rec |-> NoRecord, asked |-> {},
         turn |-> Author, todo |-> {}, wrote |-> {}]

RoundInit == /\ scenario \in Scenarios
             /\ ledger = scenario.ledger
             /\ round = NoRecord
             /\ exec = [e \in Execs |-> Idle]
             /\ crashes = 0

Quiet == \A e \in Execs : exec[e].pc \in {"idle", "waiting", "leaving"}

\* assert...RoundExecutionClaimOwned, assertCurrent...ClaimOwner.
Owns(e) == round.claim = e
-----------------------------------------------------------------------------
(***************************************************************************)
(* What a call may name as the material of its round: the contributions of *)
(* the revealed batch; the proposals of the extraction round; candidates   *)
(* with an open objection or obligation among them; accepted needs of      *)
(* accepted claims; an existing final proposal, or Drafted.  A call that   *)
(* names none takes a default, which is one of these.                      *)
(***************************************************************************)
Drafted == 0

Disputed(l) == {d.object.about : d \in Unanswered(l)}

RepairSources(l) == {s \in SUBSET Names(Frontier(l)) : s \cap Disputed(l) # {}}

EvidenceSources(l) ==
  {s \in SUBSET Names(AcceptedObjects(l, "need")) :
     s # {} /\ \A n \in s : NeedNamed(l, n).object.about \in Names(AcceptedObjects(l, "claim"))}

Sources(l) ==
  CASE kind = "extraction"   -> {OfType(l, "sealed_contribution_submitted")}
    [] kind = "review"       -> {OfType(l, "extraction_proposed")}
    [] kind = "repair"       -> RepairSources(l)
    [] kind = "evidence"     -> EvidenceSources(l)
    [] kind = "finalization" -> {Drafted} \cup FinalProposals(l)

\* resolveGeneratorIds, resolveReviewerIds, resolveAuditorIds: only a review and a
\* finalization may do without generators.  A finalization also has its candidate.
Requests ==
  IF kind = "finalization" THEN {{Author} \cup s : s \in scenario.requests}
  ELSE scenario.requests

\* retryFailedGenerators and its like; a finalization has two such flags.
Retries == IF kind = "finalization" THEN {{}, {Author}, Generators, Members}
                                    ELSE {{}, Generators}

\* The acceptance policies, by what they select: all_generated or a list that
\* allows challenged proposals; all_generated_unchallenged or a list that does not.
AcceptancePolicies == IF kind = "review" THEN {"none", "all", "unchallenged"} ELSE {"none"}
-----------------------------------------------------------------------------
\* create...States: what the record says of the generators asked for now; those
\* of an earlier call that are not among them are forgotten.
States(rec, source, requested) ==
  LET existing(g) == g = Author /\ source # Drafted
  IN  [rec EXCEPT
        !.source = source,
        !.state = [g \in Members |-> IF g \notin requested THEN "absent"
                                     ELSE IF @[g] # "absent" THEN @[g]
                                     ELSE IF existing(g) THEN "done" ELSE "pending"],
        !.ids = [g \in Members |-> IF g \notin requested THEN {}
                                   ELSE IF existing(g) THEN {source} ELSE @[g]]]

(***************************************************************************)
(* acquire...RoundExecutionClaim: not for a completed round, nor for other *)
(* material than the round began with, nor while a claim is unexpired.  An *)
(* execution itself looks at its claim's owner only, so when a claim       *)
(* expires matters to nobody before the next call.                         *)
(***************************************************************************)
CanClaim(source) ==
  /\ round.status # "completed"
  /\ round.status = "none" \/ round.source = source
  /\ round.claim = NoExec \/ ClaimsExpire

Claim(e, source, requested, retry, policy) ==
  /\ Quiet
  /\ exec[e].pc = "idle" /\ e # round.claim
  /\ CanClaim(source)
  /\ round' = [States(round, source, requested) EXCEPT !.status = "running", !.claim = e]
  /\ exec' = [exec EXCEPT ![e] =
                [Idle EXCEPT !.pc = "claimed", !.requested = requested,
                             !.retry = {g \in retry : round.state[g] = "failed"},
                             !.stage = IF kind = "finalization" THEN "candidate" ELSE @,
                             !.policy = policy, !.rec = round']]
  /\ UNCHANGED <<ledger, crashes>>

\* set...RoundState, for the owner of the claim.
Record(e, rec) == round' = [rec EXCEPT !.claim = round.claim]

\* The execution is over but for the release of its claim.
Leave(e) == exec' = [exec EXCEPT ![e] = [Idle EXCEPT !.pc = "leaving"]]

RecordAndLeave(e, rec) == Record(e, rec) /\ Leave(e)

\* build...Context; repair and evidence check build theirs before the claim.
HasContext(e) ==
  CASE kind \in {"extraction", "review"} -> exec[e].rec.source # {}
    [] kind = "finalization"             -> Frontier(ledger) # {}
    [] OTHER                             -> TRUE

\* mark...RoundFailed.
ContextFails(e) ==
  /\ exec[e].pc = "claimed"
  /\ ~HasContext(e) \/ (StoreMayFail /\ kind \notin {"repair", "evidence"})
  /\ RecordAndLeave(e, [exec[e].rec EXCEPT !.status = "failed"])
  /\ UNCHANGED <<ledger, crashes>>

\* get...ToExecute, shouldExecuteFinalCandidate.
ToExecute(e, members) ==
  {g \in members \cap exec[e].requested :
     \/ exec[e].rec.state[g] \in {"pending", "running"}
     \/ exec[e].rec.state[g] = "failed" /\ g \in exec[e].retry}

StageMembers(e) == IF exec[e].stage = "candidate" THEN {Author} ELSE Generators

\* mark...Running and the calls of the generators.
Ask(e) ==
  /\ \/ exec[e].pc = "claimed" /\ HasContext(e)
     \/ exec[e].pc = "auditing"
  /\ LET asked == ToExecute(e, StageMembers(e))
         rec   == [exec[e].rec EXCEPT
                     !.status = "running",
                     !.state = [g \in Members |-> IF g \in asked THEN "running" ELSE @[g]]]
     IN  /\ Record(e, rec)
         /\ exec' = [exec EXCEPT
              ![e].pc = IF asked = {} THEN "merging" ELSE "waiting",
              ![e].rec = rec, ![e].asked = asked,
              ![e].offered = IF exec[e].pc = "claimed" /\ kind = "finalization"
                               THEN Names(Frontier(ledger)) ELSE exec[e].offered]
  /\ UNCHANGED <<ledger, crashes>>
-----------------------------------------------------------------------------
\* Mutant: the key of an attempt.
ItemKey_PerAttempt(g, x) == <<kind, g, Len(ledger)>>

\* Mutant: one key for all that a generator writes.
ItemKey_NoTarget(g, x) == <<kind, g, Drafted>>

\* create...IdempotencyKey.
ItemKey(g, x) == <<kind, g, x>>

\* What a generator may answer: a draft, the proposals it challenges, the needs
\* it reports on, the candidates it recommends, or its audit.
Answers(e, g) ==
  CASE kind \in {"extraction", "repair"} -> {{DraftOf[g]}}
    [] kind = "review"                   -> SUBSET exec[e].rec.source
    [] kind = "evidence"                 -> (SUBSET exec[e].rec.source) \ {{}}
    [] kind = "finalization" /\ g = Author ->
         {{names} : names \in (SUBSET exec[e].offered) \ {{}}}
    [] kind = "finalization" /\ g # Author -> {exec[e].rec.ids[Author]}

\* A draft names its source's contributions, or the proposals of the candidates it
\* repairs: of several candidates with one name the first one is the target.
DraftSources(source) ==
  IF kind = "extraction" THEN source
  ELSE {d.from : d \in {c \in Frontier(ledger) :
          /\ c.object.name \in source
          /\ \A other \in Frontier(ledger) :
               other.object.name = c.object.name => c.from <= other.from}}

\* executeExtractionGenerator, executeCandidateRepairGenerator: proposeExtraction.
DraftInput(e, g) ==
  ExtractionInput(ledger, g,
                  ItemKey(g, IF kind = "repair" THEN exec[e].rec.source ELSE {}),
                  DraftOf[g], DraftSources(exec[e].rec.source))

\* executeProposalReviewer: challengeProposal.
ChallengeInput(g, target) ==
  ResponseInput(ledger, "proposal_challenged", g, ItemKey(g, target), target)

\* executeEvidenceCheckGenerator: recordEvidenceResult.
ResultInput(g, name) == EvidenceInput(ledger, g, ItemKey(g, name), name)

\* executeFinalCandidateSource: proposeFinalCandidate.
CandidateInput(names) == FinalInput(ledger, Author, ItemKey(Author, Drafted), names)

\* executeFinalAuditGenerator: auditFinalCandidate.
AuditInput(g, target) ==
  ResponseInput(ledger, "final_audit_recorded", g, ItemKey(g, target), target)

InputOf(e, item) ==
  LET g == exec[e].turn
  IN  CASE kind \in {"extraction", "repair"}      -> DraftInput(e, g)
        [] kind = "review"                        -> ChallengeInput(g, item)
        [] kind = "evidence"                      -> ResultInput(g, item)
        [] kind = "finalization" /\ g = Author    -> CandidateInput(item)
        [] kind = "finalization" /\ g # Author    -> AuditInput(g, item)
-----------------------------------------------------------------------------
Awaits(e, g) == Quiet /\ exec[e].pc = "waiting" /\ g \in exec[e].asked

\* Mutant: the event ids of the results are not collected.
Answered_NotCollected(e, g, state, ids) ==
  exec' = [exec EXCEPT
    ![e].asked = @ \ {g},
    ![e].pc = IF exec[e].asked = {g} THEN "merging" ELSE "waiting",
    ![e].rec = [exec[e].rec EXCEPT !.state[g] = state, !.ids[g] = ids],
    ![e].todo = {}, ![e].wrote = {}, ![e].turn = Author]

\* The end of a generator's turn; after the last one the results are merged.
Answered(e, g, state, ids) ==
  exec' = [exec EXCEPT
    ![e].asked = @ \ {g},
    ![e].pc = IF exec[e].asked = {g} THEN "merging" ELSE "waiting",
    ![e].rec = [exec[e].rec EXCEPT !.state[g] = state, !.ids[g] = ids,
                                   !.events = IF g = Author THEN @ ELSE @ \cup ids],
    ![e].todo = {}, ![e].wrote = {}, ![e].turn = Author]

\* Mutant: the claim is not confirmed before the writes.
Answer_Unclaimed(e, g, items) ==
  /\ Awaits(e, g)
  /\ items \in Answers(e, g)
  /\ IF items = {}
       THEN Answered(e, g, "done", {})
       ELSE exec' = [exec EXCEPT ![e].pc = "writing", ![e].turn = g, ![e].todo = items]
  /\ UNCHANGED <<ledger, round, crashes>>

\* The generator answers in time and its answer is valid.
Answer(e, g, items) ==
  /\ Awaits(e, g)
  /\ Owns(e)
  /\ items \in Answers(e, g)
  /\ IF items = {}
       THEN Answered(e, g, "done", {})
       ELSE exec' = [exec EXCEPT ![e].pc = "writing", ![e].turn = g, ![e].todo = items]
  /\ UNCHANGED <<ledger, round, crashes>>

\* The generator throws, its answer is invalid, or the claim is lost.
AnswerFails(e, g) ==
  /\ Awaits(e, g)
  /\ Answered(e, g, "failed", {})
  /\ UNCHANGED <<ledger, round, crashes>>

\* One item of the answer is appended, or found under its key.
WriteItem(e, item) ==
  /\ exec[e].pc = "writing" /\ item \in exec[e].todo
  /\ LET input == InputOf(e, item)
         wrote == exec[e].wrote \cup {ReturnedEvent(ledger, input)}
     IN  /\ ~IsConflict(ledger, input)
         /\ Store(input)
         /\ IF exec[e].todo = {item}
              THEN Answered(e, exec[e].turn, "done", wrote)
              ELSE exec' = [exec EXCEPT ![e].todo = @ \ {item}, ![e].wrote = wrote]
  /\ UNCHANGED <<round, crashes>>

\* The core or its store refuses an item: what was written before it stays in the
\* ledger, and the generator has failed.
WriteFails(e) ==
  /\ exec[e].pc = "writing"
  /\ StoreMayFail \/ \E item \in exec[e].todo : IsConflict(ledger, InputOf(e, item))
  /\ Answered(e, exec[e].turn, "failed", {})
  /\ UNCHANGED <<ledger, round, crashes>>
-----------------------------------------------------------------------------
\* Mutant: a failed generator does not keep the round waiting.
Done_FailedToo(rec, members) == \A g \in members : rec.state[g] \in {"done", "failed"}

\* has...Generator, isReviewerIncomplete, isAuditorIncomplete.
Done(rec, members) == \A g \in members : rec.state[g] = "done"

\* resolveAcceptanceProposalEventIds and the checks of runAcceptancePolicy.
ToAccept(e) ==
  CASE exec[e].policy = "none"         -> {}
    [] exec[e].policy = "all"          -> exec[e].rec.source
    [] exec[e].policy = "unchallenged" -> {i \in exec[e].rec.source : Challenges(ledger, i) = {}}

\* merge...Results and what the runner does next.  Without the claim it throws.
MergeUnowned(e) ==
  /\ exec[e].pc = "merging" /\ ~Owns(e)
  /\ Leave(e)
  /\ UNCHANGED <<ledger, round, crashes>>

Merge(e) ==
  /\ exec[e].pc = "merging" /\ Owns(e)
  /\ LET rec(status) == [exec[e].rec EXCEPT !.status = status]
         done        == Done(exec[e].rec, StageMembers(e) \cap exec[e].requested)
     IN  IF done /\ kind \in {"review", "finalization"}
           THEN /\ Record(e, rec("running"))
                /\ exec' = [exec EXCEPT
                     ![e].pc = IF kind = "review" THEN "accepting"
                               ELSE IF exec[e].stage = "candidate" THEN "auditing"
                               ELSE "compiling",
                     ![e].rec = rec("running"), ![e].stage = "generators",
                     ![e].todo = IF kind = "review" THEN ToAccept(e) ELSE {}]
           ELSE RecordAndLeave(e, rec(IF done THEN "completed" ELSE "waiting"))
  /\ UNCHANGED <<ledger, crashes>>

\* runAcceptancePolicy: acceptProposal under the round's key for the proposal.
AcceptInput(target) ==
  ResponseInput(ledger, "proposal_accepted", Author, ItemKey(Author, target), target)

Accept(e, target) ==
  /\ exec[e].pc = "accepting" /\ target \in exec[e].todo
  /\ ~IsConflict(ledger, AcceptInput(target))
  /\ Store(AcceptInput(target))
  /\ exec' = [exec EXCEPT ![e].todo = @ \ {target},
                          ![e].wrote = @ \cup {ReturnedEvent(ledger, AcceptInput(target))}]
  /\ UNCHANGED <<round, crashes>>

\* The rejection is part of the result, and the round goes on.
AcceptFails(e, target) ==
  /\ exec[e].pc = "accepting" /\ target \in exec[e].todo
  /\ StoreMayFail \/ IsConflict(ledger, AcceptInput(target))
  /\ exec' = [exec EXCEPT ![e].todo = @ \ {target}]
  /\ UNCHANGED <<ledger, round, crashes>>

Complete(e) ==
  /\ exec[e].pc = "accepting" /\ exec[e].todo = {}
  /\ RecordAndLeave(e, [exec[e].rec EXCEPT !.status = "completed",
                                          !.accepted = @ \cup exec[e].wrote])
  /\ UNCHANGED <<ledger, crashes>>

\* compileOutcomeForRound, where the call asks for it; the outcome itself is
\* computed again whenever it is read.
Compile(e, status) ==
  /\ exec[e].pc = "compiling"
  /\ status = "failed" => StoreMayFail
  /\ RecordAndLeave(e, [exec[e].rec EXCEPT !.status = status])
  /\ UNCHANGED <<ledger, crashes>>

\* release...RoundExecutionClaim, after a result and after an error alike.
Release(e) ==
  /\ Quiet
  /\ exec[e].pc = "leaving"
  /\ round' = IF Owns(e) THEN [round EXCEPT !.claim = NoExec] ELSE round
  /\ exec' = [exec EXCEPT ![e] = Idle]
  /\ UNCHANGED <<ledger, crashes>>
-----------------------------------------------------------------------------
\* The process dies, in or between turns, and finds an old claim when it is back.
Crash ==
  /\ crashes < MaxCrashes
  /\ crashes' = crashes + 1
  /\ \E e \in Execs : exec[e].pc # "idle"
  /\ exec' = [e \in Execs |-> Idle]
  /\ UNCHANGED <<ledger, round>>

\* Other clients of the session, without idempotency keys.
HttpEvents == {i \in DOMAIN ledger : ledger[i].key = NoKey}

HttpCall(a) ==
  /\ Quiet
  /\ Cardinality(HttpEvents) < Len(scenario.ledger) + scenario.http
  /\ \/ \E target \in DOMAIN ledger : \/ ChallengeProposal(a, NoKey, target)
                                      \/ AcceptProposal(a, NoKey, target)
     \/ \E names \in SUBSET CandidateNames : ProposeFinalCandidate(a, NoKey, names)
  /\ UNCHANGED <<round, exec, crashes>>

Proceed(e) ==
  \/ ContextFails(e)
  \/ Ask(e)
  \/ \E g \in exec[e].asked : \/ \E items \in Answers(e, g) : Answer(e, g, items)
                              \/ AnswerFails(e, g)
  \/ \E item \in exec[e].todo : WriteItem(e, item)
  \/ WriteFails(e)
  \/ MergeUnowned(e)
  \/ Merge(e)
  \/ \E target \in exec[e].todo : Accept(e, target) \/ AcceptFails(e, target)
  \/ Complete(e)
  \/ \E status \in {"completed", "failed"} : Compile(e, status)
  \/ Release(e)

RoundStep ==
  \/ \E e \in Execs :
       \/ \E source \in Sources(ledger), requested \in Requests, retry \in Retries,
             policy \in AcceptancePolicies : Claim(e, source, requested, retry, policy)
       \/ Proceed(e)
  \/ Crash
  \/ \E a \in Authors \ Members : HttpCall(a)

RoundNext == RoundStep /\ UNCHANGED scenario

RoundSpec == RoundInit /\ [][RoundNext]_roundVars
-----------------------------------------------------------------------------
\* The events that generator g wrote for this round.
WrittenBy(g) == {i \in DOMAIN ledger : ledger[i].author = g /\ ledger[i].key # NoKey}

\* The record and the ledger tell one story.  What the record lists was written
\* for the round, by that generator; a generator counts as done only with its work
\* in the ledger; and nothing a done generator wrote is missing from the list, where
\* its answer is one event (a reviewer's second answer may leave out a challenge of
\* its first).  A crash between the two stores, a takeover or a partly written answer
\* does not part them.
RecordMatchesLedger ==
  /\ round.events \subseteq UNION {WrittenBy(g) : g \in Generators}
  /\ round.accepted \subseteq WrittenBy(Author)
  /\ \A g \in Generators :
       /\ round.ids[g] \subseteq round.events \cap WrittenBy(g)
       /\ round.state[g] = "done" /\ kind \notin {"review", "evidence"} =>
            round.ids[g] # {} /\ WrittenBy(g) \subseteq round.events
  /\ round.state[Author] = "done" => \E f \in FinalProposals(ledger) : round.ids[Author] = {f}
  /\ kind = "finalization" =>
       \A i \in round.events : ledger[i].target \in round.ids[Author]

\* However often the round was begun, no generator has two answers of one kind to
\* one target in the ledger, and the round no second final candidate.
NoDuplicateWork ==
  \A i, j \in UNION {WrittenBy(g) : g \in Members} :
    /\ ledger[i].author = ledger[j].author /\ ledger[i].type = ledger[j].type
    /\ "target" \in DOMAIN ledger[i] => ledger[i].target = ledger[j].target
    /\ "need" \in DOMAIN ledger[i] => ledger[i].need = ledger[j].need
    => i = j

\* A generator that is asked again and gives the answer it gave before finds its
\* events, so a retry or a takeover can finish the round; a repair as long as nothing
\* was accepted meanwhile.  (An evidence result is compared with the id of its payload
\* and conflicts; a final candidate is compared with the frontier of its moment.)
SameAnswerReplays ==
  \A e \in Execs :
    /\ exec[e].pc = "writing"
    /\ \/ kind \in {"extraction", "review"}
       \/ kind = "repair" /\ OfType(ledger, "proposal_accepted") \subseteq DOMAIN scenario.ledger
    => \A item \in exec[e].todo : ~IsConflict(ledger, InputOf(e, item))

\* An execution that lost its claim while it awaited generators appends nothing more
\* (stage19b1.test.ts, "late reviewer result after stale claim reclaim appends no
\* duplicate challenge or acceptance").
AppendedByOwner ==
  [][\A e \in Execs :
       exec[e].pc \in {"writing", "accepting"} /\ ledger' # ledger => Owns(e)]_roundVars

\* A review round accepts only after each requested reviewer's review is in its
\* record, and under a policy that excludes challenged proposals nothing that anyone
\* has challenged, in this execution, in one that died, or over HTTP.
AcceptanceAfterReview ==
  [][\A e \in Execs : \A target \in exec[e].todo :
       exec[e].pc = "accepting" /\ Acceptances(ledger', target) # Acceptances(ledger, target) =>
         /\ \A g \in exec[e].requested : round.state[g] = "done"
         /\ exec[e].policy = "unchallenged" => Challenges(ledger, target) = {}]_roundVars
=============================================================================
