------------------------- MODULE GeneratorRoundProofs -------------------------
(***************************************************************************)
(* Theorems about the rounds of generators, of each of the five kinds:     *)
(* what a round writes it writes once and under its claim, its record and  *)
(* the ledger tell one story, and acceptances wait for the reviews.        *)
(*                                                                         *)
(* The invariant has six parts: the records executions hold (ShapeInv),    *)
(* who is inside a turn (TurnInv), what the events of the round say        *)
(* (WorkInv), what the record says of them (RecordInv), what each          *)
(* execution remembers (MemoryInv), and what acceptances rest on           *)
(* (AcceptInv).                                                            *)
(***************************************************************************)
EXTENDS GeneratorRound, DeliberationProofs

-----------------------------------------------------------------------------
(***************************************************************************)
(* Shapes.                                                                 *)
(***************************************************************************)
IsRecord(r) ==
  /\ r = [status |-> r.status, source |-> r.source, state |-> r.state, ids |-> r.ids,
          events |-> r.events, accepted |-> r.accepted, claim |-> r.claim]
  /\ r.state = [g \in Members |-> r.state[g]]
  /\ r.ids = [g \in Members |-> r.ids[g]]

IsExec(x) ==
  x = [pc |-> x.pc, stage |-> x.stage, requested |-> x.requested, retry |-> x.retry,
       policy |-> x.policy, offered |-> x.offered, rec |-> x.rec, asked |-> x.asked,
       turn |-> x.turn, todo |-> x.todo, wrote |-> x.wrote]

ShapeInv ==
  /\ scenario \in Scenarios
  /\ IsRecord(round)
  /\ exec = [e \in Execs |-> exec[e]]
  /\ \A e \in Execs : IsExec(exec[e]) /\ IsRecord(exec[e].rec)

-----------------------------------------------------------------------------
(***************************************************************************)
(* Turns.                                                                  *)
(***************************************************************************)
Inside(e) == exec[e].pc \notin {"idle", "waiting", "leaving"}
Active(x) == x.pc \notin {"idle", "leaving"}

\* One execution is inside a turn; where its turn took or confirmed the claim, it
\* holds the claim still.
TurnInv ==
  /\ \A e, f \in Execs : Inside(e) /\ Inside(f) => e = f
  /\ \A e \in Execs :
       exec[e].pc \in {"claimed", "writing", "accepting", "auditing", "compiling"} => Owns(e)

-----------------------------------------------------------------------------
(***************************************************************************)
(* The events of the round: those with a key.                              *)
(***************************************************************************)
Written(l, g) == {i \in DOMAIN l : l[i].author = g /\ l[i].key # NoKey}

\* The final candidate that a finalization audits: the drafted one, or the given.
IsFinal(l, source, f) ==
  /\ f \in FinalProposals(l)
  /\ IF source = Drafted THEN f \in Written(l, Author) ELSE f = source

IsDraft(l, source, ev) ==
  /\ kind \in {"extraction", "repair"}
  /\ ev.type = "extraction_proposed" /\ ev.author \in Generators
  /\ ev.key = ItemKey(ev.author, IF kind = "repair" THEN source ELSE {})
  /\ DOMAIN ev = {"type", "key", "author", "basedOn", "objects", "payloadId"}
  /\ ev.objects = DraftOf[ev.author]
  /\ kind = "extraction" => ev.basedOn = source

IsResponse(ev) ==
  /\ ev.key = ItemKey(ev.author, ev.target)
  /\ DOMAIN ev = {"type", "key", "author", "basedOn", "target", "payloadId"}
  /\ ev.basedOn = {ev.target}

IsReview(ev) ==
  /\ kind = "review" /\ IsResponse(ev)
  /\ \/ ev.type = "proposal_challenged" /\ ev.author \in Generators
     \/ ev.type = "proposal_accepted" /\ ev.author = Author

IsResult(ev) ==
  /\ kind = "evidence"
  /\ ev.type = "evidence_result_recorded" /\ ev.author \in Generators
  /\ "need" \in DOMAIN ev /\ "target" \notin DOMAIN ev
  /\ ev.key = ItemKey(ev.author, ev.need)

IsCandidate(source, ev) ==
  /\ kind = "finalization" /\ source = Drafted
  /\ ev.type = "final_candidate_proposed" /\ ev.author = Author
  /\ ev.key = ItemKey(Author, Drafted)
  /\ "need" \notin DOMAIN ev /\ "target" \notin DOMAIN ev

IsAudit(l, source, ev) ==
  /\ kind = "finalization" /\ IsResponse(ev)
  /\ ev.type = "final_audit_recorded" /\ ev.author \in Generators
  /\ IsFinal(l, source, ev.target)

IsWork(l, source, ev) ==
  \/ IsDraft(l, source, ev) \/ IsReview(ev) \/ IsResult(ev)
  \/ IsCandidate(source, ev) \/ IsAudit(l, source, ev)

\* What repair drafts are based on, as long as nothing was accepted since.
RepairsAsToday ==
  kind = "repair" /\ OfType(ledger, "proposal_accepted") \subseteq DOMAIN scenario.ledger =>
    \A i \in DOMAIN ledger : ledger[i].key # NoKey => ledger[i].basedOn = DraftSources(round.source)

SourceOK(l, source) ==
  /\ kind \in {"extraction", "review"} => source \in SUBSET Nat
  /\ kind = "repair" => source \in SUBSET CandidateNames
  /\ kind = "evidence" => source \in SUBSET NeedNames
  /\ kind = "finalization" => source = Drafted \/ (source \in FinalProposals(l) /\ source # Drafted)

WorkInv ==
  /\ IsLog(ledger) /\ OneEventPerKey(ledger)
  /\ IsLog(scenario.ledger) /\ DOMAIN scenario.ledger \subseteq DOMAIN ledger
  /\ \A i \in OfType(ledger, "extraction_proposed") : ledger[i].objects \in Drafts
  /\ \A i \in DOMAIN ledger : ledger[i].key # NoKey =>
       round.status # "none" /\ IsWork(ledger, round.source, ledger[i])
  /\ round.status # "none" => SourceOK(ledger, round.source)
  /\ RepairsAsToday

-----------------------------------------------------------------------------
(***************************************************************************)
(* What a record says of the ledger.                                       *)
(***************************************************************************)
RecordOK(l, source, r) ==
  /\ r.events \subseteq UNION {Written(l, g) : g \in Generators}
  /\ r.accepted \subseteq Written(l, Author)
  /\ \A g \in Generators : r.ids[g] \subseteq r.events \cap Written(l, g)
  /\ \A g \in Generators :
       r.state[g] = "done" /\ kind \notin {"review", "evidence"} => r.ids[g] # {}
  /\ r.state[Author] = "done" =>
       kind = "finalization" /\ \E f \in FinalProposals(l) : IsFinal(l, source, f) /\ r.ids[Author] = {f}
  /\ kind = "finalization" /\ r.events # {} => r.state[Author] = "done"
  /\ kind = "finalization" /\ r.status # "none" /\ source # Drafted => r.state[Author] = "done"
  /\ r.status = "none" => r = NoRecord

RecordInv == RecordOK(ledger, round.source, round)

-----------------------------------------------------------------------------
(***************************************************************************)
(* What an execution remembers.                                            *)
(***************************************************************************)
StageOf(x) == IF x.stage = "candidate" THEN {Author} ELSE Generators

Items(x) ==
  CASE kind \in {"extraction", "repair"}          -> {DraftOf[x.turn]}
    [] kind \in {"review", "evidence"}            -> x.rec.source
    [] kind = "finalization" /\ x.turn # Author   -> x.rec.ids[Author]
    [] kind = "finalization" /\ x.turn = Author   -> x.todo

WritingOK(x, l) ==
  /\ x.turn \in x.asked
  /\ x.todo \subseteq Items(x)
  /\ x.wrote \subseteq Written(l, x.turn)
  /\ x.turn = Author => x.wrote = {} /\ \E item \in x.todo : x.todo = {item}

AcceptingOK(x, l) ==
  /\ kind = "review" /\ x.todo \subseteq x.rec.source
  /\ x.wrote \subseteq Written(l, Author)

MemoryOK(x, l, source) ==
  /\ x.rec.source = source /\ x.rec.status # "none"
  /\ RecordOK(l, source, x.rec)
  /\ x.requested \subseteq Members
  /\ IF kind = "finalization" THEN Author \in x.requested
     ELSE x.requested \subseteq Generators /\ x.stage = "generators"
  /\ x.stage \in {"candidate", "generators"}
  /\ x.policy \in {"none", "all", "unchallenged"}
  /\ x.asked \subseteq StageOf(x)
  /\ \A g \in x.asked : x.rec.state[g] = "running"
  /\ kind = "finalization" /\ x.stage = "generators" => x.rec.state[Author] = "done"
  /\ x.pc \notin {"waiting", "writing"} => x.asked = {}
  /\ x.pc \notin {"writing", "accepting"} => x.wrote = {}
  /\ x.pc = "writing" => WritingOK(x, l)
  /\ x.pc = "accepting" => AcceptingOK(x, l)

MemoryInv ==
  \A e \in Execs :
    Active(exec[e]) => round.status # "none" /\ MemoryOK(exec[e], ledger, round.source)

\* Acceptances follow the reviews, and under the policy that says so nothing that
\* is challenged is accepted.
AcceptInv ==
  \A e \in Execs : exec[e].pc = "accepting" =>
    /\ \A g \in exec[e].requested : round.state[g] = "done"
    /\ exec[e].policy = "unchallenged" =>
         \A target \in exec[e].todo : Challenges(ledger, target) = {}

RoundInv == ShapeInv /\ TurnInv /\ WorkInv /\ RecordInv /\ MemoryInv /\ AcceptInv

-----------------------------------------------------------------------------
(***************************************************************************)
(* What each action does to the execution that takes it.                   *)
(***************************************************************************)
\* Nothing happens to the other executions.
Only(e) == /\ exec' = [f \in Execs |-> exec'[f]]
           /\ \A f \in Execs \ {e} : exec'[f] = exec[f]

\* The fields of x and y are the same, those in S apart.
SameBut(S, x, y) ==
  /\ "stage" \in S \/ y.stage = x.stage
  /\ "requested" \in S \/ y.requested = x.requested
  /\ "policy" \in S \/ y.policy = x.policy
  /\ "rec" \in S \/ y.rec = x.rec
  /\ "asked" \in S \/ y.asked = x.asked
  /\ "turn" \in S \/ y.turn = x.turn
  /\ "todo" \in S \/ y.todo = x.todo
  /\ "wrote" \in S \/ y.wrote = x.wrote

Shaped(x) == IsExec(x) /\ IsRecord(x.rec)

LEMMA NoRecordShape == IsRecord(NoRecord)
BY DEF NoRecord, IsRecord

LEMMA LeaveEffect ==
  ASSUME ShapeInv, NEW e \in Execs, Leave(e)
  PROVE  Only(e) /\ Shaped(exec'[e]) /\ exec'[e].pc = "leaving"
<1>1. ASSUME NEW x, x = [Idle EXCEPT !.pc = "leaving"]
      PROVE  IsExec(x) /\ x.pc = "leaving" /\ x.rec = NoRecord
  BY <1>1 DEF Idle, IsExec
<1>2. Only(e) /\ exec'[e] = [Idle EXCEPT !.pc = "leaving"]
  BY DEF Leave, ShapeInv, Only
<1> QED
  BY <1>1, <1>2, NoRecordShape DEF Shaped

\* The record with g's answer.
RecordWith(r, g, state, ids) ==
  [r EXCEPT !.state[g] = state, !.ids[g] = ids, !.events = IF g = Author THEN @ ELSE @ \cup ids]

RecordBy(r, g, state, ids, s) ==
  /\ s.source = r.source /\ s.status = r.status /\ s.accepted = r.accepted
  /\ s.events = IF g = Author THEN r.events ELSE r.events \cup ids
  /\ s.state = [r.state EXCEPT ![g] = state]
  /\ s.ids = [r.ids EXCEPT ![g] = ids]

LEMMA RecordAnswered ==
  ASSUME NEW r, IsRecord(r), NEW g \in Members, NEW state, NEW ids
  PROVE  /\ IsRecord(RecordWith(r, g, state, ids))
         /\ RecordBy(r, g, state, ids, RecordWith(r, g, state, ids))
<1>1. PICK s : s = RecordWith(r, g, state, ids)
  OBVIOUS
<1>2. s = [status |-> r.status, source |-> r.source, state |-> [r.state EXCEPT ![g] = state],
           ids |-> [r.ids EXCEPT ![g] = ids],
           events |-> IF g = Author THEN r.events ELSE r.events \cup ids,
           accepted |-> r.accepted, claim |-> r.claim]
  BY <1>1 DEF RecordWith, IsRecord
<1>3. IsRecord(s)
  BY <1>2 DEF IsRecord
<1>4. RecordBy(r, g, state, ids, s)
  BY <1>2 DEF RecordBy
<1> QED
  BY <1>1, <1>3, <1>4

\* What the end of g's turn makes of x.
AnsweredBy(x, g, state, ids, y) ==
  /\ SameBut({"rec", "asked", "turn", "todo", "wrote"}, x, y)
  /\ y.pc = IF x.asked = {g} THEN "merging" ELSE "waiting"
  /\ y.asked = x.asked \ {g} /\ y.wrote = {} /\ y.todo = {}
  /\ RecordBy(x.rec, g, state, ids, y.rec)

TurnEnds(e, g, pc, rec) ==
  exec' = [exec EXCEPT ![e].asked = @ \ {g}, ![e].pc = pc, ![e].rec = rec,
                       ![e].todo = {}, ![e].wrote = {}, ![e].turn = Author]

LEMMA TurnEndEffect ==
  ASSUME ShapeInv, NEW e \in Execs, NEW g, NEW pc, NEW rec, TurnEnds(e, g, pc, rec)
  PROVE  /\ Only(e) /\ IsExec(exec'[e])
         /\ SameBut({"rec", "asked", "turn", "todo", "wrote"}, exec[e], exec'[e])
         /\ exec'[e].pc = pc /\ exec'[e].rec = rec /\ exec'[e].asked = exec[e].asked \ {g}
         /\ exec'[e].wrote = {} /\ exec'[e].todo = {}
<1>0. exec = [f \in Execs |-> exec[f]] /\ IsExec(exec[e])
  BY DEF ShapeInv
<1>1. Only(e) /\ exec'[e] = [exec[e] EXCEPT !.asked = @ \ {g}, !.pc = pc, !.rec = rec,
                                            !.todo = {}, !.wrote = {}, !.turn = Author]
  BY <1>0 DEF TurnEnds, Only
<1> QED
  BY <1>0, <1>1 DEF IsExec, SameBut

LEMMA AnsweredEffect ==
  ASSUME ShapeInv, NEW e \in Execs, NEW g \in Members, NEW state, NEW ids,
         Answered(e, g, state, ids)
  PROVE  Only(e) /\ Shaped(exec'[e]) /\ AnsweredBy(exec[e], g, state, ids, exec'[e])
<1>1. TurnEnds(e, g, IF exec[e].asked = {g} THEN "merging" ELSE "waiting",
               RecordWith(exec[e].rec, g, state, ids))
  BY DEF Answered, TurnEnds, RecordWith
<1>2. IsRecord(exec[e].rec)
  BY DEF ShapeInv
<1>3. /\ Only(e) /\ IsExec(exec'[e])
      /\ SameBut({"rec", "asked", "turn", "todo", "wrote"}, exec[e], exec'[e])
      /\ exec'[e].pc = IF exec[e].asked = {g} THEN "merging" ELSE "waiting"
      /\ exec'[e].rec = RecordWith(exec[e].rec, g, state, ids)
      /\ exec'[e].asked = exec[e].asked \ {g}
      /\ exec'[e].wrote = {} /\ exec'[e].todo = {}
  BY <1>1, TurnEndEffect
<1> QED
  BY <1>2, <1>3, RecordAnswered DEF Shaped, AnsweredBy

\* What a claim makes of the record.
ClaimedFrom(r, source, requested, s) ==
  /\ s.status = "running" /\ s.source = source
  /\ s.events = r.events /\ s.accepted = r.accepted
  /\ \A g \in Members :
       /\ s.state[g] = IF g \notin requested THEN "absent"
                       ELSE IF r.state[g] # "absent" THEN r.state[g]
                       ELSE IF g = Author /\ source # Drafted THEN "done" ELSE "pending"
       /\ s.ids[g] = IF g \notin requested THEN {}
                     ELSE IF g = Author /\ source # Drafted THEN {source} ELSE r.ids[g]

ClaimedRecord(r, e, source, requested) ==
  [States(r, source, requested) EXCEPT !.status = "running", !.claim = e]

LEMMA RecordClaimed ==
  ASSUME NEW r, IsRecord(r), NEW e, NEW source, NEW requested
  PROVE  /\ IsRecord(ClaimedRecord(r, e, source, requested))
         /\ ClaimedRecord(r, e, source, requested).claim = e
         /\ ClaimedFrom(r, source, requested, ClaimedRecord(r, e, source, requested))
<1>1. PICK state :
        state = [g \in Members |->
                   IF g \notin requested THEN "absent"
                   ELSE IF r.state[g] # "absent" THEN r.state[g]
                   ELSE IF g = Author /\ source # Drafted THEN "done" ELSE "pending"]
  OBVIOUS
<1>2. PICK ids :
        ids = [g \in Members |->
                 IF g \notin requested THEN {}
                 ELSE IF g = Author /\ source # Drafted THEN {source} ELSE r.ids[g]]
  OBVIOUS
<1>3. States(r, source, requested) = [r EXCEPT !.source = source, !.state = state, !.ids = ids]
  BY <1>1, <1>2 DEF States, IsRecord
<1>4. PICK s : s = ClaimedRecord(r, e, source, requested)
  OBVIOUS
<1>5. s = [status |-> "running", source |-> source, state |-> state, ids |-> ids,
           events |-> r.events, accepted |-> r.accepted, claim |-> e]
  BY <1>3, <1>4 DEF IsRecord, ClaimedRecord
<1>6. state = [g \in Members |-> state[g]] /\ ids = [g \in Members |-> ids[g]]
  BY <1>1, <1>2
<1>7. IsRecord(s)
  BY <1>5, <1>6 DEF IsRecord
<1>8. s.claim = e /\ ClaimedFrom(r, source, requested, s)
  BY <1>1, <1>2, <1>5 DEF ClaimedFrom
<1> QED
  BY <1>4, <1>7, <1>8

ClaimedIdle(requested, failed, stage, policy, rec) ==
  [Idle EXCEPT !.pc = "claimed", !.requested = requested, !.retry = failed,
               !.stage = stage, !.policy = policy, !.rec = rec]

LEMMA IdleClaimed ==
  ASSUME NEW requested, NEW failed, NEW stage, NEW policy, NEW rec, NEW x,
         x = ClaimedIdle(requested, failed, stage, policy, rec)
  PROVE  /\ IsExec(x) /\ x.pc = "claimed" /\ x.requested = requested /\ x.policy = policy
         /\ x.stage = stage /\ x.rec = rec /\ x.asked = {} /\ x.wrote = {}
BY DEF ClaimedIdle, Idle, IsExec

LEMMA ClaimEffect ==
  ASSUME ShapeInv, NEW e \in Execs, NEW source, NEW requested, NEW retry, NEW policy,
         Claim(e, source, requested, retry, policy)
  PROVE  /\ Only(e) /\ Shaped(exec'[e]) /\ IsRecord(round')
         /\ round'.claim = e /\ ClaimedFrom(round, source, requested, round')
         /\ exec'[e].pc = "claimed" /\ exec'[e].requested = requested /\ exec'[e].policy = policy
         /\ exec'[e].stage = IF kind = "finalization" THEN "candidate" ELSE "generators"
         /\ exec'[e].rec = round' /\ exec'[e].asked = {} /\ exec'[e].wrote = {}
<1>1. IsRecord(round) /\ exec = [f \in Execs |-> exec[f]]
  BY DEF ShapeInv
<1>2. round' = ClaimedRecord(round, e, source, requested)
  BY DEF Claim, ClaimedRecord
<1>3. IsRecord(round') /\ round'.claim = e /\ ClaimedFrom(round, source, requested, round')
  BY <1>1, <1>2, RecordClaimed
<1>4. Idle.stage = "generators"
  BY DEF Idle
<1>5. exec' = [exec EXCEPT ![e] =
                 ClaimedIdle(requested, {g \in retry : round.state[g] = "failed"},
                             IF kind = "finalization" THEN "candidate" ELSE Idle.stage,
                             policy, round')]
  BY DEF Claim, ClaimedIdle, Idle
<1>6. /\ Only(e)
      /\ exec'[e] = ClaimedIdle(requested, {g \in retry : round.state[g] = "failed"},
                                IF kind = "finalization" THEN "candidate" ELSE Idle.stage,
                                policy, round')
  BY <1>1, <1>5 DEF Only
<1>7. /\ IsExec(exec'[e])
      /\ exec'[e].pc = "claimed" /\ exec'[e].requested = requested /\ exec'[e].policy = policy
      /\ exec'[e].stage = IF kind = "finalization" THEN "candidate" ELSE Idle.stage
      /\ exec'[e].rec = round' /\ exec'[e].asked = {} /\ exec'[e].wrote = {}
  BY <1>6, IdleClaimed
<1> QED
  BY <1>3, <1>4, <1>6, <1>7 DEF Shaped

\* What is recorded, for the owner of the claim.
LEMMA RecordEffect ==
  ASSUME NEW e, NEW rec, IsRecord(rec), Record(e, rec)
  PROVE  /\ IsRecord(round') /\ round'.claim = round.claim
         /\ round'.status = rec.status /\ round'.source = rec.source /\ round'.state = rec.state
         /\ round'.ids = rec.ids /\ round'.events = rec.events /\ round'.accepted = rec.accepted
BY DEF Record, IsRecord

\* The record with another status, or other acceptances.
LEMMA RecordStatus ==
  ASSUME NEW r, IsRecord(r), NEW status, NEW s, s = [r EXCEPT !.status = status]
  PROVE  /\ IsRecord(s) /\ s.status = status /\ s.source = r.source /\ s.state = r.state
         /\ s.ids = r.ids /\ s.events = r.events /\ s.accepted = r.accepted
BY DEF IsRecord

LEMMA RecordAccepted ==
  ASSUME NEW r, IsRecord(r), NEW wrote, NEW s,
         s = [r EXCEPT !.status = "completed", !.accepted = @ \cup wrote]
  PROVE  /\ IsRecord(s) /\ s.status = "completed" /\ s.source = r.source /\ s.state = r.state
         /\ s.ids = r.ids /\ s.events = r.events /\ s.accepted = r.accepted \cup wrote
BY DEF IsRecord

\* What asking makes of a record.
AskedFrom(r, asked, s) ==
  /\ s.status = "running" /\ s.source = r.source
  /\ s.ids = r.ids /\ s.events = r.events /\ s.accepted = r.accepted
  /\ \A g \in Members : s.state[g] = IF g \in asked THEN "running" ELSE r.state[g]

AskedRecord(r, asked) ==
  [r EXCEPT !.status = "running",
            !.state = [g \in Members |-> IF g \in asked THEN "running" ELSE @[g]]]

LEMMA RecordAsked ==
  ASSUME NEW r, IsRecord(r), NEW asked
  PROVE  IsRecord(AskedRecord(r, asked)) /\ AskedFrom(r, asked, AskedRecord(r, asked))
<1>1. PICK state : state = [g \in Members |-> IF g \in asked THEN "running" ELSE r.state[g]]
  OBVIOUS
<1>2. PICK s : s = AskedRecord(r, asked)
  OBVIOUS
<1>3. s = [status |-> "running", source |-> r.source, state |-> state, ids |-> r.ids,
           events |-> r.events, accepted |-> r.accepted, claim |-> r.claim]
  BY <1>1, <1>2 DEF IsRecord, AskedRecord
<1>4. IsRecord(s)
  BY <1>1, <1>3 DEF IsRecord
<1>5. AskedFrom(r, asked, s)
  BY <1>1, <1>3 DEF AskedFrom
<1> QED
  BY <1>2, <1>4, <1>5

StartsAsking(e, pc, rec, asked, offered) ==
  exec' = [exec EXCEPT ![e].pc = pc, ![e].rec = rec, ![e].asked = asked, ![e].offered = offered]

LEMMA StartsAskingEffect ==
  ASSUME ShapeInv, NEW e \in Execs, NEW pc, NEW rec, NEW asked, NEW offered,
         StartsAsking(e, pc, rec, asked, offered)
  PROVE  /\ Only(e) /\ IsExec(exec'[e]) /\ SameBut({"rec", "asked"}, exec[e], exec'[e])
         /\ exec'[e].pc = pc /\ exec'[e].rec = rec /\ exec'[e].asked = asked
<1>0. exec = [f \in Execs |-> exec[f]] /\ IsExec(exec[e])
  BY DEF ShapeInv
<1>1. Only(e) /\ exec'[e] = [exec[e] EXCEPT !.pc = pc, !.rec = rec, !.asked = asked,
                                            !.offered = offered]
  BY <1>0 DEF StartsAsking, Only
<1> QED
  BY <1>0, <1>1 DEF IsExec, SameBut

LEMMA AskEffect ==
  ASSUME ShapeInv, NEW e \in Execs, Ask(e)
  PROVE  /\ Only(e) /\ Shaped(exec'[e]) /\ SameBut({"rec", "asked"}, exec[e], exec'[e])
         /\ exec'[e].asked = ToExecute(e, StageMembers(e))
         /\ exec'[e].pc = IF exec'[e].asked = {} THEN "merging" ELSE "waiting"
         /\ AskedFrom(exec[e].rec, exec'[e].asked, exec'[e].rec)
         /\ Record(e, exec'[e].rec)
<1>1. /\ StartsAsking(e, IF ToExecute(e, StageMembers(e)) = {} THEN "merging" ELSE "waiting",
                      AskedRecord(exec[e].rec, ToExecute(e, StageMembers(e))),
                      ToExecute(e, StageMembers(e)),
                      IF exec[e].pc = "claimed" /\ kind = "finalization"
                        THEN Names(Frontier(ledger)) ELSE exec[e].offered)
      /\ Record(e, AskedRecord(exec[e].rec, ToExecute(e, StageMembers(e))))
  BY DEF Ask, StartsAsking, AskedRecord
<1>2. IsRecord(exec[e].rec)
  BY DEF ShapeInv
<1>3. /\ Only(e) /\ IsExec(exec'[e]) /\ SameBut({"rec", "asked"}, exec[e], exec'[e])
      /\ exec'[e].asked = ToExecute(e, StageMembers(e))
      /\ exec'[e].pc = IF ToExecute(e, StageMembers(e)) = {} THEN "merging" ELSE "waiting"
      /\ exec'[e].rec = AskedRecord(exec[e].rec, ToExecute(e, StageMembers(e)))
  BY <1>1, StartsAskingEffect
<1> QED
  BY <1>1, <1>2, <1>3, RecordAsked DEF Shaped

BeginsWriting(e, g, items) ==
  exec' = [exec EXCEPT ![e].pc = "writing", ![e].turn = g, ![e].todo = items]

LEMMA StartsWriting ==
  ASSUME ShapeInv, NEW e \in Execs, NEW g, NEW items, BeginsWriting(e, g, items)
  PROVE  /\ Only(e) /\ Shaped(exec'[e]) /\ SameBut({"turn", "todo"}, exec[e], exec'[e])
         /\ exec'[e].pc = "writing" /\ exec'[e].turn = g /\ exec'[e].todo = items
<1>0. exec = [f \in Execs |-> exec[f]] /\ IsExec(exec[e]) /\ IsRecord(exec[e].rec)
  BY DEF ShapeInv
<1>1. Only(e) /\ exec'[e] = [exec[e] EXCEPT !.pc = "writing", !.turn = g, !.todo = items]
  BY <1>0 DEF Only, BeginsWriting
<1>2. /\ IsExec(exec'[e]) /\ SameBut({"turn", "todo"}, exec[e], exec'[e])
      /\ exec'[e].pc = "writing" /\ exec'[e].turn = g /\ exec'[e].todo = items
      /\ exec'[e].rec = exec[e].rec
  BY <1>0, <1>1 DEF IsExec, SameBut
<1> QED
  BY <1>0, <1>1, <1>2 DEF Shaped

MarksItem(e, todo, wrote) == exec' = [exec EXCEPT ![e].todo = todo, ![e].wrote = wrote]

LEMMA ItemDone ==
  ASSUME ShapeInv, NEW e \in Execs, NEW todo, NEW wrote, MarksItem(e, todo, wrote)
  PROVE  /\ Only(e) /\ Shaped(exec'[e]) /\ SameBut({"todo", "wrote"}, exec[e], exec'[e])
         /\ exec'[e].pc = exec[e].pc /\ exec'[e].todo = todo /\ exec'[e].wrote = wrote
<1>0. exec = [f \in Execs |-> exec[f]] /\ IsExec(exec[e]) /\ IsRecord(exec[e].rec)
  BY DEF ShapeInv
<1>1. Only(e) /\ exec'[e] = [exec[e] EXCEPT !.todo = todo, !.wrote = wrote]
  BY <1>0 DEF Only, MarksItem
<1>2. /\ IsExec(exec'[e]) /\ SameBut({"todo", "wrote"}, exec[e], exec'[e])
      /\ exec'[e].pc = exec[e].pc /\ exec'[e].todo = todo /\ exec'[e].wrote = wrote
      /\ exec'[e].rec = exec[e].rec
  BY <1>0, <1>1 DEF IsExec, SameBut
<1> QED
  BY <1>0, <1>1, <1>2 DEF Shaped

DropsItem(e, todo) == exec' = [exec EXCEPT ![e].todo = todo]

LEMMA ItemRefused ==
  ASSUME ShapeInv, NEW e \in Execs, NEW todo, DropsItem(e, todo)
  PROVE  /\ Only(e) /\ Shaped(exec'[e]) /\ SameBut({"todo"}, exec[e], exec'[e])
         /\ exec'[e].pc = exec[e].pc /\ exec'[e].todo = todo
<1>0. exec = [f \in Execs |-> exec[f]] /\ IsExec(exec[e]) /\ IsRecord(exec[e].rec)
  BY DEF ShapeInv
<1>1. Only(e) /\ exec'[e] = [exec[e] EXCEPT !.todo = todo]
  BY <1>0 DEF Only, DropsItem
<1>2. /\ IsExec(exec'[e]) /\ SameBut({"todo"}, exec[e], exec'[e])
      /\ exec'[e].pc = exec[e].pc /\ exec'[e].todo = todo /\ exec'[e].rec = exec[e].rec
  BY <1>0, <1>1 DEF IsExec, SameBut
<1> QED
  BY <1>0, <1>1, <1>2 DEF Shaped

\* A round that goes on: a review accepts, a finalization audits or compiles.
Continues(e, pc, rec, todo) ==
  exec' = [exec EXCEPT ![e].pc = pc, ![e].rec = rec,
                       ![e].stage = "generators", ![e].todo = todo]

LEMMA GoesOn ==
  ASSUME ShapeInv, NEW e \in Execs, NEW pc, NEW todo, NEW rec, IsRecord(rec),
         Continues(e, pc, rec, todo)
  PROVE  /\ Only(e) /\ Shaped(exec'[e]) /\ SameBut({"rec", "stage", "todo"}, exec[e], exec'[e])
         /\ exec'[e].pc = pc /\ exec'[e].todo = todo /\ exec'[e].stage = "generators"
         /\ exec'[e].rec = rec
<1>0. exec = [f \in Execs |-> exec[f]] /\ IsExec(exec[e])
  BY DEF ShapeInv
<1>1. Only(e) /\ exec'[e] = [exec[e] EXCEPT !.pc = pc, !.rec = rec, !.stage = "generators",
                                            !.todo = todo]
  BY <1>0 DEF Only, Continues
<1>2. /\ IsExec(exec'[e]) /\ SameBut({"rec", "stage", "todo"}, exec[e], exec'[e])
      /\ exec'[e].pc = pc /\ exec'[e].rec = rec /\ exec'[e].stage = "generators"
      /\ exec'[e].todo = todo
  BY <1>0, <1>1 DEF IsExec, SameBut
<1> QED
  BY <1>1, <1>2 DEF Shaped

-----------------------------------------------------------------------------
(***************************************************************************)
(* What was so of a ledger is so when events are added.                    *)
(***************************************************************************)
Grows(l, m) == DOMAIN l \subseteq DOMAIN m /\ \A i \in DOMAIN l : m[i] = l[i]

LEMMA ExtendsGrows ==
  ASSUME NEW l, NEW e, NEW m, Extends(l, e, m)
  PROVE  Grows(l, m)
BY DEF Extends, Grows

LEMMA WrittenGrows ==
  ASSUME NEW l, NEW m, Grows(l, m)
  PROVE  /\ \A g : Written(l, g) \subseteq Written(m, g)
         /\ FinalProposals(l) \subseteq FinalProposals(m)
BY DEF Grows, Written, FinalProposals, OfType

LEMMA FinalGrows ==
  ASSUME NEW l, NEW m, Grows(l, m), NEW source, NEW f, IsFinal(l, source, f)
  PROVE  IsFinal(m, source, f)
BY WrittenGrows DEF IsFinal

LEMMA WorkGrows ==
  ASSUME NEW l, NEW m, Grows(l, m), NEW source, NEW ev, IsWork(l, source, ev)
  PROVE  IsWork(m, source, ev)
<1>1. ASSUME IsAudit(l, source, ev) PROVE IsAudit(m, source, ev)
  BY <1>1, FinalGrows DEF IsAudit
<1> QED
  BY <1>1 DEF IsWork, IsDraft

LEMMA SourceGrows ==
  ASSUME NEW l, NEW m, Grows(l, m), NEW source, SourceOK(l, source)
  PROVE  SourceOK(m, source)
BY WrittenGrows DEF SourceOK

LEMMA RecordGrows ==
  ASSUME NEW l, NEW m, Grows(l, m), NEW source, NEW r, RecordOK(l, source, r)
  PROVE  RecordOK(m, source, r)
<1>1. \A g : Written(l, g) \subseteq Written(m, g)
  BY WrittenGrows
<1>2. r.events \subseteq UNION {Written(m, g) : g \in Generators}
  <2>1. r.events \subseteq UNION {Written(l, g) : g \in Generators}
    BY DEF RecordOK
  <2> QED
    BY <1>1, <2>1
<1>3. r.state[Author] = "done" =>
        kind = "finalization" /\ \E f \in FinalProposals(m) : IsFinal(m, source, f) /\ r.ids[Author] = {f}
  <2> SUFFICES ASSUME r.state[Author] = "done"
               PROVE  kind = "finalization"
                      /\ \E f \in FinalProposals(m) : IsFinal(m, source, f) /\ r.ids[Author] = {f}
    OBVIOUS
  <2>1. PICK f \in FinalProposals(l) : IsFinal(l, source, f) /\ r.ids[Author] = {f}
    BY DEF RecordOK
  <2>2. f \in FinalProposals(m) /\ IsFinal(m, source, f)
    BY <2>1, FinalGrows, WrittenGrows
  <2> QED
    BY <2>1, <2>2 DEF RecordOK
<1>4. /\ r.accepted \subseteq Written(m, Author)
      /\ \A g \in Generators : r.ids[g] \subseteq r.events \cap Written(m, g)
  BY <1>1 DEF RecordOK
<1> QED
  BY <1>2, <1>3, <1>4 DEF RecordOK

LEMMA MemoryGrows ==
  ASSUME NEW l, NEW m, Grows(l, m), NEW x, NEW source, MemoryOK(x, l, source)
  PROVE  MemoryOK(x, m, source)
<1>1. RecordOK(m, source, x.rec)
  BY RecordGrows DEF MemoryOK
<1>2. x.pc = "writing" => WritingOK(x, m)
  BY WrittenGrows DEF MemoryOK, WritingOK
<1>3. x.pc = "accepting" => AcceptingOK(x, m)
  BY WrittenGrows DEF MemoryOK, AcceptingOK
<1> QED
  BY <1>1, <1>2, <1>3 DEF MemoryOK

\* The kind of a round does not change, so these formulae read the same later.
LEMMA KindStays ==
  ASSUME UNCHANGED scenario
  PROVE  /\ kind' = kind
         /\ \A g, x : ItemKey(g, x)' = ItemKey(g, x)
BY DEF kind, ItemKey

LEMMA FinalLater ==
  ASSUME NEW f
  PROVE  IsFinal(ledger, round.source, f)' <=> IsFinal(ledger', round'.source, f)
BY DEF IsFinal, FinalProposals, OfType, Written

LEMMA RecordLater ==
  ASSUME UNCHANGED scenario
  PROVE  /\ RecordOK(ledger, round.source, round)' <=> RecordOK(ledger', round'.source, round')
         /\ \A e : RecordOK(ledger, round.source, exec[e].rec)'
                     <=> RecordOK(ledger', round'.source, exec'[e].rec)
BY KindStays DEF RecordOK, IsFinal, FinalProposals, OfType, Written, NoRecord

LEMMA WorkLater ==
  ASSUME UNCHANGED scenario, NEW i
  PROVE  IsWork(ledger, round.source, ledger[i])' <=> IsWork(ledger', round'.source, ledger'[i])
BY KindStays
DEF IsWork, IsDraft, IsReview, IsResponse, IsResult, IsCandidate, IsAudit, ItemKey, IsFinal,
    FinalProposals, OfType, Written

LEMMA SourceLater ==
  ASSUME UNCHANGED scenario
  PROVE  SourceOK(ledger, round.source)' <=> SourceOK(ledger', round'.source)
BY KindStays DEF SourceOK, FinalProposals, OfType

LEMMA MemoryLater ==
  ASSUME UNCHANGED scenario, NEW e
  PROVE  MemoryOK(exec[e], ledger, round.source)' <=> MemoryOK(exec'[e], ledger', round'.source)
BY KindStays, RecordLater DEF MemoryOK, WritingOK, AcceptingOK, Items, StageOf, Written

-----------------------------------------------------------------------------
(***************************************************************************)
(* One step of one execution.                                              *)
(***************************************************************************)
OwnersPc == {"claimed", "writing", "accepting", "auditing", "compiling"}

LEMMA ShapeStep ==
  ASSUME ShapeInv, NEW e \in Execs, Only(e), Shaped(exec'[e]), IsRecord(round'), UNCHANGED scenario
  PROVE  ShapeInv'
<1>1. \A f \in Execs : IsExec(exec'[f]) /\ IsRecord(exec'[f].rec)
  BY DEF ShapeInv, Only, Shaped
<1>2. IsRecord(round)' /\ \A f \in Execs : IsExec(exec[f])' /\ IsRecord(exec[f].rec)'
  BY <1>1 DEF IsRecord, IsExec
<1> QED
  BY <1>2 DEF ShapeInv, Only

\* In e's turn, and between turns, no other execution is inside one.
LEMMA OthersOutside ==
  ASSUME TurnInv, NEW e \in Execs, Quiet \/ Inside(e)
  PROVE  \A f \in Execs \ {e} : ~Inside(f)
BY DEF TurnInv, Quiet, Inside

LEMMA TurnStep ==
  ASSUME TurnInv, NEW e \in Execs, Quiet \/ Inside(e), Only(e),
         exec'[e].pc \in OwnersPc => round'.claim = e
  PROVE  TurnInv'
<1>1. \A f \in Execs \ {e} : exec'[f].pc \in {"idle", "waiting", "leaving"}
  BY OthersOutside DEF Only, Inside
<1> QED
  BY <1>1 DEF TurnInv, Inside, Owns, OwnersPc

\* The round goes on with its material, or takes up one.
SourceStays ==
  /\ round.status # "none" => round'.status # "none" /\ round'.source = round.source
  /\ round'.status # "none" => SourceOK(ledger', round'.source)

\* The proposals that drafts of a repair name, on a frontier.
RepairedFrom(frontier, names) ==
  {d.from : d \in {c \in frontier :
     /\ c.object.name \in names
     /\ \A other \in frontier : other.object.name = c.object.name => c.from <= other.from}}

RepairDrafts(l, frontier, source) ==
  \A i \in DOMAIN l : l[i].key # NoKey => l[i].basedOn = RepairedFrom(frontier, source)

LEMMA RepairsRead ==
  RepairsAsToday <=>
    (kind = "repair" /\ OfType(ledger, "proposal_accepted") \subseteq DOMAIN scenario.ledger =>
       RepairDrafts(ledger, Frontier(ledger), round.source))
BY DEF RepairsAsToday, RepairDrafts, DraftSources, RepairedFrom

LEMMA RepairsReadLater ==
  ASSUME UNCHANGED scenario
  PROVE  RepairsAsToday' <=>
    (kind = "repair" /\ OfType(ledger', "proposal_accepted") \subseteq DOMAIN scenario.ledger =>
       RepairDrafts(ledger', Frontier(ledger'), round'.source))
<1>1. DraftSources(round.source)' = IF kind = "extraction" THEN round'.source
                                    ELSE RepairedFrom(Frontier(ledger'), round'.source)
  BY KindStays DEF DraftSources, RepairedFrom
<1> QED
  BY <1>1, KindStays DEF RepairsAsToday, RepairDrafts, OfType

LEMMA RepairsLater ==
  ASSUME UNCHANGED <<scenario, ledger>>, round'.source = round.source, RepairsAsToday
  PROVE  RepairsAsToday'
BY RepairsRead, RepairsReadLater

LEMMA WorkSame ==
  ASSUME WorkInv, UNCHANGED <<scenario, ledger>>, SourceStays
  PROVE  WorkInv'
<1>1. /\ IsLog(ledger)' /\ OneEventPerKey(ledger)'
      /\ IsLog(scenario.ledger)' /\ (DOMAIN scenario.ledger \subseteq DOMAIN ledger)'
      /\ (\A i \in OfType(ledger, "extraction_proposed") : ledger[i].objects \in Drafts)'
  BY DEF WorkInv, IsLog, OneEventPerKey, OfType
<1>2. ASSUME NEW i \in DOMAIN ledger, ledger[i].key # NoKey
      PROVE  /\ round.status # "none" /\ round'.status # "none"
             /\ IsWork(ledger, round.source, ledger[i])'
  <2>1. round.status # "none" /\ IsWork(ledger, round.source, ledger[i])
    BY <1>2 DEF WorkInv
  <2>2. round'.status # "none" /\ round'.source = round.source
    BY <2>1 DEF SourceStays
  <2>3. IsWork(ledger', round'.source, ledger'[i])
    BY <2>1, <2>2
  <2> QED
    BY <2>1, <2>2, <2>3, WorkLater
<1>3. (round.status # "none" => SourceOK(ledger, round.source))'
  BY SourceLater DEF SourceStays
<1>4. RepairsAsToday'
  <2>1. CASE round.status # "none"
    BY <2>1, RepairsLater DEF WorkInv, SourceStays
  <2>2. CASE round.status = "none"
    <3>1. \A i \in DOMAIN ledger : ledger[i].key = NoKey
      BY <2>2 DEF WorkInv
    <3> QED
      BY <3>1 DEF RepairsAsToday
  <2> QED
    BY <2>1, <2>2
<1> QED
  BY <1>1, <1>2, <1>3, <1>4 DEF WorkInv

LEMMA MemoryStep ==
  ASSUME MemoryInv, NEW e \in Execs, Only(e), Grows(ledger, ledger'), UNCHANGED scenario, SourceStays,
         Active(exec'[e]) =>
           round'.status # "none" /\ MemoryOK(exec'[e], ledger', round'.source)
  PROVE  MemoryInv'
<1> SUFFICES ASSUME NEW f \in Execs, Active(exec'[f])
             PROVE  round'.status # "none" /\ MemoryOK(exec'[f], ledger', round'.source)
  BY MemoryLater DEF MemoryInv, Active
<1>1. CASE f = e
  BY <1>1
<1>2. CASE f # e
  <2>1. exec'[f] = exec[f]
    BY <1>2 DEF Only
  <2>2. round.status # "none" /\ MemoryOK(exec[f], ledger, round.source)
    BY <2>1 DEF MemoryInv
  <2>3. round'.status # "none" /\ round'.source = round.source
    BY <2>2 DEF SourceStays
  <2> QED
    BY <2>1, <2>2, <2>3, MemoryGrows
<1> QED
  BY <1>1, <1>2

AcceptOK(x, r, l) ==
  /\ \A g \in x.requested : r.state[g] = "done"
  /\ x.policy = "unchallenged" => \A target \in x.todo : Challenges(l, target) = {}

LEMMA AcceptStep ==
  ASSUME TurnInv, NEW e \in Execs, Only(e), Quiet \/ Inside(e),
         exec'[e].pc = "accepting" => AcceptOK(exec'[e], round', ledger')
  PROVE  AcceptInv'
<1>1. \A f \in Execs \ {e} : exec'[f].pc # "accepting"
  BY OthersOutside DEF Only, Inside
<1>2. ASSUME NEW f \in Execs, exec'[f].pc = "accepting"
      PROVE  AcceptOK(exec'[f], round', ledger')
  BY <1>1, <1>2
<1> QED
  BY <1>2 DEF AcceptInv, AcceptOK, Challenges, Lifecycle, OfType

\* The parts of a step put together.
LEMMA ExecStep ==
  ASSUME RoundInv, NEW e \in Execs, Only(e), Shaped(exec'[e]), IsRecord(round'),
         UNCHANGED scenario, Quiet \/ Inside(e), Grows(ledger, ledger'), SourceStays,
         exec'[e].pc \in OwnersPc => round'.claim = e,
         WorkInv', RecordOK(ledger', round'.source, round'),
         Active(exec'[e]) =>
           round'.status # "none" /\ MemoryOK(exec'[e], ledger', round'.source),
         exec'[e].pc = "accepting" => AcceptOK(exec'[e], round', ledger')
  PROVE  RoundInv'
<1>1. ShapeInv'
  BY ShapeStep DEF RoundInv
<1>2. TurnInv'
  BY TurnStep DEF RoundInv
<1>3. MemoryInv'
  BY MemoryStep DEF RoundInv
<1>4. AcceptInv'
  BY AcceptStep DEF RoundInv
<1>5. RecordInv'
  BY RecordLater DEF RecordInv
<1> QED
  BY <1>1, <1>2, <1>3, <1>4, <1>5 DEF RoundInv

LEMMA SameGrows == \A l : Grows(l, l)
BY DEF Grows

\* What a running execution knows.
LEMMA ActiveFacts ==
  ASSUME RoundInv, NEW e \in Execs, Active(exec[e])
  PROVE  /\ round.status # "none" /\ MemoryOK(exec[e], ledger, round.source)
         /\ IsExec(exec[e]) /\ IsRecord(exec[e].rec) /\ IsRecord(round)
         /\ SourceOK(ledger, round.source)
BY DEF RoundInv, MemoryInv, ShapeInv, WorkInv

-----------------------------------------------------------------------------
(***************************************************************************)
(* The claim.                                                              *)
(***************************************************************************)
LEMMA ScenarioFacts ==
  ASSUME ShapeInv
  PROVE  kind \in RoundKinds /\ scenario.requests \subseteq SUBSET Generators
         /\ Author \notin Generators /\ Members = Generators \cup {Author}
BY ScenariosAssumption, MembersAssumption DEF ShapeInv, kind, Members

LEMMA RequestFacts ==
  ASSUME ShapeInv, NEW requested \in Requests
  PROVE  /\ requested \subseteq Members
         /\ IF kind = "finalization" THEN Author \in requested ELSE requested \subseteq Generators
BY ScenarioFacts DEF Requests

LEMMA NamesKnown ==
  ASSUME NEW l, \A i \in OfType(l, "extraction_proposed") : l[i].objects \in Drafts
  PROVE  /\ Names(Frontier(l)) \subseteq CandidateNames
         /\ Names(AcceptedObjects(l, "need")) \subseteq NeedNames
<1>1. ASSUME NEW sort, NEW d \in AcceptedObjects(l, sort)
      PROVE  d.object \in UNION Drafts /\ d.object.kind = sort
  BY AcceptedObject
<1>2. \A d \in Frontier(l) : d.object.name \in CandidateNames
  BY <1>1, FrontierObject DEF CandidateNames
<1>3. \A d \in AcceptedObjects(l, "need") : d.object.name \in NeedNames
  BY <1>1 DEF NeedNames
<1> QED
  BY <1>2, <1>3 DEF Names

LEMMA SourcesOK ==
  ASSUME ShapeInv, WorkInv, NEW source \in Sources(ledger)
  PROVE  SourceOK(ledger, source)
<1>1. kind \in {"extraction", "review", "repair", "evidence", "finalization"}
  BY ScenarioFacts DEF RoundKinds
<1>2. DOMAIN ledger \subseteq Nat /\ 0 \notin DOMAIN ledger
  BY DEF WorkInv, IsLog
<1>3. /\ Names(Frontier(ledger)) \subseteq CandidateNames
      /\ Names(AcceptedObjects(ledger, "need")) \subseteq NeedNames
  BY NamesKnown DEF WorkInv
<1>4. CASE kind \in {"extraction", "review"}
  BY <1>2, <1>4 DEF Sources, SourceOK, OfType
<1>5. CASE kind = "repair"
  BY <1>3, <1>5 DEF Sources, SourceOK, RepairSources
<1>6. CASE kind = "evidence"
  BY <1>3, <1>6 DEF Sources, SourceOK, EvidenceSources
<1>7. CASE kind = "finalization"
  BY <1>2, <1>7 DEF Sources, SourceOK, Drafted, FinalProposals, OfType
<1> QED
  BY <1>1, <1>4, <1>5, <1>6, <1>7

LEMMA RecordOKClaimed ==
  ASSUME ShapeInv, NEW l, NEW r, NEW s, NEW source, NEW requested \in Requests,
         RecordOK(l, r.source, r), r.status = "none" \/ r.source = source, SourceOK(l, source),
         ClaimedFrom(r, source, requested, s)
  PROVE  RecordOK(l, source, s)
<1>0. /\ Author \notin Generators /\ Members = Generators \cup {Author}
      /\ requested \subseteq Members
      /\ IF kind = "finalization" THEN Author \in requested ELSE requested \subseteq Generators
  BY ScenarioFacts, RequestFacts
<1>1. /\ s.events = r.events /\ s.accepted = r.accepted /\ s.source = source
      /\ s.status = "running"
  BY DEF ClaimedFrom
<1>2. ASSUME NEW g \in Generators
      PROVE  /\ s.ids[g] \subseteq s.events \cap Written(l, g)
             /\ s.state[g] = "done" /\ kind \notin {"review", "evidence"} => s.ids[g] # {}
  <2>1. /\ s.ids[g] = IF g \notin requested THEN {} ELSE r.ids[g]
        /\ s.state[g] = "done" => g \in requested /\ r.state[g] = "done"
    BY <1>0 DEF ClaimedFrom
  <2> QED
    BY <1>1, <2>1 DEF RecordOK
<1>3. /\ s.state[Author] = IF Author \notin requested THEN "absent"
                           ELSE IF r.state[Author] # "absent" THEN r.state[Author]
                           ELSE IF source # Drafted THEN "done" ELSE "pending"
      /\ s.ids[Author] = IF Author \notin requested THEN {}
                         ELSE IF source # Drafted THEN {source} ELSE r.ids[Author]
  BY <1>0 DEF ClaimedFrom
<1>4. ASSUME s.state[Author] = "done"
      PROVE  kind = "finalization"
             /\ \E f \in FinalProposals(l) : IsFinal(l, source, f) /\ s.ids[Author] = {f}
  <2>1. Author \in requested /\ kind = "finalization"
    BY <1>0, <1>3, <1>4
  <2>2. CASE r.state[Author] = "done"
    <3>1. PICK f \in FinalProposals(l) : IsFinal(l, r.source, f) /\ r.ids[Author] = {f}
      BY <2>2 DEF RecordOK
    <3>2. r.source = source
      BY <2>2 DEF RecordOK, NoRecord, Members
    <3> QED
      BY <1>3, <2>1, <3>1, <3>2 DEF IsFinal
  <2>3. CASE r.state[Author] # "done"
    <3>1. source # Drafted /\ s.ids[Author] = {source} /\ source \in FinalProposals(l)
      BY <1>3, <1>4, <2>1, <2>3 DEF SourceOK
    <3> QED
      BY <2>1, <3>1 DEF IsFinal
  <2> QED
    BY <2>2, <2>3
<1>5. kind = "finalization" /\ s.events # {} => s.state[Author] = "done"
  BY <1>0, <1>1, <1>3 DEF RecordOK
<1>6. kind = "finalization" /\ source # Drafted => s.state[Author] = "done"
  <2> SUFFICES ASSUME kind = "finalization", source # Drafted PROVE s.state[Author] = "done"
    OBVIOUS
  <2>1. CASE r.status = "none"
    <3>1. r = NoRecord
      BY <2>1 DEF RecordOK
    <3>2. r.state[Author] = "absent"
      BY <1>0, <3>1 DEF NoRecord
    <3> QED
      BY <1>0, <1>3, <3>2
  <2>2. CASE r.status # "none"
    BY <1>0, <1>3, <2>2 DEF RecordOK
  <2> QED
    BY <2>1, <2>2
<1> QED
  BY <1>1, <1>2, <1>4, <1>5, <1>6 DEF RecordOK

LEMMA ClaimStep ==
  ASSUME RoundInv, NEW e \in Execs, NEW source \in Sources(ledger), NEW requested \in Requests,
         NEW retry, NEW policy \in AcceptancePolicies, UNCHANGED scenario,
         Claim(e, source, requested, retry, policy)
  PROVE  RoundInv'
<1>0. ShapeInv /\ WorkInv /\ RecordInv /\ UNCHANGED ledger /\ Quiet
  BY DEF RoundInv, Claim
<1>1. /\ Only(e) /\ Shaped(exec'[e]) /\ IsRecord(round')
      /\ round'.claim = e /\ ClaimedFrom(round, source, requested, round')
      /\ exec'[e].pc = "claimed" /\ exec'[e].requested = requested /\ exec'[e].policy = policy
      /\ exec'[e].stage = IF kind = "finalization" THEN "candidate" ELSE "generators"
      /\ exec'[e].rec = round' /\ exec'[e].asked = {} /\ exec'[e].wrote = {}
  BY <1>0, ClaimEffect
<1>2. SourceOK(ledger, source) /\ (round.status = "none" \/ round.source = source)
  BY <1>0, SourcesOK DEF Claim, CanClaim
<1>3. RecordOK(ledger, source, round')
  BY <1>0, <1>1, <1>2, RecordOKClaimed DEF RecordInv
<1>4. round'.source = source /\ round'.status = "running"
  BY <1>1 DEF ClaimedFrom
<1>5. SourceStays
  BY <1>0, <1>2, <1>4 DEF SourceStays
<1>6. MemoryOK(exec'[e], ledger, source)
  <2>1. policy \in {"none", "all", "unchallenged"}
    BY DEF AcceptancePolicies
  <2>2. /\ requested \subseteq Members
        /\ IF kind = "finalization" THEN Author \in requested ELSE requested \subseteq Generators
    BY <1>0, RequestFacts
  <2> QED
    BY <1>1, <1>3, <1>4, <2>1, <2>2 DEF MemoryOK, StageOf
<1>7. WorkInv'
  BY <1>0, <1>5, WorkSame
<1>8. Grows(ledger, ledger')
  BY <1>0, SameGrows
<1> QED
  BY <1>0, <1>1, <1>3, <1>4, <1>5, <1>6, <1>7, <1>8, ExecStep

-----------------------------------------------------------------------------
(***************************************************************************)
(* The steps that leave the ledger as it is.                               *)
(***************************************************************************)
\* What a record says does not depend on its status once it has one.
LEMMA RecordSame ==
  ASSUME NEW l, NEW source, NEW r, NEW s, RecordOK(l, source, r), r.status # "none",
         s.status # "none", s.state = r.state, s.ids = r.ids, s.events = r.events,
         s.accepted \subseteq Written(l, Author)
  PROVE  RecordOK(l, source, s)
BY DEF RecordOK

LEMMA SameLedgerStep ==
  ASSUME RoundInv, NEW e \in Execs, Only(e), Shaped(exec'[e]), IsRecord(round'),
         UNCHANGED <<scenario, ledger>>, Quiet \/ Inside(e), round.status # "none",
         round'.status # "none", round'.source = round.source,
         exec'[e].pc \in OwnersPc => round'.claim = e,
         RecordOK(ledger, round.source, round'),
         Active(exec'[e]) => MemoryOK(exec'[e], ledger, round.source),
         exec'[e].pc = "accepting" => AcceptOK(exec'[e], round', ledger)
  PROVE  RoundInv'
<1>1. WorkInv /\ SourceOK(ledger, round.source)
  BY DEF RoundInv, WorkInv
<1>2. SourceStays
  BY <1>1 DEF SourceStays
<1>3. WorkInv'
  BY <1>1, <1>2, WorkSame
<1>4. Grows(ledger, ledger')
  BY SameGrows
<1> QED
  BY <1>2, <1>3, <1>4, ExecStep

LEMMA LeaveStep ==
  ASSUME RoundInv, NEW e \in Execs, Leave(e), Inside(e), UNCHANGED <<scenario, ledger>>,
         NEW rec, IsRecord(rec), Record(e, rec), rec.status # "none", rec.source = round.source,
         RecordOK(ledger, round.source, rec)
  PROVE  RoundInv'
<1>1. Active(exec[e])
  BY DEF Active, Inside
<1>2. Only(e) /\ Shaped(exec'[e]) /\ exec'[e].pc = "leaving"
  BY LeaveEffect DEF RoundInv
<1>3. /\ IsRecord(round') /\ round'.status = rec.status /\ round'.source = rec.source
      /\ round'.state = rec.state /\ round'.ids = rec.ids /\ round'.events = rec.events
      /\ round'.accepted = rec.accepted
  BY RecordEffect
<1>4. RecordOK(ledger, round.source, round')
  <2>1. rec.accepted \subseteq Written(ledger, Author)
    BY DEF RecordOK
  <2> QED
    BY <1>3, <2>1, RecordSame
<1>5. round.status # "none"
  BY <1>1, ActiveFacts
<1> QED
  BY <1>2, <1>3, <1>4, <1>5, SameLedgerStep DEF Active, OwnersPc

\* The execution ends without touching the record.
LEMMA MergeUnownedStep ==
  ASSUME RoundInv, NEW e \in Execs, MergeUnowned(e), UNCHANGED scenario
  PROVE  RoundInv'
<1>0. Inside(e) /\ Active(exec[e]) /\ Leave(e) /\ UNCHANGED <<ledger, round>>
  BY DEF MergeUnowned, Inside, Active
<1>1. Only(e) /\ Shaped(exec'[e]) /\ exec'[e].pc = "leaving"
  BY <1>0, LeaveEffect DEF RoundInv
<1>2. round.status # "none" /\ IsRecord(round)
  BY <1>0, ActiveFacts
<1>3. RecordOK(ledger, round.source, round')
  BY <1>0 DEF RoundInv, RecordInv
<1> QED
  BY <1>0, <1>1, <1>2, <1>3, SameLedgerStep DEF Active, OwnersPc

\* The statuses an execution gives its round when it leaves.
LEMMA LeaveWithStatus ==
  ASSUME RoundInv, NEW e \in Execs, Inside(e), UNCHANGED <<scenario, ledger>>,
         NEW status, status # "none", RecordAndLeave(e, [exec[e].rec EXCEPT !.status = status])
  PROVE  RoundInv'
<1>1. /\ MemoryOK(exec[e], ledger, round.source) /\ IsRecord(exec[e].rec)
      /\ RecordOK(ledger, round.source, exec[e].rec)
      /\ exec[e].rec.source = round.source /\ exec[e].rec.status # "none"
  BY ActiveFacts DEF Active, Inside, MemoryOK
<1>2. PICK rec : rec = [exec[e].rec EXCEPT !.status = status]
  OBVIOUS
<1>3. /\ IsRecord(rec) /\ rec.status = status /\ rec.source = exec[e].rec.source
      /\ rec.state = exec[e].rec.state /\ rec.ids = exec[e].rec.ids
      /\ rec.events = exec[e].rec.events /\ rec.accepted = exec[e].rec.accepted
  BY <1>1, <1>2, RecordStatus
<1>4. RecordOK(ledger, round.source, rec)
  <2>1. rec.accepted \subseteq Written(ledger, Author)
    BY <1>1, <1>3 DEF RecordOK
  <2> QED
    BY <1>1, <1>3, <2>1, RecordSame
<1>5. Leave(e) /\ Record(e, rec)
  BY <1>2 DEF RecordAndLeave
<1> QED
  BY <1>1, <1>3, <1>4, <1>5, LeaveStep

LEMMA ContextFailsStep ==
  ASSUME RoundInv, NEW e \in Execs, ContextFails(e), UNCHANGED scenario
  PROVE  RoundInv'
BY LeaveWithStatus DEF ContextFails, Inside

LEMMA CompileStep ==
  ASSUME RoundInv, NEW e \in Execs, NEW status \in {"completed", "failed"}, Compile(e, status),
         UNCHANGED scenario
  PROVE  RoundInv'
BY LeaveWithStatus DEF Compile, Inside

LEMMA CompleteStep ==
  ASSUME RoundInv, NEW e \in Execs, Complete(e), UNCHANGED scenario
  PROVE  RoundInv'
<1>0. Inside(e) /\ Active(exec[e]) /\ exec[e].pc = "accepting" /\ UNCHANGED ledger
  BY DEF Complete, Inside, Active
<1>1. /\ MemoryOK(exec[e], ledger, round.source) /\ IsRecord(exec[e].rec)
      /\ RecordOK(ledger, round.source, exec[e].rec)
      /\ exec[e].rec.source = round.source /\ exec[e].rec.status # "none"
      /\ exec[e].wrote \subseteq Written(ledger, Author)
  BY <1>0, ActiveFacts DEF MemoryOK, AcceptingOK
<1>2. PICK rec : rec = [exec[e].rec EXCEPT !.status = "completed", !.accepted = @ \cup exec[e].wrote]
  OBVIOUS
<1>3. /\ IsRecord(rec) /\ rec.status = "completed" /\ rec.source = exec[e].rec.source
      /\ rec.state = exec[e].rec.state /\ rec.ids = exec[e].rec.ids
      /\ rec.events = exec[e].rec.events /\ rec.accepted = exec[e].rec.accepted \cup exec[e].wrote
  BY <1>1, <1>2 DEF IsRecord
<1>4. RecordOK(ledger, round.source, rec)
  <2>1. rec.accepted \subseteq Written(ledger, Author)
    BY <1>1, <1>3 DEF RecordOK
  <2> QED
    BY <1>1, <1>3, <2>1, RecordSame
<1>5. Leave(e) /\ Record(e, rec)
  BY <1>2 DEF Complete, RecordAndLeave
<1> QED
  BY <1>0, <1>1, <1>3, <1>4, <1>5, LeaveStep

\* Those that are asked are not done, so what is recorded of the others holds on.
LEMMA AskStep ==
  ASSUME RoundInv, NEW e \in Execs, Ask(e), UNCHANGED scenario
  PROVE  RoundInv'
<1>0. /\ Inside(e) /\ Active(exec[e]) /\ exec[e].pc \in {"claimed", "auditing"}
      /\ UNCHANGED ledger /\ ShapeInv
  BY DEF Ask, Inside, Active, RoundInv
<1> DEFINE x == exec[e]
           y == exec'[e]
<1>1. /\ round.status # "none" /\ MemoryOK(x, ledger, round.source) /\ IsRecord(x.rec)
  BY <1>0, ActiveFacts
<1>2. /\ Only(e) /\ Shaped(y) /\ SameBut({"rec", "asked"}, x, y)
      /\ y.asked = ToExecute(e, StageMembers(e))
      /\ y.pc = IF y.asked = {} THEN "merging" ELSE "waiting"
      /\ AskedFrom(x.rec, y.asked, y.rec)
      /\ Record(e, y.rec)
  BY <1>0, AskEffect
<1>3. /\ y.asked \subseteq StageOf(x) /\ y.asked \subseteq Members
      /\ \A g \in y.asked : x.rec.state[g] # "done"
  BY <1>2, ScenarioFacts DEF ToExecute, StageMembers, StageOf, Members
<1>4. Author \notin Generators /\ Members = Generators \cup {Author}
  BY <1>0, ScenarioFacts
<1>5. /\ y.rec.status = "running" /\ y.rec.source = round.source
      /\ y.rec.ids = x.rec.ids /\ y.rec.events = x.rec.events /\ y.rec.accepted = x.rec.accepted
      /\ \A g \in Members : y.rec.state[g] = IF g \in y.asked THEN "running" ELSE x.rec.state[g]
  BY <1>1, <1>2 DEF AskedFrom, MemoryOK
<1>6. RecordOK(ledger, round.source, x.rec) /\ x.rec.status # "none"
  BY <1>1 DEF MemoryOK
<1>7. RecordOK(ledger, round.source, y.rec)
  <2>1. ASSUME NEW g \in Members, y.rec.state[g] = "done"
        PROVE  x.rec.state[g] = "done"
    BY <1>5, <2>1
  <2>2. x.rec.state[Author] = "done" => y.rec.state[Author] = "done"
    BY <1>3, <1>4, <1>5
  <2> HIDE DEF x, y
  <2> QED
    BY <1>4, <1>5, <1>6, <2>1, <2>2 DEF RecordOK
<1>8. MemoryOK(y, ledger, round.source)
  <2>1. y.stage = x.stage /\ y.requested = x.requested /\ y.policy = x.policy /\ y.wrote = x.wrote
    BY <1>2 DEF SameBut
  <2>2. x.wrote = {}
    BY <1>0, <1>1 DEF MemoryOK
  <2>3. \A g \in y.asked : y.rec.state[g] = "running"
    BY <1>3, <1>5
  <2>4. y.pc \in {"merging", "waiting"} /\ (y.pc = "merging" => y.asked = {})
    BY <1>2
  <2>5. kind = "finalization" /\ y.stage = "generators" => y.rec.state[Author] = "done"
    BY <1>1, <1>3, <1>4, <1>5, <2>1 DEF MemoryOK
  <2>6. y.asked \subseteq StageOf(y)
    BY <1>3, <2>1 DEF StageOf
  <2> HIDE DEF x, y
  <2> QED
    BY <1>1, <1>5, <1>7, <2>1, <2>2, <2>3, <2>4, <2>5, <2>6 DEF MemoryOK
<1>9. /\ IsRecord(round') /\ round'.status = "running" /\ round'.source = round.source
      /\ RecordOK(ledger, round.source, round')
  <2>1. /\ IsRecord(round') /\ round'.status = y.rec.status /\ round'.source = y.rec.source
        /\ round'.state = y.rec.state /\ round'.ids = y.rec.ids /\ round'.events = y.rec.events
        /\ round'.accepted = y.rec.accepted
    BY <1>2, RecordEffect DEF Shaped
  <2>2. y.rec.accepted \subseteq Written(ledger, Author)
    BY <1>7 DEF RecordOK
  <2> HIDE DEF x, y
  <2> QED
    BY <1>5, <1>7, <2>1, <2>2, RecordSame
<1>10. y.pc \notin OwnersPc /\ y.pc # "accepting"
  BY <1>2 DEF OwnersPc
<1> QED
  BY <1>0, <1>1, <1>2, <1>8, <1>9, <1>10, SameLedgerStep

-----------------------------------------------------------------------------
(***************************************************************************)
(* The end of a turn.                                                      *)
(***************************************************************************)
\* What an answer has to bring.
AnswerOK(l, source, g, state, ids) ==
  /\ state \in {"done", "failed"} /\ ids \subseteq Written(l, g)
  /\ state = "done" =>
       IF g = Author THEN \E f \in FinalProposals(l) : IsFinal(l, source, f) /\ ids = {f}
       ELSE kind \notin {"review", "evidence"} => ids # {}

\* Who is asked, and what the record then says of the final candidate.
LEMMA AskedFacts ==
  ASSUME ShapeInv, NEW x, NEW l, NEW source, MemoryOK(x, l, source), NEW g \in x.asked
  PROVE  /\ g \in Members /\ x.rec.state[g] = "running"
         /\ IF g = Author THEN kind = "finalization" /\ x.asked \subseteq {Author}
            ELSE g \in Generators /\ x.stage = "generators" /\ x.asked \subseteq Generators
                 /\ (kind = "finalization" => x.rec.state[Author] = "done")
<1>1. Author \notin Generators /\ Members = Generators \cup {Author}
  BY ScenarioFacts
<1>2. /\ x.asked \subseteq StageOf(x) /\ \A h \in x.asked : x.rec.state[h] = "running"
      /\ x.stage \in {"candidate", "generators"}
      /\ kind # "finalization" => x.stage = "generators"
      /\ kind = "finalization" /\ x.stage = "generators" => x.rec.state[Author] = "done"
  BY DEF MemoryOK
<1> QED
  BY <1>1, <1>2 DEF StageOf

LEMMA AnsweredRecord ==
  ASSUME ShapeInv, NEW x, NEW l, NEW source, MemoryOK(x, l, source), IsRecord(x.rec),
         NEW g \in x.asked, NEW state, NEW ids, AnswerOK(l, source, g, state, ids),
         NEW s, RecordBy(x.rec, g, state, ids, s)
  PROVE  RecordOK(l, source, s)
<1> DEFINE r == x.rec
<1>0. Author \notin Generators /\ Members = Generators \cup {Author}
  BY ScenarioFacts
<1>1. /\ g \in Members /\ r.state[g] = "running"
      /\ IF g = Author THEN kind = "finalization"
         ELSE g \in Generators /\ (kind = "finalization" => r.state[Author] = "done")
  BY AskedFacts
<1>2. RecordOK(l, source, r) /\ r.status # "none"
  BY DEF MemoryOK
<1>3. /\ s.status = r.status /\ s.accepted = r.accepted
      /\ s.events = IF g = Author THEN r.events ELSE r.events \cup ids
      /\ s.state[g] = state /\ s.ids[g] = ids
      /\ \A h \in Members \ {g} : s.state[h] = r.state[h] /\ s.ids[h] = r.ids[h]
  BY <1>1 DEF RecordBy, IsRecord
<1> HIDE DEF r
<1>4. s.events \subseteq UNION {Written(l, h) : h \in Generators}
  <2>1. r.events \subseteq UNION {Written(l, h) : h \in Generators}
    BY <1>2 DEF RecordOK
  <2>2. g # Author => ids \subseteq UNION {Written(l, h) : h \in Generators}
    BY <1>1 DEF AnswerOK
  <2> QED
    BY <1>3, <2>1, <2>2
<1>5. \A h \in Generators : s.ids[h] \subseteq s.events \cap Written(l, h)
  <2> SUFFICES ASSUME NEW h \in Generators PROVE s.ids[h] \subseteq s.events \cap Written(l, h)
    OBVIOUS
  <2>1. CASE h = g
    BY <1>0, <1>3, <2>1 DEF AnswerOK
  <2>2. CASE h # g
    <3>1. r.ids[h] \subseteq r.events \cap Written(l, h)
      BY <1>2 DEF RecordOK
    <3> QED
      BY <1>0, <1>3, <2>2, <3>1
  <2> QED
    BY <2>1, <2>2
<1>6. \A h \in Generators : s.state[h] = "done" /\ kind \notin {"review", "evidence"} => s.ids[h] # {}
  <2> SUFFICES ASSUME NEW h \in Generators, s.state[h] = "done", kind \notin {"review", "evidence"}
               PROVE  s.ids[h] # {}
    OBVIOUS
  <2>1. CASE h = g
    BY <1>0, <1>3, <2>1 DEF AnswerOK
  <2>2. CASE h # g
    BY <1>0, <1>2, <1>3, <2>2 DEF RecordOK
  <2> QED
    BY <2>1, <2>2
<1>7. s.state[Author] = "done" =>
        kind = "finalization" /\ \E f \in FinalProposals(l) : IsFinal(l, source, f) /\ s.ids[Author] = {f}
  <2>1. CASE g = Author
    BY <1>1, <1>3, <2>1 DEF AnswerOK
  <2>2. CASE g # Author
    BY <1>0, <1>2, <1>3, <2>2 DEF RecordOK
  <2> QED
    BY <2>1, <2>2
<1>8. kind = "finalization" /\ s.events # {} => s.state[Author] = "done"
  <2>1. CASE g = Author
    BY <1>1, <1>2, <1>3, <2>1 DEF RecordOK
  <2>2. CASE g # Author
    BY <1>0, <1>1, <1>3, <2>2
  <2> QED
    BY <2>1, <2>2
<1>9. kind = "finalization" /\ source # Drafted => s.state[Author] = "done"
  <2>1. CASE g = Author
    BY <1>1, <1>2, <1>3, <2>1 DEF RecordOK
  <2>2. CASE g # Author
    BY <1>0, <1>1, <1>3, <2>2
  <2> QED
    BY <2>1, <2>2
<1>10. s.accepted \subseteq Written(l, Author) /\ s.status # "none"
  BY <1>2, <1>3 DEF RecordOK
<1> QED
  BY <1>4, <1>5, <1>6, <1>7, <1>8, <1>9, <1>10 DEF RecordOK

LEMMA AnsweredMemory ==
  ASSUME ShapeInv, NEW x, NEW l, NEW source, MemoryOK(x, l, source), IsRecord(x.rec),
         NEW g \in x.asked, NEW state, NEW ids, AnswerOK(l, source, g, state, ids),
         NEW y, AnsweredBy(x, g, state, ids, y)
  PROVE  MemoryOK(y, l, source)
<1>0. /\ g \in Members
      /\ IF g = Author THEN kind = "finalization" /\ x.asked \subseteq {Author}
         ELSE g \in Generators /\ x.stage = "generators" /\ x.asked \subseteq Generators
              /\ (kind = "finalization" => x.rec.state[Author] = "done")
  BY AskedFacts
<1>1. Author \notin Generators /\ Members = Generators \cup {Author}
  BY ScenarioFacts
<1>2. /\ y.stage = x.stage /\ y.requested = x.requested /\ y.policy = x.policy
      /\ y.pc = IF x.asked = {g} THEN "merging" ELSE "waiting"
      /\ y.asked = x.asked \ {g} /\ y.wrote = {}
      /\ RecordBy(x.rec, g, state, ids, y.rec)
  BY DEF AnsweredBy, SameBut
<1>3. /\ y.rec.status = x.rec.status /\ y.rec.source = x.rec.source
      /\ y.rec.state[g] = state
      /\ \A h \in Members \ {g} : y.rec.state[h] = x.rec.state[h]
  BY <1>0, <1>2 DEF RecordBy, IsRecord
<1>4. RecordOK(l, source, y.rec)
  BY <1>2, AnsweredRecord
<1>5. \A h \in y.asked : y.rec.state[h] = "running"
  <2> SUFFICES ASSUME NEW h \in y.asked PROVE y.rec.state[h] = "running"
    OBVIOUS
  <2>1. h \in x.asked /\ h # g /\ h \in Members
    BY <1>0, <1>1, <1>2
  <2>2. x.rec.state[h] = "running"
    BY <2>1 DEF MemoryOK
  <2> QED
    BY <1>3, <2>1, <2>2
<1>6. kind = "finalization" /\ y.stage = "generators" => y.rec.state[Author] = "done"
  <2>1. CASE g = Author
    <3>1. x.stage # "generators"
      BY <1>1, <2>1 DEF MemoryOK, StageOf
    <3> QED
      BY <1>2, <3>1
  <2>2. CASE g # Author
    BY <1>0, <1>1, <1>3, <2>2
  <2> QED
    BY <2>1, <2>2
<1>7. y.asked \subseteq StageOf(y)
  BY <1>2 DEF MemoryOK, StageOf
<1>8. y.pc \in {"merging", "waiting"} /\ (y.pc = "merging" => y.asked = {})
  BY <1>2
<1> QED
  BY <1>2, <1>3, <1>4, <1>5, <1>6, <1>7, <1>8 DEF MemoryOK

\* A turn ends, with what was written in it in the ledger.
LEMMA TurnEndsStep ==
  ASSUME RoundInv, NEW e \in Execs, NEW g \in exec[e].asked, NEW state, NEW ids,
         exec[e].pc \in {"waiting", "writing"}, Quiet \/ Inside(e), Answered(e, g, state, ids),
         UNCHANGED <<scenario, round>>, Grows(ledger, ledger'), WorkInv',
         AnswerOK(ledger', round.source, g, state, ids)
  PROVE  RoundInv'
<1>0. Active(exec[e]) /\ ShapeInv
  BY DEF Active, RoundInv
<1>1. /\ round.status # "none" /\ MemoryOK(exec[e], ledger, round.source)
      /\ IsRecord(exec[e].rec) /\ IsRecord(round) /\ SourceOK(ledger, round.source)
  BY <1>0, ActiveFacts
<1>2. MemoryOK(exec[e], ledger', round.source)
  BY <1>1, MemoryGrows
<1>3. g \in Members
  BY <1>0, <1>1, AskedFacts
<1>4. Only(e) /\ Shaped(exec'[e]) /\ AnsweredBy(exec[e], g, state, ids, exec'[e])
  BY <1>0, <1>3, AnsweredEffect
<1>5. MemoryOK(exec'[e], ledger', round.source)
  BY <1>0, <1>1, <1>2, <1>4, AnsweredMemory
<1>6. RecordOK(ledger', round'.source, round')
  BY RecordGrows DEF RoundInv, RecordInv
<1>7. SourceStays
  BY <1>1, SourceGrows DEF SourceStays
<1>8. exec'[e].pc \in {"waiting", "merging"}
  BY <1>4 DEF AnsweredBy
<1> QED
  BY <1>1, <1>4, <1>5, <1>6, <1>7, <1>8, ExecStep DEF OwnersPc

LEMMA AnswerFailsStep ==
  ASSUME RoundInv, NEW e \in Execs, NEW g, AnswerFails(e, g), UNCHANGED scenario
  PROVE  RoundInv'
<1>1. /\ Quiet /\ exec[e].pc = "waiting" /\ g \in exec[e].asked
      /\ Answered(e, g, "failed", {}) /\ UNCHANGED <<ledger, round>>
  BY DEF AnswerFails, Awaits
<1>2. AnswerOK(ledger', round.source, g, "failed", {})
  BY DEF AnswerOK
<1>3. WorkInv'
  BY <1>1, WorkSame DEF RoundInv, SourceStays, WorkInv
<1>4. Grows(ledger, ledger')
  BY <1>1, SameGrows
<1> QED
  BY <1>1, <1>2, <1>3, <1>4, TurnEndsStep

LEMMA WriteFailsStep ==
  ASSUME RoundInv, NEW e \in Execs, WriteFails(e), UNCHANGED scenario
  PROVE  RoundInv'
<1>1. /\ exec[e].pc = "writing" /\ Answered(e, exec[e].turn, "failed", {})
      /\ UNCHANGED <<ledger, round>> /\ Inside(e) /\ Active(exec[e])
  BY DEF WriteFails, Inside, Active
<1>2. exec[e].turn \in exec[e].asked
  BY <1>1, ActiveFacts DEF MemoryOK, WritingOK
<1>3. AnswerOK(ledger', round.source, exec[e].turn, "failed", {})
  BY DEF AnswerOK
<1>4. WorkInv'
  BY <1>1, WorkSame DEF RoundInv, SourceStays, WorkInv
<1>5. Grows(ledger, ledger')
  BY <1>1, SameGrows
<1> QED
  BY <1>1, <1>2, <1>3, <1>4, <1>5, TurnEndsStep

\* What an answer consists of: nothing, only in a review; the items of the kind.
AnswerHas(x, g, items) ==
  /\ items = {} => kind = "review"
  /\ kind \in {"extraction", "repair"} => items = {DraftOf[g]}
  /\ kind \in {"review", "evidence"} => items \subseteq x.rec.source
  /\ kind = "finalization" /\ g # Author => items = x.rec.ids[Author]
  /\ kind = "finalization" /\ g = Author => \E names : items = {names}

LEMMA AnswersFacts ==
  ASSUME ShapeInv, NEW e \in Execs, MemoryOK(exec[e], ledger, round.source),
         NEW g \in exec[e].asked, NEW items \in Answers(e, g)
  PROVE  AnswerHas(exec[e], g, items)
<1>1. kind \in {"extraction", "review", "repair", "evidence", "finalization"}
  BY ScenarioFacts DEF RoundKinds
<1>2. kind = "finalization" /\ g # Author => exec[e].rec.ids[Author] # {}
  <2> SUFFICES ASSUME kind = "finalization", g # Author PROVE exec[e].rec.ids[Author] # {}
    OBVIOUS
  <2>1. exec[e].rec.state[Author] = "done"
    BY AskedFacts
  <2> QED
    BY <2>1 DEF MemoryOK, RecordOK
<1>3. CASE kind \in {"extraction", "repair"}
  BY <1>3 DEF Answers, AnswerHas
<1>4. CASE kind \in {"review", "evidence"}
  BY <1>4 DEF Answers, AnswerHas
<1>5. CASE kind = "finalization" /\ g # Author
  BY <1>2, <1>5 DEF Answers, AnswerHas
<1>6. CASE kind = "finalization" /\ g = Author
  BY <1>6 DEF Answers, AnswerHas
<1> QED
  BY <1>1, <1>3, <1>4, <1>5, <1>6

LEMMA AnswerStep ==
  ASSUME RoundInv, NEW e \in Execs, NEW g \in exec[e].asked, NEW items \in Answers(e, g),
         Answer(e, g, items), UNCHANGED scenario
  PROVE  RoundInv'
<1>0. /\ Quiet /\ exec[e].pc = "waiting" /\ Owns(e) /\ UNCHANGED <<ledger, round>>
      /\ Active(exec[e]) /\ ShapeInv
  BY DEF Answer, Awaits, Active, RoundInv
<1>1. /\ round.status # "none" /\ MemoryOK(exec[e], ledger, round.source)
      /\ IsRecord(exec[e].rec) /\ IsRecord(round)
  BY <1>0, ActiveFacts
<1>2. AnswerHas(exec[e], g, items)
  BY <1>0, <1>1, AnswersFacts
<1>3. IF g = Author THEN kind = "finalization" ELSE g \in Generators
  BY <1>0, <1>1, AskedFacts
<1>4. CASE items = {}
  <2>1. AnswerOK(ledger', round.source, g, "done", {})
    BY <1>2, <1>3, <1>4 DEF AnswerOK, AnswerHas
  <2>2. Answered(e, g, "done", {})
    BY <1>4 DEF Answer
  <2>3. WorkInv'
    BY <1>0, WorkSame DEF RoundInv, SourceStays, WorkInv
  <2>4. Grows(ledger, ledger')
    BY <1>0, SameGrows
  <2> QED
    BY <1>0, <2>1, <2>2, <2>3, <2>4, TurnEndsStep
<1>5. CASE items # {}
  <2> DEFINE x == exec[e]
             y == exec'[e]
  <2>1. BeginsWriting(e, g, items)
    BY <1>5 DEF Answer, BeginsWriting
  <2>2. /\ Only(e) /\ Shaped(y) /\ SameBut({"turn", "todo"}, x, y)
        /\ y.pc = "writing" /\ y.turn = g /\ y.todo = items
    BY <1>0, <2>1, StartsWriting
  <2>3. /\ y.stage = x.stage /\ y.requested = x.requested /\ y.policy = x.policy
        /\ y.rec = x.rec /\ y.asked = x.asked /\ y.wrote = x.wrote
    BY <2>2 DEF SameBut
  <2>4. x.wrote = {}
    BY <1>0, <1>1 DEF MemoryOK
  <2>5. WritingOK(y, ledger)
    <3>1. y.todo \subseteq Items(y)
      <4>1. kind \in {"extraction", "review", "repair", "evidence", "finalization"}
        BY <1>0, ScenarioFacts DEF RoundKinds
      <4> HIDE DEF x, y
      <4>2. x = exec[e]
        BY DEF x
      <4> QED
        BY <1>2, <2>2, <2>3, <4>1, <4>2 DEF Items, AnswerHas
    <3>2. y.turn = Author => y.wrote = {} /\ \E item \in y.todo : y.todo = {item}
      BY <1>2, <1>3, <2>2, <2>3, <2>4 DEF AnswerHas
    <3>3. y.turn \in y.asked /\ y.wrote \subseteq Written(ledger, y.turn)
      BY <2>2, <2>3, <2>4
    <3> QED
      BY <3>1, <3>2, <3>3 DEF WritingOK
  <2>6. MemoryOK(y, ledger, round.source)
    <3> HIDE DEF y
    <3> QED
      BY <1>1, <2>2, <2>3, <2>5 DEF MemoryOK, StageOf
  <2>7. RecordOK(ledger, round.source, round')
    BY <1>0 DEF RoundInv, RecordInv
  <2> QED
    BY <1>0, <1>1, <2>2, <2>6, <2>7, SameLedgerStep DEF Owns
<1> QED
  BY <1>4, <1>5

-----------------------------------------------------------------------------
(***************************************************************************)
(* Merging, and what follows it.                                           *)
(***************************************************************************)
LEMMA AcceptedAreSources ==
  ASSUME ShapeInv, NEW e \in Execs, MemoryOK(exec[e], ledger, round.source)
  PROVE  /\ ToAccept(e) \subseteq exec[e].rec.source
         /\ exec[e].policy = "unchallenged" =>
              \A target \in ToAccept(e) : Challenges(ledger, target) = {}
<1>1. exec[e].policy \in {"none", "all", "unchallenged"}
  BY DEF MemoryOK
<1> QED
  BY <1>1 DEF ToAccept

LEMMA MergeGoesOn ==
  ASSUME RoundInv, NEW e \in Execs, Merge(e), UNCHANGED scenario,
         Done(exec[e].rec, StageMembers(e) \cap exec[e].requested),
         kind \in {"review", "finalization"}
  PROVE  RoundInv'
<1> DEFINE x == exec[e]
           y == exec'[e]
<1>0. /\ x.pc = "merging" /\ Owns(e) /\ UNCHANGED ledger /\ Inside(e) /\ Active(x) /\ ShapeInv
  BY DEF Merge, Inside, Active, RoundInv
<1>1. /\ round.status # "none" /\ MemoryOK(x, ledger, round.source)
      /\ IsRecord(x.rec) /\ IsRecord(round)
  BY <1>0, ActiveFacts
<1>2. PICK rec : rec = [exec[e].rec EXCEPT !.status = "running"]
  OBVIOUS
<1>3. PICK pc : pc = IF kind = "review" THEN "accepting"
                     ELSE IF x.stage = "candidate" THEN "auditing" ELSE "compiling"
  OBVIOUS
<1>4. PICK todo : todo = IF kind = "review" THEN ToAccept(e) ELSE {}
  OBVIOUS
<1>5. Record(e, rec) /\ Continues(e, pc, rec, todo)
  BY <1>2, <1>3, <1>4 DEF Merge, Continues
<1>6. /\ IsRecord(rec) /\ rec.status = "running" /\ rec.source = x.rec.source
      /\ rec.state = x.rec.state /\ rec.ids = x.rec.ids /\ rec.events = x.rec.events
      /\ rec.accepted = x.rec.accepted
  BY <1>1, <1>2, RecordStatus
<1>7. /\ Only(e) /\ Shaped(y) /\ SameBut({"rec", "stage", "todo"}, x, y)
      /\ y.pc = pc /\ y.todo = todo /\ y.stage = "generators" /\ y.rec = rec
  BY <1>0, <1>5, <1>6, GoesOn
<1>8. y.requested = x.requested /\ y.policy = x.policy /\ y.asked = x.asked /\ y.wrote = x.wrote
  BY <1>7 DEF SameBut
<1>9. x.asked = {} /\ x.wrote = {}
  BY <1>0, <1>1 DEF MemoryOK
<1>10. RecordOK(ledger, round.source, rec)
  <2>1. RecordOK(ledger, round.source, x.rec) /\ x.rec.status # "none"
    BY <1>1 DEF MemoryOK
  <2>2. rec.accepted \subseteq Written(ledger, Author)
    BY <1>6, <2>1 DEF RecordOK
  <2> QED
    BY <1>6, <2>1, <2>2, RecordSame
<1>11. /\ IsRecord(round') /\ round'.claim = round.claim
       /\ round'.status = "running" /\ round'.source = x.rec.source /\ round'.state = x.rec.state
       /\ RecordOK(ledger, round.source, round')
  <2>1. /\ IsRecord(round') /\ round'.claim = round.claim
        /\ round'.status = rec.status /\ round'.source = rec.source /\ round'.state = rec.state
        /\ round'.ids = rec.ids /\ round'.events = rec.events /\ round'.accepted = rec.accepted
    BY <1>5, <1>6, RecordEffect
  <2>2. rec.accepted \subseteq Written(ledger, Author)
    BY <1>10 DEF RecordOK
  <2> QED
    BY <1>6, <1>10, <2>1, <2>2, RecordSame
<1>12. kind = "finalization" => x.rec.state[Author] = "done"
  <2> SUFFICES ASSUME kind = "finalization" PROVE x.rec.state[Author] = "done"
    OBVIOUS
  <2>1. CASE x.stage = "candidate"
    BY <1>1, <2>1 DEF MemoryOK, StageMembers, Done
  <2>2. CASE x.stage # "candidate"
    BY <1>1, <2>2 DEF MemoryOK
  <2> QED
    BY <2>1, <2>2
<1>13. kind = "review" =>
         /\ todo \subseteq x.rec.source /\ \A g \in x.requested : x.rec.state[g] = "done"
         /\ x.policy = "unchallenged" => \A target \in todo : Challenges(ledger, target) = {}
  <2> SUFFICES ASSUME kind = "review"
               PROVE  /\ todo \subseteq x.rec.source /\ \A g \in x.requested : x.rec.state[g] = "done"
                      /\ x.policy = "unchallenged" =>
                           \A target \in todo : Challenges(ledger, target) = {}
    OBVIOUS
  <2>1. x.requested \subseteq Generators /\ x.stage = "generators"
    BY <1>1 DEF MemoryOK
  <2>2. \A g \in x.requested : x.rec.state[g] = "done"
    BY <2>1 DEF StageMembers, Done
  <2> QED
    BY <1>0, <1>1, <1>4, <2>2, AcceptedAreSources
<1>14. pc \in {"accepting", "auditing", "compiling"} /\ (pc = "accepting" <=> kind = "review")
  BY <1>3
<1>15. MemoryOK(y, ledger, round.source)
  <2>1. y.pc = "accepting" => AcceptingOK(y, ledger)
    BY <1>6, <1>7, <1>8, <1>9, <1>13, <1>14 DEF AcceptingOK
  <2>2. x.rec.source = round.source
    BY <1>1 DEF MemoryOK
  <2>3. /\ x.requested \subseteq Members
        /\ IF kind = "finalization" THEN Author \in x.requested ELSE x.requested \subseteq Generators
        /\ x.policy \in {"none", "all", "unchallenged"}
    BY <1>1 DEF MemoryOK
  <2> HIDE DEF x, y
  <2> QED
    BY <1>6, <1>7, <1>8, <1>9, <1>10, <1>12, <1>14, <2>1, <2>2, <2>3 DEF MemoryOK
<1>16. y.pc = "accepting" => AcceptOK(y, round', ledger)
  BY <1>7, <1>8, <1>11, <1>13, <1>14 DEF AcceptOK
<1>17. x.rec.source = round.source
  BY <1>1 DEF MemoryOK
<1> QED
  BY <1>0, <1>1, <1>7, <1>11, <1>15, <1>16, <1>17, SameLedgerStep DEF Owns

LEMMA MergeStep ==
  ASSUME RoundInv, NEW e \in Execs, Merge(e), UNCHANGED scenario
  PROVE  RoundInv'
<1> DEFINE done == Done(exec[e].rec, StageMembers(e) \cap exec[e].requested)
<1>1. CASE done /\ kind \in {"review", "finalization"}
  BY <1>1, MergeGoesOn
<1>2. CASE ~(done /\ kind \in {"review", "finalization"})
  <2>1. PICK status : status = IF done THEN "completed" ELSE "waiting"
    OBVIOUS
  <2>2. RecordAndLeave(e, [exec[e].rec EXCEPT !.status = status])
    BY <1>2, <2>1 DEF Merge
  <2>3. Inside(e) /\ UNCHANGED ledger
    BY DEF Merge, Inside
  <2> QED
    BY <2>1, <2>2, <2>3, LeaveWithStatus
<1> QED
  BY <1>1, <1>2

\* An accepting execution has one proposal fewer to accept.
LEMMA AcceptFailsStep ==
  ASSUME RoundInv, NEW e \in Execs, NEW target, AcceptFails(e, target), UNCHANGED scenario
  PROVE  RoundInv'
<1> DEFINE x == exec[e]
           y == exec'[e]
<1>0. /\ x.pc = "accepting" /\ UNCHANGED <<ledger, round>> /\ Inside(e) /\ Active(x) /\ ShapeInv
  BY DEF AcceptFails, Inside, Active, RoundInv
<1>1. /\ round.status # "none" /\ MemoryOK(x, ledger, round.source) /\ IsRecord(round)
  BY <1>0, ActiveFacts
<1>2. DropsItem(e, exec[e].todo \ {target})
  BY DEF AcceptFails, DropsItem
<1>3. /\ Only(e) /\ Shaped(y) /\ SameBut({"todo"}, x, y)
      /\ y.pc = x.pc /\ y.todo = x.todo \ {target}
  BY <1>0, <1>2, ItemRefused
<1>4. /\ y.stage = x.stage /\ y.requested = x.requested /\ y.policy = x.policy
      /\ y.rec = x.rec /\ y.asked = x.asked /\ y.wrote = x.wrote
  BY <1>3 DEF SameBut
<1>5. AcceptingOK(y, ledger)
  BY <1>0, <1>1, <1>3, <1>4 DEF MemoryOK, AcceptingOK
<1>6. MemoryOK(y, ledger, round.source)
  <2> HIDE DEF x, y
  <2> QED
    BY <1>0, <1>1, <1>3, <1>4, <1>5 DEF MemoryOK, StageOf
<1>7. AcceptOK(y, round', ledger)
  BY <1>0, <1>3, <1>4 DEF RoundInv, AcceptInv, AcceptOK
<1>8. RecordOK(ledger, round.source, round') /\ round'.claim = e
  BY <1>0 DEF RoundInv, RecordInv, TurnInv, Owns
<1> QED
  BY <1>0, <1>1, <1>3, <1>6, <1>7, <1>8, SameLedgerStep

LEMMA IdleShape == IsExec(Idle) /\ Idle.pc = "idle" /\ Idle.rec = NoRecord
BY DEF Idle, IsExec

LEMMA RecordUnclaimed ==
  ASSUME NEW r, IsRecord(r), NEW s, s = [r EXCEPT !.claim = NoExec]
  PROVE  /\ IsRecord(s) /\ s.status = r.status /\ s.source = r.source /\ s.state = r.state
         /\ s.ids = r.ids /\ s.events = r.events /\ s.accepted = r.accepted
         /\ s.claim = NoExec
BY DEF IsRecord

LEMMA ReleaseStep ==
  ASSUME RoundInv, NEW e \in Execs, Release(e), UNCHANGED scenario
  PROVE  RoundInv'
<1>0. Quiet /\ UNCHANGED ledger /\ IsRecord(round) /\ exec' = [exec EXCEPT ![e] = Idle]
  BY DEF Release, RoundInv, ShapeInv
<1>1. /\ Only(e) /\ exec'[e] = Idle /\ Shaped(exec'[e])
      /\ exec'[e].pc = "idle"
  <2>1. exec = [f \in Execs |-> exec[f]]
    BY DEF RoundInv, ShapeInv
  <2>2. Only(e) /\ exec'[e] = Idle
    BY <1>0, <2>1 DEF Only
  <2> QED
    BY <2>2, IdleShape, NoRecordShape DEF Shaped
<1>2. RecordOK(ledger, round.source, round) /\ WorkInv
  BY DEF RoundInv, RecordInv
<1>3. /\ IsRecord(round') /\ round'.status = round.status /\ round'.source = round.source
      /\ RecordOK(ledger, round.source, round')
  <2>1. CASE ~Owns(e)
    BY <1>0, <1>2, <2>1 DEF Release
  <2>2. CASE Owns(e)
    <3>1. round' = [round EXCEPT !.claim = NoExec]
      BY <2>2 DEF Release
    <3>2. /\ IsRecord(round') /\ round'.status = round.status /\ round'.source = round.source
          /\ round'.state = round.state /\ round'.ids = round.ids
          /\ round'.events = round.events /\ round'.accepted = round.accepted
          /\ round'.claim = NoExec
      BY <1>0, <3>1, RecordUnclaimed
    <3>3. CASE round.status # "none"
      <4>1. round'.accepted \subseteq Written(ledger, Author)
        BY <1>2, <3>2 DEF RecordOK
      <4> QED
        BY <1>2, <3>2, <3>3, <4>1, RecordSame
    <3>4. CASE round.status = "none"
      <4>1. round = NoRecord
        BY <1>2, <3>4 DEF RecordOK
      <4>2. round.claim = NoExec
        BY <4>1 DEF NoRecord
      <4>3. round' = round
        BY <1>0, <3>2, <4>2 DEF IsRecord
      <4> QED
        BY <1>0, <1>2, <4>3
    <3> QED
      BY <3>3, <3>4
  <2> QED
    BY <2>1, <2>2
<1>4. SourceStays
  BY <1>0, <1>2, <1>3 DEF SourceStays, WorkInv
<1>5. WorkInv'
  BY <1>0, <1>2, <1>4, WorkSame
<1>6. Grows(ledger, ledger')
  BY <1>0, SameGrows
<1> QED
  BY <1>0, <1>1, <1>3, <1>4, <1>5, <1>6, ExecStep DEF Active, OwnersPc

\* The process dies: no execution is left, the record and the ledger stay.
LEMMA CrashStep ==
  ASSUME RoundInv, Crash, UNCHANGED scenario
  PROVE  RoundInv'
<1>0. /\ exec' = [e \in Execs |-> Idle] /\ UNCHANGED <<ledger, round, scenario>>
  BY DEF Crash
<1>1. \A e \in Execs : exec'[e].pc = "idle" /\ IsExec(exec'[e]) /\ IsRecord(exec'[e].rec)
  BY <1>0, IdleShape, NoRecordShape
<1>2. ShapeInv'
  <2>1. IsRecord(round)' /\ \A f \in Execs : IsExec(exec[f])' /\ IsRecord(exec[f].rec)'
    BY <1>0, <1>1 DEF IsRecord, IsExec, RoundInv, ShapeInv
  <2> QED
    BY <1>0, <2>1 DEF ShapeInv, RoundInv
<1>3. TurnInv' /\ MemoryInv' /\ AcceptInv'
  BY <1>1 DEF TurnInv, MemoryInv, AcceptInv, Inside, Active
<1>4. WorkInv'
  BY <1>0, WorkSame DEF RoundInv, SourceStays, WorkInv
<1>5. RecordInv'
  BY <1>0, RecordLater DEF RoundInv, RecordInv
<1> QED
  BY <1>2, <1>3, <1>4, <1>5 DEF RoundInv

-----------------------------------------------------------------------------
(***************************************************************************)
(* The steps that append.                                                  *)
(***************************************************************************)
\* One more event: of the round if it has a key, of another client if not.
FitsRound(ev) ==
  /\ ev.key # NoKey => round.status # "none" /\ IsWork(ledger, round.source, ev)
  /\ ev.type = "extraction_proposed" => ev.objects \in Drafts
  /\ kind = "repair" /\ ev.key # NoKey => ev.basedOn = DraftSources(round.source)

LEMMA WorkNew ==
  ASSUME WorkInv, UNCHANGED <<scenario, round>>, NEW ev, FitsRound(ev),
         IsNew(ledger, ev), Extends(ledger, ev, ledger')
  PROVE  WorkInv'
<1>0. Grows(ledger, ledger')
  BY ExtendsGrows
<1>1. /\ IsLog(ledger') /\ OneEventPerKey(ledger')
      /\ IsLog(scenario.ledger)' /\ DOMAIN scenario.ledger \subseteq DOMAIN ledger'
  BY OneMoreKey DEF WorkInv, Extends, IsLog
<1>2. \A i \in DOMAIN ledger' : \/ i \in DOMAIN ledger /\ ledger'[i] = ledger[i]
                                \/ i = Len(ledger) + 1 /\ ledger'[i] = ev
  BY DEF Extends
<1>3. \A i \in OfType(ledger', "extraction_proposed") : ledger'[i].objects \in Drafts
  <2> SUFFICES ASSUME NEW i \in DOMAIN ledger', ledger'[i].type = "extraction_proposed"
               PROVE  ledger'[i].objects \in Drafts
    BY DEF OfType
  <2>1. CASE i \in DOMAIN ledger /\ ledger'[i] = ledger[i]
    BY <2>1 DEF WorkInv, OfType
  <2>2. CASE i = Len(ledger) + 1 /\ ledger'[i] = ev
    BY <2>2 DEF FitsRound
  <2> QED
    BY <1>2, <2>1, <2>2
<1>4. ASSUME NEW i \in DOMAIN ledger', ledger'[i].key # NoKey
      PROVE  round.status # "none" /\ IsWork(ledger', round.source, ledger'[i])
  <2>1. round.status # "none" /\ IsWork(ledger, round.source, ledger'[i])
    <3>1. CASE i \in DOMAIN ledger /\ ledger'[i] = ledger[i]
      BY <1>4, <3>1 DEF WorkInv
    <3>2. CASE i = Len(ledger) + 1 /\ ledger'[i] = ev
      BY <1>4, <3>2 DEF FitsRound
    <3> QED
      BY <1>2, <3>1, <3>2
  <2> QED
    BY <1>0, <2>1, WorkGrows
<1>5. round'.status # "none" => SourceOK(ledger', round'.source)
  BY <1>0, SourceGrows DEF WorkInv
<1>6. RepairsAsToday'
  <2> SUFFICES ASSUME kind = "repair",
                      OfType(ledger', "proposal_accepted") \subseteq DOMAIN scenario.ledger
               PROVE  RepairDrafts(ledger', Frontier(ledger'), round'.source)
    BY RepairsReadLater
  <2>1. ev.type # "proposal_accepted"
    <3>1. Len(ledger) + 1 \notin DOMAIN scenario.ledger /\ Len(ledger) + 1 \in DOMAIN ledger'
      BY DEF WorkInv, IsLog, Extends
    <3> QED
      BY <3>1 DEF OfType, Extends
  <2>2. /\ OfType(ledger', "proposal_accepted") = OfType(ledger, "proposal_accepted")
        /\ Frontier(ledger') = Frontier(ledger)
    BY <2>1, ProjectionsSame
  <2>3. RepairDrafts(ledger, Frontier(ledger), round.source)
    BY <2>2, RepairsRead DEF WorkInv
  <2>4. DraftSources(round.source) = RepairedFrom(Frontier(ledger), round.source)
    BY DEF DraftSources, RepairedFrom
  <2> QED
    BY <1>2, <2>2, <2>3, <2>4 DEF RepairDrafts, FitsRound
<1>7. \A i \in DOMAIN ledger' : ledger'[i].key # NoKey =>
        round'.status # "none" /\ IsWork(ledger, round.source, ledger[i])'
  BY <1>4, WorkLater
<1>8. (round.status # "none" => SourceOK(ledger, round.source))'
  BY <1>5, SourceLater
<1> QED
  BY <1>1, <1>3, <1>6, <1>7, <1>8 DEF WorkInv, IsLog, OneEventPerKey, OfType

\* The event that a call returns says what the call said.
LEMMA CompatibleFields ==
  ASSUME NEW e, NEW input, IsCompatible(e, input), "author" \in DOMAIN input
  PROVE  e.type = input.type /\ e.author = input.author
<1>1. "author" \in DOMAIN input \ GeneratedFields(input)
  BY DEF GeneratedFields
<1>2. Comparable(e) = Comparable(input) /\ e.type = input.type
  BY DEF IsCompatible
<1>3. PICK c : c = Comparable(input)
  OBVIOUS
<1>4. "author" \in DOMAIN c /\ c["author"] = input.author
  BY <1>1, <1>3 DEF Comparable
<1>5. DOMAIN c = DOMAIN e \ GeneratedFields(e)
      /\ \A f \in DOMAIN e \ GeneratedFields(e) : c[f] = e[f]
  BY <1>2, <1>3 DEF Comparable
<1> QED
  BY <1>2, <1>4, <1>5

LEMMA StoreStep ==
  ASSUME WorkInv, UNCHANGED <<scenario, round>>, NEW input, FitsRound(input),
         input.key # NoKey, "author" \in DOMAIN input, ~IsConflict(ledger, input), Store(input)
  PROVE  /\ WorkInv' /\ Grows(ledger, ledger')
         /\ ReturnedEvent(ledger, input) \in Written(ledger', input.author)
         /\ ReturnedEvent(ledger, input) \in OfType(ledger', input.type)
         /\ UNCHANGED ledger \/ Extends(ledger, input, ledger')
<1>0. IsLog(ledger)
  BY DEF WorkInv
<1>1. CASE IsNew(ledger, input)
  <2>1. Extends(ledger, input, ledger')
    <3>1. ledger' = Append(ledger, input)
      BY <1>1 DEF Store, AfterAppend
    <3> QED
      BY <1>0, <3>1, AppendExtends
  <2>2. WorkInv' /\ Grows(ledger, ledger')
    BY <1>1, <2>1, WorkNew, ExtendsGrows
  <2>3. ReturnedEvent(ledger, input) = Len(ledger) + 1
    BY <1>1 DEF ReturnedEvent
  <2>4. Len(ledger) + 1 \in DOMAIN ledger' /\ ledger'[Len(ledger) + 1] = input
    BY <2>1 DEF Extends
  <2> QED
    BY <2>1, <2>2, <2>3, <2>4 DEF Written, OfType
<1>2. CASE ~IsNew(ledger, input)
  <2>1. UNCHANGED ledger
    BY <1>2 DEF Store, AfterAppend
  <2>2. WorkInv'
    BY <2>1, WorkSame DEF WorkInv, SourceStays
  <2>3. Grows(ledger, ledger')
    BY <2>1, SameGrows
  <2>4. PICK r : r = ReturnedEvent(ledger, input)
    OBVIOUS
  <2>5. r \in Replays(ledger, input)
    BY <1>2, <2>4 DEF IsConflict, IsReplay, ReturnedEvent
  <2>6. /\ r \in DOMAIN ledger /\ ledger[r].key = input.key /\ ledger[r].type = input.type
        /\ ledger[r].author = input.author
    BY <2>5, CompatibleFields DEF Replays, KeyHolders
  <2>7. r \in Written(ledger', input.author) /\ r \in OfType(ledger', input.type)
    BY <2>1, <2>6 DEF Written, OfType
  <2> QED
    BY <2>1, <2>2, <2>3, <2>4, <2>7
<1> QED
  BY <1>1, <1>2

\* A key is none of NoKey.
LEMMA KeyIsKey ==
  ASSUME ShapeInv, NEW g \in Members,
         NEW x, \/ x \in Nat
                \/ x \in NeedNames
                \/ x \in SUBSET CandidateNames
  PROVE  ItemKey(g, x) # NoKey
<1>1. kind \in RoundKinds
  BY ScenarioFacts
<1> QED
  BY <1>1, KeysAssumption DEF ItemKey

\* What an execution passes to the store is work of its round.
LEMMA ResponseShape ==
  ASSUME NEW type, NEW a, NEW x, NEW ev,
         ev = ResponseInput(ledger, type, a, ItemKey(a, x), x)
  PROVE  /\ IsResponse(ev) /\ ev.type = type /\ ev.author = a /\ ev.target = x
         /\ ev.key = ItemKey(a, x) /\ "author" \in DOMAIN ev
BY DEF ResponseInput, IsResponse

IsMine(e, ev) ==
  /\ FitsRound(ev) /\ ev.key # NoKey /\ "author" \in DOMAIN ev /\ ev.author = exec[e].turn
  /\ kind = "finalization" /\ exec[e].turn = Author =>
       ev.type = "final_candidate_proposed" /\ round.source = Drafted

LEMMA DraftFits ==
  ASSUME RoundInv, NEW e \in Execs, exec[e].pc = "writing", NEW item \in exec[e].todo,
         kind \in {"extraction", "repair"}
  PROVE  IsMine(e, InputOf(e, item))
<1> DEFINE g == exec[e].turn
<1>0. /\ ShapeInv /\ round.status # "none" /\ MemoryOK(exec[e], ledger, round.source)
      /\ SourceOK(ledger, round.source)
  BY ActiveFacts DEF Active, RoundInv
<1>1. /\ g \in exec[e].asked /\ exec[e].rec.source = round.source
  BY <1>0 DEF MemoryOK, WritingOK
<1>2. g \in Generators /\ g \in Members
  BY <1>0, <1>1, AskedFacts
<1>3. PICK ev : ev = InputOf(e, item)
  OBVIOUS
<1>4. PICK x : x = IF kind = "repair" THEN round.source ELSE {}
  OBVIOUS
<1>5. ev = ExtractionInput(ledger, g, ItemKey(g, x), DraftOf[g], DraftSources(round.source))
  BY <1>1, <1>3, <1>4 DEF InputOf, DraftInput
<1>6. x \in SUBSET CandidateNames
  BY <1>0, <1>4 DEF SourceOK
<1>7. ItemKey(g, x) # NoKey
  BY <1>0, <1>2, <1>6, KeyIsKey
<1>8. /\ ev.type = "extraction_proposed" /\ ev.author = g /\ ev.key = ItemKey(g, x)
      /\ DOMAIN ev = {"type", "key", "author", "basedOn", "objects", "payloadId"}
      /\ ev.objects = DraftOf[g] /\ ev.basedOn = DraftSources(round.source)
  BY <1>5 DEF ExtractionInput
<1>9. DraftOf[g] \in Drafts
  BY <1>2, MembersAssumption
<1>10. kind = "extraction" => DraftSources(round.source) = round.source
  BY DEF DraftSources
<1>11. IsWork(ledger, round.source, ev)
  <2> HIDE DEF g
  <2> QED
    BY <1>2, <1>4, <1>8, <1>10 DEF IsWork, IsDraft
<1>12. FitsRound(ev)
  BY <1>0, <1>8, <1>9, <1>11 DEF FitsRound
<1> QED
  BY <1>3, <1>7, <1>8, <1>12 DEF IsMine

LEMMA ChallengeFits ==
  ASSUME RoundInv, NEW e \in Execs, exec[e].pc = "writing", NEW item \in exec[e].todo,
         kind = "review"
  PROVE  IsMine(e, InputOf(e, item))
<1> DEFINE g == exec[e].turn
<1>0. /\ ShapeInv /\ round.status # "none" /\ MemoryOK(exec[e], ledger, round.source)
      /\ SourceOK(ledger, round.source)
  BY ActiveFacts DEF Active, RoundInv
<1>1. /\ g \in exec[e].asked /\ exec[e].rec.source = round.source
      /\ exec[e].todo \subseteq Items(exec[e])
  BY <1>0 DEF MemoryOK, WritingOK
<1>2. g \in Generators /\ g \in Members
  BY <1>0, <1>1, AskedFacts
<1>3. item \in Nat
  BY <1>0, <1>1 DEF Items, SourceOK
<1>4. PICK ev : ev = InputOf(e, item)
  OBVIOUS
<1>5. ev = ResponseInput(ledger, "proposal_challenged", g, ItemKey(g, item), item)
  BY <1>4 DEF InputOf, ChallengeInput
<1>6. /\ IsResponse(ev) /\ ev.type = "proposal_challenged" /\ ev.author = g /\ ev.target = item
      /\ ev.key = ItemKey(g, item) /\ "author" \in DOMAIN ev
  BY <1>5, ResponseShape
<1>7. ItemKey(g, item) # NoKey
  BY <1>0, <1>2, <1>3, KeyIsKey
<1>8. IsWork(ledger, round.source, ev)
  BY <1>2, <1>6 DEF IsWork, IsReview
<1>9. FitsRound(ev)
  BY <1>0, <1>6, <1>8 DEF FitsRound
<1> QED
  BY <1>4, <1>6, <1>7, <1>9 DEF IsMine

LEMMA ResultFits ==
  ASSUME RoundInv, NEW e \in Execs, exec[e].pc = "writing", NEW item \in exec[e].todo,
         kind = "evidence"
  PROVE  IsMine(e, InputOf(e, item))
<1> DEFINE g == exec[e].turn
<1>0. /\ ShapeInv /\ round.status # "none" /\ MemoryOK(exec[e], ledger, round.source)
      /\ SourceOK(ledger, round.source)
  BY ActiveFacts DEF Active, RoundInv
<1>1. /\ g \in exec[e].asked /\ exec[e].rec.source = round.source
      /\ exec[e].todo \subseteq Items(exec[e])
  BY <1>0 DEF MemoryOK, WritingOK
<1>2. g \in Generators /\ g \in Members
  BY <1>0, <1>1, AskedFacts
<1>3. item \in NeedNames
  BY <1>0, <1>1 DEF Items, SourceOK
<1>4. PICK ev : ev = InputOf(e, item)
  OBVIOUS
<1>5. ev = EvidenceInput(ledger, g, ItemKey(g, item), item)
  BY <1>4 DEF InputOf, ResultInput
<1>6. /\ ev.type = "evidence_result_recorded" /\ ev.author = g /\ ev.need = item
      /\ ev.key = ItemKey(g, item) /\ "author" \in DOMAIN ev
      /\ "need" \in DOMAIN ev /\ "target" \notin DOMAIN ev
  BY <1>5 DEF EvidenceInput
<1>7. ItemKey(g, item) # NoKey
  BY <1>0, <1>2, <1>3, KeyIsKey
<1>8. IsWork(ledger, round.source, ev)
  BY <1>2, <1>6 DEF IsWork, IsResult
<1>9. FitsRound(ev)
  BY <1>0, <1>6, <1>8 DEF FitsRound
<1> QED
  BY <1>4, <1>6, <1>7, <1>9 DEF IsMine

LEMMA CandidateFits ==
  ASSUME RoundInv, NEW e \in Execs, exec[e].pc = "writing", NEW item \in exec[e].todo,
         kind = "finalization", exec[e].turn = Author
  PROVE  IsMine(e, InputOf(e, item))
<1>0. /\ ShapeInv /\ round.status # "none" /\ MemoryOK(exec[e], ledger, round.source)
  BY ActiveFacts DEF Active, RoundInv
<1>1. Author \in exec[e].asked
  BY <1>0 DEF MemoryOK, WritingOK
<1>2. exec[e].rec.state[Author] = "running"
  BY <1>0, <1>1, AskedFacts
<1>3. round.source = Drafted
  BY <1>0, <1>2 DEF MemoryOK, RecordOK
<1>4. PICK ev : ev = InputOf(e, item)
  OBVIOUS
<1>5. ev = FinalInput(ledger, Author, ItemKey(Author, Drafted), item)
  BY <1>4 DEF InputOf, CandidateInput
<1>6. /\ ev.type = "final_candidate_proposed" /\ ev.author = Author
      /\ ev.key = ItemKey(Author, Drafted) /\ "author" \in DOMAIN ev
      /\ "need" \notin DOMAIN ev /\ "target" \notin DOMAIN ev
  BY <1>5 DEF FinalInput
<1>7. ItemKey(Author, Drafted) # NoKey
  BY <1>0, KeyIsKey DEF Drafted, Members
<1>8. IsWork(ledger, round.source, ev)
  BY <1>3, <1>6 DEF IsWork, IsCandidate
<1>9. FitsRound(ev)
  BY <1>0, <1>6, <1>8 DEF FitsRound
<1> QED
  BY <1>3, <1>4, <1>6, <1>7, <1>9 DEF IsMine

LEMMA AuditFits ==
  ASSUME RoundInv, NEW e \in Execs, exec[e].pc = "writing", NEW item \in exec[e].todo,
         kind = "finalization", exec[e].turn # Author
  PROVE  IsMine(e, InputOf(e, item))
<1> DEFINE g == exec[e].turn
<1>0. /\ ShapeInv /\ round.status # "none" /\ MemoryOK(exec[e], ledger, round.source) /\ WorkInv
  BY ActiveFacts DEF Active, RoundInv
<1>1. /\ g \in exec[e].asked /\ exec[e].todo \subseteq Items(exec[e])
  BY <1>0 DEF MemoryOK, WritingOK
<1>2. g \in Generators /\ g \in Members /\ exec[e].rec.state[Author] = "done"
  BY <1>0, <1>1, AskedFacts
<1>3. PICK f \in FinalProposals(ledger) :
        IsFinal(ledger, round.source, f) /\ exec[e].rec.ids[Author] = {f}
  BY <1>0, <1>2 DEF MemoryOK, RecordOK
<1>4. item = f
  BY <1>1, <1>3 DEF Items
<1>5. item \in Nat
  BY <1>0, <1>3, <1>4 DEF FinalProposals, OfType, WorkInv, IsLog
<1>6. PICK ev : ev = InputOf(e, item)
  OBVIOUS
<1>7. ev = ResponseInput(ledger, "final_audit_recorded", g, ItemKey(g, item), item)
  BY <1>6 DEF InputOf, AuditInput
<1>8. /\ IsResponse(ev) /\ ev.type = "final_audit_recorded" /\ ev.author = g /\ ev.target = item
      /\ ev.key = ItemKey(g, item) /\ "author" \in DOMAIN ev
  BY <1>7, ResponseShape
<1>9. ItemKey(g, item) # NoKey
  BY <1>0, <1>2, <1>5, KeyIsKey
<1>10. IsWork(ledger, round.source, ev)
  BY <1>2, <1>3, <1>4, <1>8 DEF IsWork, IsAudit
<1>11. FitsRound(ev)
  BY <1>0, <1>8, <1>10 DEF FitsRound
<1> QED
  BY <1>6, <1>8, <1>9, <1>11 DEF IsMine

LEMMA InputFits ==
  ASSUME RoundInv, NEW e \in Execs, exec[e].pc = "writing", NEW item \in exec[e].todo
  PROVE  IsMine(e, InputOf(e, item))
<1>1. kind \in {"extraction", "review", "repair", "evidence", "finalization"}
  BY ScenarioFacts DEF RoundKinds, RoundInv
<1> QED
  BY <1>1, DraftFits, ChallengeFits, ResultFits, CandidateFits, AuditFits

LEMMA WriteItemStep ==
  ASSUME RoundInv, NEW e \in Execs, NEW item \in exec[e].todo, WriteItem(e, item),
         UNCHANGED scenario
  PROVE  RoundInv'
<1> DEFINE x == exec[e]
           y == exec'[e]
<1>0. /\ x.pc = "writing" /\ Inside(e) /\ Active(x) /\ ShapeInv /\ WorkInv /\ Owns(e)
      /\ UNCHANGED round
  BY DEF WriteItem, Inside, Active, RoundInv, TurnInv
<1>1. /\ round.status # "none" /\ MemoryOK(x, ledger, round.source) /\ IsRecord(round)
      /\ SourceOK(ledger, round.source)
  BY <1>0, ActiveFacts
<1>2. PICK input : input = InputOf(e, item)
  OBVIOUS
<1>3. PICK r : r = ReturnedEvent(ledger, input)
  OBVIOUS
<1>4. PICK wrote : wrote = x.wrote \cup {r}
  OBVIOUS
<1>5. IsMine(e, input)
  BY <1>0, <1>2, InputFits
<1>6. /\ WorkInv' /\ Grows(ledger, ledger')
      /\ r \in Written(ledger', x.turn) /\ r \in OfType(ledger', input.type)
  <2>1. ~IsConflict(ledger, input) /\ Store(input)
    BY <1>2 DEF WriteItem
  <2> QED
    BY <1>0, <1>3, <1>5, <2>1, StoreStep DEF IsMine
<1>7. MemoryOK(x, ledger', round.source)
  BY <1>1, <1>6, MemoryGrows
<1>8. WritingOK(x, ledger')
  BY <1>0, <1>7 DEF MemoryOK
<1>9. wrote \subseteq Written(ledger', x.turn) /\ r \in wrote
  BY <1>4, <1>6, <1>8 DEF WritingOK
<1>10. IF x.turn = Author THEN kind = "finalization" ELSE x.turn \in Generators
  BY <1>0, <1>7, <1>8, AskedFacts DEF WritingOK
<1>11. CASE x.todo = {item}
  <2>1. Answered(e, x.turn, "done", wrote)
    BY <1>2, <1>3, <1>4, <1>11 DEF WriteItem
  <2>2. AnswerOK(ledger', round.source, x.turn, "done", wrote)
    <3>1. CASE x.turn = Author
      <4>1. wrote = {r}
        BY <1>4, <1>8, <3>1 DEF WritingOK
      <4>2. input.type = "final_candidate_proposed" /\ round.source = Drafted
        BY <1>5, <1>10, <3>1 DEF IsMine
      <4>3. r \in FinalProposals(ledger') /\ IsFinal(ledger', round.source, r)
        BY <1>6, <3>1, <4>2 DEF FinalProposals, IsFinal
      <4> QED
        BY <1>9, <3>1, <4>1, <4>3 DEF AnswerOK
    <3>2. CASE x.turn # Author
      BY <1>9, <3>2 DEF AnswerOK
    <3> QED
      BY <3>1, <3>2
  <2>3. x.turn \in x.asked
    BY <1>8 DEF WritingOK
  <2> QED
    BY <1>0, <1>6, <2>1, <2>2, <2>3, TurnEndsStep
<1>12. CASE x.todo # {item}
  <2>1. MarksItem(e, exec[e].todo \ {item}, wrote)
    BY <1>2, <1>3, <1>4, <1>12 DEF WriteItem, MarksItem
  <2>2. /\ Only(e) /\ Shaped(y) /\ SameBut({"todo", "wrote"}, x, y)
        /\ y.pc = x.pc /\ y.todo = x.todo \ {item} /\ y.wrote = wrote
    BY <1>0, <2>1, ItemDone
  <2>3. /\ y.stage = x.stage /\ y.requested = x.requested /\ y.policy = x.policy
        /\ y.rec = x.rec /\ y.asked = x.asked /\ y.turn = x.turn
    BY <2>2 DEF SameBut
  <2>4. x.turn # Author
    BY <1>8, <1>12 DEF WritingOK
  <2>5. WritingOK(y, ledger')
    <3>1. y.todo \subseteq Items(y)
      <4>1. kind \in {"extraction", "review", "repair", "evidence", "finalization"}
        BY <1>0, ScenarioFacts DEF RoundKinds
      <4>2. Items(y) = Items(x)
        <5> HIDE DEF x, y
        <5>1. CASE kind \in {"extraction", "repair"}
          BY <2>3, <5>1 DEF Items
        <5>2. CASE kind \in {"review", "evidence"}
          BY <2>3, <5>2 DEF Items
        <5>3. CASE kind = "finalization"
          BY <2>3, <2>4, <5>3 DEF Items
        <5> QED
          BY <4>1, <5>1, <5>2, <5>3
      <4> QED
        BY <1>8, <2>2, <4>2 DEF WritingOK
    <3>2. y.turn \in y.asked /\ y.wrote \subseteq Written(ledger', y.turn) /\ y.turn # Author
      BY <1>8, <1>9, <2>2, <2>3, <2>4 DEF WritingOK
    <3> QED
      BY <3>1, <3>2 DEF WritingOK
  <2>6. MemoryOK(y, ledger', round.source)
    <3> HIDE DEF x, y
    <3> QED
      BY <1>0, <1>7, <2>2, <2>3, <2>5 DEF MemoryOK, StageOf
  <2>7. RecordOK(ledger', round'.source, round')
    BY <1>0, <1>6, RecordGrows DEF RoundInv, RecordInv
  <2>8. SourceStays
    BY <1>0, <1>1, <1>6, SourceGrows DEF SourceStays
  <2> QED
    BY <1>0, <1>1, <1>6, <2>2, <2>6, <2>7, <2>8, ExecStep DEF Owns
<1> QED
  BY <1>11, <1>12

LEMMA AcceptFits ==
  ASSUME RoundInv, NEW e \in Execs, exec[e].pc = "accepting", NEW target \in exec[e].todo
  PROVE  /\ FitsRound(AcceptInput(target)) /\ AcceptInput(target).key # NoKey
         /\ "author" \in DOMAIN AcceptInput(target) /\ AcceptInput(target).author = Author
         /\ AcceptInput(target).type = "proposal_accepted"
         /\ AcceptInput(target).target = target
<1>0. /\ ShapeInv /\ round.status # "none" /\ MemoryOK(exec[e], ledger, round.source)
      /\ SourceOK(ledger, round.source)
  BY ActiveFacts DEF Active, RoundInv
<1>1. kind = "review" /\ target \in Nat
  BY <1>0 DEF MemoryOK, AcceptingOK, SourceOK
<1>2. PICK ev : ev = AcceptInput(target)
  OBVIOUS
<1>3. /\ IsResponse(ev) /\ ev.type = "proposal_accepted" /\ ev.author = Author
      /\ ev.target = target /\ ev.key = ItemKey(Author, target) /\ "author" \in DOMAIN ev
  BY <1>2, ResponseShape DEF AcceptInput
<1>4. ItemKey(Author, target) # NoKey
  BY <1>0, <1>1, KeyIsKey DEF Members
<1>5. IsWork(ledger, round.source, ev)
  BY <1>1, <1>3 DEF IsWork, IsReview
<1>6. FitsRound(ev)
  BY <1>0, <1>1, <1>3, <1>5 DEF FitsRound
<1> QED
  BY <1>2, <1>3, <1>4, <1>6

\* An event that is no challenge leaves the challenges as they are.
LEMMA ChallengesSame ==
  ASSUME NEW l, NEW ev, NEW m, Extends(l, ev, m), ev.type # "proposal_challenged"
  PROVE  \A i : Challenges(m, i) = Challenges(l, i)
<1>1. OfType(m, "proposal_challenged") = OfType(l, "proposal_challenged")
  BY DEF Extends, OfType
<1>2. \A j \in OfType(l, "proposal_challenged") : m[j] = l[j]
  BY DEF Extends, OfType
<1> QED
  BY <1>1, <1>2 DEF Challenges, Lifecycle

LEMMA AcceptItemStep ==
  ASSUME RoundInv, NEW e \in Execs, NEW target \in exec[e].todo, Accept(e, target),
         UNCHANGED scenario
  PROVE  RoundInv'
<1> DEFINE x == exec[e]
           y == exec'[e]
<1>0. /\ x.pc = "accepting" /\ Inside(e) /\ Active(x) /\ ShapeInv /\ WorkInv /\ Owns(e)
      /\ UNCHANGED round
  BY DEF Accept, Inside, Active, RoundInv, TurnInv
<1>1. /\ round.status # "none" /\ MemoryOK(x, ledger, round.source) /\ IsRecord(round)
      /\ SourceOK(ledger, round.source)
  BY <1>0, ActiveFacts
<1>2. PICK input : input = AcceptInput(target)
  OBVIOUS
<1>3. PICK r : r = ReturnedEvent(ledger, input)
  OBVIOUS
<1>4. /\ FitsRound(input) /\ input.key # NoKey /\ "author" \in DOMAIN input
      /\ input.author = Author /\ input.type = "proposal_accepted"
  BY <1>0, <1>2, AcceptFits
<1>5. /\ WorkInv' /\ Grows(ledger, ledger') /\ r \in Written(ledger', Author)
      /\ UNCHANGED ledger \/ Extends(ledger, input, ledger')
  <2>1. ~IsConflict(ledger, input) /\ Store(input)
    BY <1>2 DEF Accept
  <2> QED
    BY <1>0, <1>3, <1>4, <2>1, StoreStep
<1>6. MemoryOK(x, ledger', round.source)
  BY <1>1, <1>5, MemoryGrows
<1>7. MarksItem(e, exec[e].todo \ {target}, exec[e].wrote \cup {r})
  BY <1>2, <1>3 DEF Accept, MarksItem
<1>8. /\ Only(e) /\ Shaped(y) /\ SameBut({"todo", "wrote"}, x, y)
      /\ y.pc = x.pc /\ y.todo = x.todo \ {target} /\ y.wrote = x.wrote \cup {r}
  BY <1>0, <1>7, ItemDone
<1>9. /\ y.stage = x.stage /\ y.requested = x.requested /\ y.policy = x.policy
      /\ y.rec = x.rec /\ y.asked = x.asked /\ y.turn = x.turn
  BY <1>8 DEF SameBut
<1>10. AcceptingOK(y, ledger')
  BY <1>0, <1>5, <1>6, <1>8, <1>9 DEF MemoryOK, AcceptingOK
<1>11. MemoryOK(y, ledger', round.source)
  <2> HIDE DEF x, y
  <2> QED
    BY <1>0, <1>6, <1>8, <1>9, <1>10 DEF MemoryOK, StageOf
<1>12. AcceptOK(y, round', ledger')
  <2>1. \A i : Challenges(ledger', i) = Challenges(ledger, i)
    BY <1>4, <1>5, ChallengesSame
  <2>2. AcceptOK(x, round, ledger)
    BY <1>0 DEF RoundInv, AcceptInv, AcceptOK
  <2> QED
    BY <1>0, <1>8, <1>9, <2>1, <2>2 DEF AcceptOK
<1>13. RecordOK(ledger', round'.source, round')
  BY <1>0, <1>5, RecordGrows DEF RoundInv, RecordInv
<1>14. SourceStays
  BY <1>0, <1>1, <1>5, SourceGrows DEF SourceStays
<1> QED
  BY <1>0, <1>1, <1>5, <1>8, <1>11, <1>12, <1>13, <1>14, ExecStep DEF Owns

\* What other clients append carries no key.
LEMMA HttpStores ==
  ASSUME NEW a, HttpCall(a)
  PROVE  \E ev : Store(ev) /\ FitsRound(ev) /\ ev.key = NoKey /\ ev.author = a
<1>1. ASSUME NEW type \in {"proposal_challenged", "proposal_accepted"}, NEW target,
             Store(ResponseInput(ledger, type, a, NoKey, target))
      PROVE  \E ev : Store(ev) /\ FitsRound(ev) /\ ev.key = NoKey /\ ev.author = a
  <2>1. PICK ev : ev = ResponseInput(ledger, type, a, NoKey, target)
    OBVIOUS
  <2>2. ev.key = NoKey /\ ev.type # "extraction_proposed" /\ ev.author = a
    BY <2>1 DEF ResponseInput
  <2> QED
    BY <1>1, <2>1, <2>2 DEF FitsRound
<1>2. ASSUME NEW names, Store(FinalInput(ledger, a, NoKey, names))
      PROVE  \E ev : Store(ev) /\ FitsRound(ev) /\ ev.key = NoKey /\ ev.author = a
  <2>1. PICK ev : ev = FinalInput(ledger, a, NoKey, names)
    OBVIOUS
  <2>2. ev.key = NoKey /\ ev.type # "extraction_proposed" /\ ev.author = a
    BY <2>1 DEF FinalInput
  <2> QED
    BY <1>2, <2>1, <2>2 DEF FitsRound
<1> QED
  BY <1>1, <1>2 DEF HttpCall, ChallengeProposal, AcceptProposal, ProposeFinalCandidate

LEMMA HttpStep ==
  ASSUME RoundInv, NEW a, HttpCall(a), UNCHANGED scenario
  PROVE  RoundInv'
<1>0. Quiet /\ UNCHANGED <<round, exec, scenario>>
  BY DEF HttpCall
<1>1. PICK ev : Store(ev) /\ FitsRound(ev) /\ ev.key = NoKey /\ ev.author = a
  BY HttpStores
<1>2. WorkInv' /\ Grows(ledger, ledger')
  <2>1. CASE UNCHANGED ledger
    BY <1>0, <2>1, WorkSame, SameGrows DEF RoundInv, SourceStays, WorkInv
  <2>2. CASE IsNew(ledger, ev) /\ Extends(ledger, ev, ledger')
    BY <1>0, <1>1, <2>2, WorkNew, ExtendsGrows DEF RoundInv
  <2> QED
    BY <1>1, <2>1, <2>2, StoreExtends DEF RoundInv, WorkInv
<1>3. ShapeInv' /\ TurnInv'
  BY <1>0 DEF RoundInv, ShapeInv, IsRecord, IsExec, TurnInv, Inside, Owns
<1>4. RecordInv'
  BY <1>0, <1>2, RecordGrows, RecordLater DEF RoundInv, RecordInv
<1>5. MemoryInv'
  <2> SUFFICES ASSUME NEW e \in Execs, Active(exec[e])
               PROVE  round.status # "none" /\ MemoryOK(exec[e], ledger', round.source)
    BY <1>0, MemoryLater DEF MemoryInv, Active
  <2> QED
    BY <1>2, MemoryGrows DEF RoundInv, MemoryInv
<1>6. AcceptInv'
  BY <1>0 DEF AcceptInv, Quiet
<1> QED
  BY <1>2, <1>3, <1>4, <1>5, <1>6 DEF RoundInv

LEMMA StutterStep ==
  ASSUME RoundInv, UNCHANGED roundVars
  PROVE  RoundInv'
<1>0. UNCHANGED <<scenario, ledger, round, exec, crashes>>
  BY DEF roundVars
<1>2. WorkInv'
  BY <1>0, WorkSame DEF RoundInv, SourceStays, WorkInv
<1>3. ShapeInv' /\ TurnInv'
  BY <1>0 DEF RoundInv, ShapeInv, IsRecord, IsExec, TurnInv, Inside, Owns
<1>4. RecordInv'
  BY <1>0, RecordLater DEF RoundInv, RecordInv
<1>5. MemoryInv'
  BY <1>0, MemoryLater DEF RoundInv, MemoryInv, Active
<1>6. AcceptInv'
  BY <1>0 DEF RoundInv, AcceptInv, Challenges, Lifecycle, OfType
<1> QED
  BY <1>2, <1>3, <1>4, <1>5, <1>6 DEF RoundInv

-----------------------------------------------------------------------------
(***************************************************************************)
(* The invariant.                                                          *)
(***************************************************************************)
LEMMA RoundInitOK == RoundInit => RoundInv
<1> SUFFICES ASSUME RoundInit PROVE RoundInv
  OBVIOUS
<1>1. /\ scenario \in Scenarios /\ ledger = scenario.ledger /\ round = NoRecord
      /\ exec = [e \in Execs |-> Idle]
  BY DEF RoundInit
<1>2. /\ IsLog(scenario.ledger) /\ \A i \in DOMAIN scenario.ledger : scenario.ledger[i].key = NoKey
      /\ \A i \in OfType(scenario.ledger, "extraction_proposed") : scenario.ledger[i].objects \in Drafts
  BY <1>1, ScenariosAssumption DEF IsLog
<1>3. round.status = "none"
  BY <1>1 DEF NoRecord
<1>4. ShapeInv
  BY <1>1, IdleShape, NoRecordShape DEF ShapeInv
<1>5. TurnInv /\ MemoryInv /\ AcceptInv
  BY <1>1, IdleShape DEF TurnInv, MemoryInv, AcceptInv, Inside, Active
<1>6. WorkInv
  BY <1>1, <1>2, <1>3 DEF WorkInv, OneEventPerKey, RepairsAsToday
<1>7. RecordInv
  <2>1. /\ NoRecord.events = {} /\ NoRecord.accepted = {} /\ NoRecord.status = "none"
        /\ \A g \in Members : NoRecord.state[g] = "absent" /\ NoRecord.ids[g] = {}
    BY DEF NoRecord
  <2> QED
    BY <1>1, <2>1 DEF RecordInv, RecordOK, Members
<1> QED
  BY <1>4, <1>5, <1>6, <1>7 DEF RoundInv

LEMMA ProceedStep ==
  ASSUME RoundInv, NEW e \in Execs, Proceed(e), UNCHANGED scenario
  PROVE  RoundInv'
<1>1. CASE ContextFails(e)
  BY <1>1, ContextFailsStep
<1>2. CASE Ask(e)
  BY <1>2, AskStep
<1>3. ASSUME NEW g \in exec[e].asked, NEW items \in Answers(e, g), Answer(e, g, items)
      PROVE  RoundInv'
  BY <1>3, AnswerStep
<1>4. ASSUME NEW g \in exec[e].asked, AnswerFails(e, g)
      PROVE  RoundInv'
  BY <1>4, AnswerFailsStep
<1>5. ASSUME NEW item \in exec[e].todo, WriteItem(e, item)
      PROVE  RoundInv'
  BY <1>5, WriteItemStep
<1>6. CASE WriteFails(e)
  BY <1>6, WriteFailsStep
<1>7. CASE MergeUnowned(e)
  BY <1>7, MergeUnownedStep
<1>8. CASE Merge(e)
  BY <1>8, MergeStep
<1>9. ASSUME NEW target \in exec[e].todo, Accept(e, target)
      PROVE  RoundInv'
  BY <1>9, AcceptItemStep
<1>10. ASSUME NEW target \in exec[e].todo, AcceptFails(e, target)
       PROVE  RoundInv'
  BY <1>10, AcceptFailsStep
<1>11. CASE Complete(e)
  BY <1>11, CompleteStep
<1>12. ASSUME NEW status \in {"completed", "failed"}, Compile(e, status)
       PROVE  RoundInv'
  BY <1>12, CompileStep
<1>13. CASE Release(e)
  BY <1>13, ReleaseStep
<1> QED
  BY <1>1, <1>2, <1>3, <1>4, <1>5, <1>6, <1>7, <1>8, <1>9, <1>10, <1>11, <1>12, <1>13 DEF Proceed

LEMMA RoundNextOK == RoundInv /\ [RoundNext]_roundVars => RoundInv'
<1> SUFFICES ASSUME RoundInv, [RoundNext]_roundVars PROVE RoundInv'
  OBVIOUS
<1>1. CASE UNCHANGED roundVars
  BY <1>1, StutterStep
<1>2. CASE RoundStep /\ UNCHANGED scenario
  <2>1. ASSUME NEW e \in Execs, NEW source \in Sources(ledger), NEW requested \in Requests,
               NEW retry \in Retries, NEW policy \in AcceptancePolicies,
               Claim(e, source, requested, retry, policy)
        PROVE  RoundInv'
    BY <1>2, <2>1, ClaimStep
  <2>2. ASSUME NEW e \in Execs, Proceed(e) PROVE RoundInv'
    BY <1>2, <2>2, ProceedStep
  <2>3. CASE Crash
    BY <1>2, <2>3, CrashStep
  <2>4. ASSUME NEW a \in Authors \ Members, HttpCall(a) PROVE RoundInv'
    BY <1>2, <2>4, HttpStep
  <2> QED
    BY <1>2, <2>1, <2>2, <2>3, <2>4 DEF RoundStep
<1> QED
  BY <1>1, <1>2 DEF RoundNext

\* What the theorems below rest on, for a round of any kind: the record, the
\* memories of the executions and the events of the round agree.
THEOREM RoundAgrees == RoundSpec => []RoundInv
<1>1. RoundInit => RoundInv
  BY RoundInitOK
<1>2. RoundInv /\ [RoundNext]_roundVars => RoundInv'
  BY RoundNextOK
<1> QED
  BY <1>1, <1>2, PTL DEF RoundSpec

-----------------------------------------------------------------------------
(***************************************************************************)
(* What follows of the events of the round.                                *)
(***************************************************************************)
LEMMA WrittenNow == \A g : WrittenBy(g) = Written(ledger, g)
BY DEF WrittenBy, Written

LEMMA WrittenIsWork ==
  ASSUME WorkInv, NEW g, NEW i \in Written(ledger, g)
  PROVE  /\ i \in DOMAIN ledger /\ ledger[i].author = g /\ ledger[i].key # NoKey
         /\ round.status # "none" /\ IsWork(ledger, round.source, ledger[i])
BY DEF WorkInv, Written

LEMMA SameKey ==
  ASSUME WorkInv, NEW i \in DOMAIN ledger, NEW j \in DOMAIN ledger,
         ledger[i].key # NoKey, ledger[i].key = ledger[j].key
  PROVE  i = j
BY DEF WorkInv, OneEventPerKey

\* A finalization has one final candidate.
LEMMA OneFinal ==
  ASSUME WorkInv, NEW f, NEW h, IsFinal(ledger, round.source, f), IsFinal(ledger, round.source, h)
  PROVE  f = h
<1>1. CASE round.source # Drafted
  BY <1>1 DEF IsFinal
<1>2. CASE round.source = Drafted
  <2>1. ASSUME NEW k, IsFinal(ledger, round.source, k)
        PROVE  k \in DOMAIN ledger /\ ledger[k].key # NoKey /\ ledger[k].key = ItemKey(Author, Drafted)
    <3>1. k \in Written(ledger, Author) /\ ledger[k].type = "final_candidate_proposed"
      BY <1>2, <2>1 DEF IsFinal, FinalProposals, OfType
    <3>2. IsWork(ledger, round.source, ledger[k]) /\ k \in DOMAIN ledger /\ ledger[k].key # NoKey
      BY <3>1, WrittenIsWork
    <3>3. IsCandidate(round.source, ledger[k])
      BY <3>1, <3>2 DEF IsWork, IsDraft, IsReview, IsResult, IsAudit
    <3> QED
      BY <3>2, <3>3 DEF IsCandidate
  <2> QED
    BY <2>1, SameKey
<1> QED
  BY <1>1, <1>2

\* Where its answer is one event, what a generator wrote for the round is that event.
LEMMA OneAnswer ==
  ASSUME ShapeInv, WorkInv, NEW g \in Generators, NEW i \in Written(ledger, g),
         NEW j \in Written(ledger, g), kind \notin {"review", "evidence"}
  PROVE  i = j
<1>0. Author \notin Generators
  BY ScenarioFacts
<1>1. ASSUME NEW k \in Written(ledger, g)
      PROVE  /\ k \in DOMAIN ledger /\ ledger[k].author = g /\ ledger[k].key # NoKey
             /\ IsDraft(ledger, round.source, ledger[k]) \/ IsAudit(ledger, round.source, ledger[k])
  BY <1>0, <1>1, WrittenIsWork DEF IsWork, IsReview, IsResult, IsCandidate
<1>2. CASE kind \in {"extraction", "repair"}
  <2>1. ASSUME NEW k \in Written(ledger, g)
        PROVE  ledger[k].key = ItemKey(g, IF kind = "repair" THEN round.source ELSE {})
    BY <1>1, <1>2, <2>1 DEF IsDraft, IsAudit
  <2> QED
    BY <1>1, <2>1, SameKey
<1>3. CASE kind \notin {"extraction", "repair"}
  <2>1. ASSUME NEW k \in Written(ledger, g)
        PROVE  ledger[k].key = ItemKey(g, ledger[k].target)
               /\ IsFinal(ledger, round.source, ledger[k].target)
    BY <1>1, <1>3, <2>1 DEF IsDraft, IsAudit, IsResponse
  <2>2. ledger[i].target = ledger[j].target
    BY <2>1, OneFinal
  <2> QED
    BY <1>1, <2>1, <2>2, SameKey
<1> QED
  BY <1>2, <1>3

LEMMA RecordMatches == RoundInv => RecordMatchesLedger
<1> SUFFICES ASSUME RoundInv PROVE RecordMatchesLedger
  OBVIOUS
<1>0. ShapeInv /\ WorkInv /\ RecordOK(ledger, round.source, round)
  BY DEF RoundInv, RecordInv
<1>1. /\ round.events \subseteq UNION {WrittenBy(g) : g \in Generators}
      /\ round.accepted \subseteq WrittenBy(Author)
  BY <1>0, WrittenNow DEF RecordOK
<1>2. ASSUME NEW g \in Generators
      PROVE  /\ round.ids[g] \subseteq round.events \cap WrittenBy(g)
             /\ round.state[g] = "done" /\ kind \notin {"review", "evidence"} =>
                  round.ids[g] # {} /\ WrittenBy(g) \subseteq round.events
  <2>1. round.ids[g] \subseteq round.events \cap Written(ledger, g)
    BY <1>0 DEF RecordOK
  <2>2. ASSUME round.state[g] = "done", kind \notin {"review", "evidence"}
        PROVE  round.ids[g] # {} /\ Written(ledger, g) \subseteq round.events
    <3>1. PICK j : j \in round.ids[g]
      BY <1>0, <2>2 DEF RecordOK
    <3>2. \A i \in Written(ledger, g) : i = j
      BY <1>0, <2>1, <2>2, <3>1, OneAnswer
    <3> QED
      BY <2>1, <3>1, <3>2
  <2> QED
    BY <2>1, <2>2, WrittenNow
<1>3. round.state[Author] = "done" => \E f \in FinalProposals(ledger) : round.ids[Author] = {f}
  BY <1>0 DEF RecordOK
<1>4. ASSUME kind = "finalization", NEW i \in round.events
      PROVE  ledger[i].target \in round.ids[Author]
  <2>1. round.state[Author] = "done"
    BY <1>0, <1>4 DEF RecordOK
  <2>2. PICK f : IsFinal(ledger, round.source, f) /\ round.ids[Author] = {f}
    BY <1>0, <2>1 DEF RecordOK
  <2>3. PICK g \in Generators : i \in Written(ledger, g)
    BY <1>1, WrittenNow
  <2>4. IsWork(ledger, round.source, ledger[i]) /\ ledger[i].author = g
    BY <1>0, <2>3, WrittenIsWork
  <2>5. Author \notin Generators
    BY <1>0, ScenarioFacts
  <2>6. IsFinal(ledger, round.source, ledger[i].target)
    BY <1>4, <2>4, <2>5 DEF IsWork, IsDraft, IsReview, IsResult, IsCandidate, IsAudit
  <2> QED
    BY <1>0, <2>2, <2>6, OneFinal
<1> QED
  BY <1>1, <1>2, <1>3, <1>4 DEF RecordMatchesLedger

(***************************************************************************)
(* However executions, crashes, takeovers and other clients' calls follow  *)
(* one another: what the record lists was written for the round, nothing a *)
(* done generator wrote is missing from it, and audits are of its one      *)
(* final candidate.                                                        *)
(***************************************************************************)
THEOREM RecordTellsTheLedger == RoundSpec => []RecordMatchesLedger
BY RoundAgrees, RecordMatches, PTL

LEMMA NoDuplicates == RoundInv => NoDuplicateWork
<1> SUFFICES ASSUME RoundInv,
                    NEW i \in UNION {WrittenBy(g) : g \in Members},
                    NEW j \in UNION {WrittenBy(g) : g \in Members},
                    ledger[i].author = ledger[j].author, ledger[i].type = ledger[j].type,
                    "target" \in DOMAIN ledger[i] => ledger[i].target = ledger[j].target,
                    "need" \in DOMAIN ledger[i] => ledger[i].need = ledger[j].need
             PROVE  i = j
  BY DEF NoDuplicateWork
<1>0. WorkInv
  BY DEF RoundInv
<1>1. ASSUME NEW k \in UNION {WrittenBy(g) : g \in Members}
      PROVE  /\ k \in DOMAIN ledger /\ ledger[k].key # NoKey
             /\ IsWork(ledger, round.source, ledger[k])
  BY <1>0, <1>1, WrittenNow, WrittenIsWork
<1>2. CASE IsDraft(ledger, round.source, ledger[i])
  <2>1. IsDraft(ledger, round.source, ledger[j])
    BY <1>1, <1>2 DEF IsWork, IsDraft, IsReview, IsResult, IsCandidate, IsAudit
  <2>2. ledger[i].key = ledger[j].key
    BY <1>2, <2>1 DEF IsDraft
  <2> QED
    BY <1>0, <1>1, <2>2, SameKey
<1>3. CASE IsReview(ledger[i])
  <2>1. IsReview(ledger[j])
    BY <1>1, <1>3 DEF IsWork, IsDraft, IsReview, IsResult, IsCandidate, IsAudit
  <2>2. ledger[i].key = ledger[j].key
    BY <1>3, <2>1 DEF IsReview, IsResponse
  <2> QED
    BY <1>0, <1>1, <2>2, SameKey
<1>4. CASE IsResult(ledger[i])
  <2>1. IsResult(ledger[j])
    BY <1>1, <1>4 DEF IsWork, IsDraft, IsReview, IsResult, IsCandidate, IsAudit
  <2>2. ledger[i].key = ledger[j].key
    BY <1>4, <2>1 DEF IsResult
  <2> QED
    BY <1>0, <1>1, <2>2, SameKey
<1>5. CASE IsCandidate(round.source, ledger[i])
  <2>1. IsCandidate(round.source, ledger[j])
    BY <1>1, <1>5 DEF IsWork, IsDraft, IsReview, IsResult, IsCandidate, IsAudit
  <2>2. ledger[i].key = ledger[j].key
    BY <1>5, <2>1 DEF IsCandidate
  <2> QED
    BY <1>0, <1>1, <2>2, SameKey
<1>6. CASE IsAudit(ledger, round.source, ledger[i])
  <2>1. IsAudit(ledger, round.source, ledger[j])
    BY <1>1, <1>6 DEF IsWork, IsDraft, IsReview, IsResult, IsCandidate, IsAudit
  <2>2. ledger[i].key = ledger[j].key
    BY <1>6, <2>1 DEF IsAudit, IsResponse
  <2> QED
    BY <1>0, <1>1, <2>2, SameKey
<1> QED
  BY <1>1, <1>2, <1>3, <1>4, <1>5, <1>6 DEF IsWork

(***************************************************************************)
(* A round that was begun again, taken over or asked to retry has no       *)
(* answer of one generator to one target twice, and no second candidate.   *)
(***************************************************************************)
THEOREM NoWorkTwice == RoundSpec => []NoDuplicateWork
BY RoundAgrees, NoDuplicates, PTL

-----------------------------------------------------------------------------
(***************************************************************************)
(* Answers given again.                                                    *)
(***************************************************************************)
\* The event under an input's key, if there is one, says what the input says.
LEMMA AgainReplays ==
  ASSUME WorkInv, NEW input, input.key # NoKey,
         \A i \in DOMAIN ledger : ledger[i].key = input.key => Repeats(ledger[i], input)
  PROVE  ~IsConflict(ledger, input)
<1>1. CASE IsNew(ledger, input)
  BY <1>1 DEF IsConflict
<1>2. CASE ~IsNew(ledger, input)
  <2>1. PICK i \in DOMAIN ledger : ledger[i].key = input.key
    BY <1>2 DEF IsNew, KeyHolders
  <2> QED
    BY <2>1, RepeatReplays DEF WorkInv, IsConflict
<1> QED
  BY <1>1, <1>2

LEMMA DraftAgain ==
  ASSUME RoundInv, NEW e \in Execs, exec[e].pc = "writing", NEW item \in exec[e].todo,
         \/ kind = "extraction"
         \/ kind = "repair" /\ OfType(ledger, "proposal_accepted") \subseteq DOMAIN scenario.ledger
  PROVE  ~IsConflict(ledger, InputOf(e, item))
<1> DEFINE g == exec[e].turn
<1>0. WorkInv /\ MemoryOK(exec[e], ledger, round.source)
  BY ActiveFacts DEF Active, RoundInv
<1>1. exec[e].rec.source = round.source
  BY <1>0 DEF MemoryOK
<1>2. PICK input : input = InputOf(e, item)
  OBVIOUS
<1>3. PICK x : x = IF kind = "repair" THEN round.source ELSE {}
  OBVIOUS
<1>4. input = ExtractionInput(ledger, g, ItemKey(g, x), DraftOf[g], DraftSources(round.source))
  BY <1>1, <1>2, <1>3 DEF InputOf, DraftInput
<1>5. /\ input.type = "extraction_proposed" /\ input.author = g /\ input.key = ItemKey(g, x)
      /\ DOMAIN input = {"type", "key", "author", "basedOn", "objects", "payloadId"}
      /\ input.objects = DraftOf[g] /\ input.basedOn = DraftSources(round.source)
  BY <1>4 DEF ExtractionInput
<1>6. input.key # NoKey
  BY <1>2, InputFits DEF IsMine
<1>7. ASSUME NEW i \in DOMAIN ledger, ledger[i].key = input.key
      PROVE  Repeats(ledger[i], input)
  <2>1. IsWork(ledger, round.source, ledger[i])
    BY <1>0, <1>6, <1>7 DEF WorkInv
  <2>2. IsDraft(ledger, round.source, ledger[i])
    BY <2>1 DEF IsWork, IsReview, IsResult, IsCandidate, IsAudit
  <2>3. ledger[i].key = ItemKey(ledger[i].author, x)
    BY <1>3, <2>2 DEF IsDraft
  <2>4. ledger[i].author = g
    BY <1>5, <1>7, <2>3 DEF ItemKey
  <2>5. ledger[i].basedOn = DraftSources(round.source)
    <3>1. CASE kind = "extraction"
      BY <2>2, <3>1 DEF IsDraft, DraftSources
    <3>2. CASE kind = "repair"
      BY <1>0, <1>6, <1>7, <3>2 DEF WorkInv, RepairsAsToday
    <3> QED
      BY <3>1, <3>2
  <2>6. /\ ledger[i].type = "extraction_proposed" /\ ledger[i].objects = DraftOf[g]
        /\ DOMAIN ledger[i] = {"type", "key", "author", "basedOn", "objects", "payloadId"}
    BY <2>2, <2>4 DEF IsDraft
  <2> HIDE DEF g
  <2> QED
    BY <1>5, <1>7, <2>4, <2>5, <2>6 DEF Repeats, TypesWithIgnoredPayloadId
<1> QED
  BY <1>0, <1>2, <1>6, <1>7, AgainReplays

LEMMA ChallengeAgain ==
  ASSUME RoundInv, NEW e \in Execs, exec[e].pc = "writing", NEW item \in exec[e].todo,
         kind = "review"
  PROVE  ~IsConflict(ledger, InputOf(e, item))
<1> DEFINE g == exec[e].turn
<1>0. ShapeInv /\ WorkInv /\ MemoryOK(exec[e], ledger, round.source)
  BY ActiveFacts DEF Active, RoundInv
<1>1. g \in exec[e].asked
  BY <1>0 DEF MemoryOK, WritingOK
<1>2. g \in Generators /\ Author \notin Generators
  BY <1>0, <1>1, AskedFacts, ScenarioFacts
<1>3. PICK input : input = InputOf(e, item)
  OBVIOUS
<1>4. input = ResponseInput(ledger, "proposal_challenged", g, ItemKey(g, item), item)
  BY <1>3 DEF InputOf, ChallengeInput
<1>5. /\ input.type = "proposal_challenged" /\ input.author = g /\ input.key = ItemKey(g, item)
      /\ DOMAIN input = {"type", "key", "author", "basedOn", "target", "payloadId"}
      /\ input.target = item /\ input.basedOn = {item}
  BY <1>4 DEF ResponseInput
<1>6. input.key # NoKey
  BY <1>3, InputFits DEF IsMine
<1>7. ASSUME NEW i \in DOMAIN ledger, ledger[i].key = input.key
      PROVE  Repeats(ledger[i], input)
  <2>1. IsWork(ledger, round.source, ledger[i])
    BY <1>0, <1>6, <1>7 DEF WorkInv
  <2>2. IsReview(ledger[i])
    BY <2>1 DEF IsWork, IsDraft, IsResult, IsCandidate, IsAudit
  <2>3. ledger[i].author = g /\ ledger[i].target = item
    BY <1>5, <1>7, <2>2 DEF IsReview, IsResponse, ItemKey
  <2>4. /\ ledger[i].type = "proposal_challenged" /\ ledger[i].basedOn = {item}
        /\ DOMAIN ledger[i] = {"type", "key", "author", "basedOn", "target", "payloadId"}
    BY <1>2, <2>2, <2>3 DEF IsReview, IsResponse
  <2> HIDE DEF g
  <2> QED
    BY <1>5, <1>7, <2>3, <2>4 DEF Repeats, TypesWithIgnoredPayloadId
<1> QED
  BY <1>0, <1>3, <1>6, <1>7, AgainReplays

LEMMA AnswersReplay == RoundInv => SameAnswerReplays
<1> SUFFICES ASSUME RoundInv, NEW e \in Execs, exec[e].pc = "writing",
                    \/ kind \in {"extraction", "review"}
                    \/ /\ kind = "repair"
                       /\ OfType(ledger, "proposal_accepted") \subseteq DOMAIN scenario.ledger,
                    NEW item \in exec[e].todo
             PROVE  ~IsConflict(ledger, InputOf(e, item))
  BY DEF SameAnswerReplays
<1> QED
  BY DraftAgain, ChallengeAgain

(***************************************************************************)
(* A generator that gives its answer again, in a retry or to an execution  *)
(* that took the round over, finds the events it wrote; for a repair, as   *)
(* long as no proposal was accepted meanwhile.                             *)
(***************************************************************************)
THEOREM AnswersFindTheirEvents == RoundSpec => []SameAnswerReplays
BY RoundAgrees, AnswersReplay, PTL

-----------------------------------------------------------------------------
(***************************************************************************)
(* What a step may never do.                                               *)
(***************************************************************************)
(***************************************************************************)
(* Whatever the order of claims, expiries, answers and crashes: an         *)
(* execution appends only while the round's claim is its own.              *)
(***************************************************************************)
THEOREM OnlyOwnersAppend == RoundSpec => AppendedByOwner
<1>1. RoundInv => (\A e \in Execs :
                     exec[e].pc \in {"writing", "accepting"} /\ ledger' # ledger => Owns(e))
  BY DEF RoundInv, TurnInv
<1>2. RoundSpec => [][\A e \in Execs :
        exec[e].pc \in {"writing", "accepting"} /\ ledger' # ledger => Owns(e)]_roundVars
  BY <1>1, RoundAgrees, PTL
<1> QED
  BY <1>2 DEF AppendedByOwner

(***************************************************************************)
(* And a review round accepts when each requested review is recorded, and  *)
(* under a policy that excludes challenged proposals none that anyone had  *)
(* challenged by then.                                                     *)
(***************************************************************************)
THEOREM AcceptancesFollowReviews == RoundSpec => AcceptanceAfterReview
<1> DEFINE A == \A e \in Execs : \A target \in exec[e].todo :
             exec[e].pc = "accepting" /\ Acceptances(ledger', target) # Acceptances(ledger, target) =>
               /\ \A g \in exec[e].requested : round.state[g] = "done"
               /\ exec[e].policy = "unchallenged" => Challenges(ledger, target) = {}
<1>1. RoundInv => A
  BY DEF RoundInv, AcceptInv
<1>2. RoundSpec => [][A]_roundVars
  <2> HIDE DEF A
  <2> QED
    BY <1>1, RoundAgrees, PTL
<1> QED
  BY <1>2 DEF AcceptanceAfterReview
=============================================================================
