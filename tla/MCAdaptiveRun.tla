---------------------------- MODULE MCAdaptiveRun ----------------------------
(***************************************************************************)
(* Instances for TLC: a session without a run, with drafts that share the  *)
(* name of a candidate, one with a need and one with an open objection;    *)
(* and runs, begun anew or where a first extraction round and acceptances  *)
(* left them.                                                              *)
(***************************************************************************)
EXTENDS AdaptiveRun

CONSTANTS a1, g1, g2, c1, c2, m1, n1, o1, k1, w1

Object(name, kind, about) ==
  [name |-> name, kind |-> kind, live |-> TRUE, about |-> about]

Plain == {Object(c1, "candidate", c1)}
Needy == {Object(c1, "candidate", c1), Object(m1, "claim", c1), Object(n1, "need", m1)}
Contested == {Object(c1, "candidate", c1), Object(c2, "candidate", c2),
              Object(o1, "objection", c2)}
Repair == {Object(c2, "candidate", c2)}
Baseless == {Object(n1, "need", m1)}

MCDrafts == {Needy, Contested}
RunDrafts == {Plain}
RunRepairs == {Repair}

NoRounds == [stage \in Stages |-> <<>>]

NoRun == [run |-> FALSE, requests |-> {}, maxEvents |-> MaxEvents,
          ledger |-> <<TopicContract>>, divergence |-> "none", rounds |-> NoRounds]

NewRun(requests, maxEvents) ==
  [NoRun EXCEPT !.run = TRUE, !.requests = requests, !.maxEvents = maxEvents]

Contributed == <<TopicContract,
                 [TopicContract EXCEPT !.type = "sealed_contribution_submitted", !.author = a1],
                 [TopicContract EXCEPT !.type = "sealed_batch_revealed"]>>

\* Extracted and accepted, by a client, without a review.
AcceptedRun(draft, requests, maxEvents) ==
  LET proposed == Append(Contributed, ExtractionInput(Contributed, a1, NoKey, draft, {2}))
  IN  [run |-> TRUE, requests |-> requests, maxEvents |-> maxEvents,
       divergence |-> "revealed",
       ledger |-> Append(proposed, ResponseInput(proposed, "proposal_accepted", a1, NoKey, 4)),
       rounds |-> [NoRounds EXCEPT !["extraction"] =
         <<[NewRound(Initial, Divergence) EXCEPT !.status = "completed", !.events = {4}]>>]]

\* A client proposed a need without its claim, and it was accepted too.
WithBaseless(run) ==
  LET proposed == Append(run.ledger, ExtractionInput(run.ledger, a1, NoKey, Baseless, {1}))
  IN  [run EXCEPT !.ledger =
         Append(proposed, ResponseInput(proposed, "proposal_accepted", a1, NoKey, Len(proposed)))]

\* The suggestions alone; the start requests of the first stages, with round ids of
\* their own; and those of the stages that follow an acceptance.
RunStarts ==
  LET Both == {Initial, Another}
  IN  {NewRun({}, 12), NewRun({"divergence", "extraction", "review"} \X Both, 6)}
        \cup {AcceptedRun(draft, {}, 11) : draft \in {Plain, Needy, Contested}}
        \cup {AcceptedRun(draft, {"repair", "evidence", "finalization"} \X {Initial}, 8) :
                draft \in {Needy, Contested}}
        \cup {AcceptedRun(Plain, {"extraction", "review"} \X Both, 7),
              AcceptedRun(Plain, {"review", "finalization"} \X Both, 6),
              AcceptedRun(Plain, {"review", "finalization"} \X {Initial}, 9),
              WithBaseless(AcceptedRun(Plain, {"evidence"} \X {Initial}, 9))}

MCStarts == {NoRun} \cup RunStarts

Symmetric == Permutations({g1, g2})
=============================================================================
