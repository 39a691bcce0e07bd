--------------------------- MODULE MCGeneratorRound ---------------------------
(***************************************************************************)
(* An instance of GeneratorRound for TLC.  Two proposals share a candidate;*)
(* one of them brings an open objection, a claim and two needs.            *)
(***************************************************************************)
EXTENDS GeneratorRound, TLC

CONSTANTS a, h, e1, e2, g1, g2, c1, c2, n1, n2, o1, m1

Object(name, type, about) ==
  [name |-> name, kind |-> type, live |-> TRUE, about |-> about]

Draft1 == {Object(c1, "candidate", c1), Object(o1, "objection", c1), Object(m1, "claim", c1),
           Object(n1, "need", m1), Object(n2, "need", m1)}
Draft2 == {Object(c1, "candidate", c1), Object(c2, "candidate", c2)}

MCDrafts == {Draft1, Draft2}
MCDraftOf == [g \in Generators |-> IF g = g1 THEN Draft1 ELSE Draft2]

Contribution == [type |-> "sealed_contribution_submitted", key |-> NoKey, author |-> System,
                 basedOn |-> {}]
Proposal(draft) == [type |-> "extraction_proposed", key |-> NoKey, author |-> System,
                    basedOn |-> {1}, objects |-> draft, payloadId |-> 0]
Acceptance(i) == [type |-> "proposal_accepted", key |-> NoKey, author |-> System,
                  basedOn |-> {i}, target |-> i, payloadId |-> 0]

One == <<TopicContract, Proposal(Draft1)>>
Two == Append(One, Proposal(Draft2))

MCScenarios ==
  {[kind |-> "extraction", ledger |-> <<TopicContract, Contribution>>,
    requests |-> {{g1}, {g1, g2}}, http |-> 0],
   [kind |-> "review", ledger |-> One, requests |-> {{g1, g2}}, http |-> 1],
   [kind |-> "review", ledger |-> Two, requests |-> {{}, {g1}}, http |-> 0],
   [kind |-> "repair", ledger |-> Append(Two, Acceptance(2)), requests |-> {{g1}}, http |-> 1],
   [kind |-> "evidence", ledger |-> Append(One, Acceptance(2)), requests |-> {{g1}}, http |-> 0],
   [kind |-> "finalization", ledger |-> Two, requests |-> {{}, {g1}}, http |-> 1]}

MCSymmetry == Permutations(Execs)
=============================================================================
