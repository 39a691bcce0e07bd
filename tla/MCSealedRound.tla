---------------------------- MODULE MCSealedRound ----------------------------
(***************************************************************************)
(* Instances of SealedRound for TLC.  The budgets of a run bound the calls *)
(* and the ledger, MaxCrashes the crashes; a batch id more than rounds     *)
(* lets the opening of a batch be retried.                                 *)
(***************************************************************************)
EXTENDS SealedRound, TLC

CONSTANTS p1, p2, r1, x

PlanFor(policy) ==
  [participants |-> {p1, p2}, revealPolicy |-> policy, quorumCount |-> 1,
   deadlineAt |-> 1]

AllPlans == {PlanFor(policy) : policy \in Policies}

\* Runs that only the runner works on, with a store that may fail.
RunnerRuns ==
  {[plan |-> p, callBudget |-> 4, maxEvents |-> n, rounds |-> {r1}, payloads |-> Payloads,
    storeFails |-> TRUE, http |-> FALSE] : p \in AllPlans, n \in {3, 4}}

\* Runs of two rounds whose batches HTTP clients use, too.
HttpRuns ==
  {[plan |-> PlanFor(policy), callBudget |-> 2, maxEvents |-> 20, rounds |-> Rounds,
    payloads |-> {x}, storeFails |-> FALSE, http |-> TRUE] : policy \in {"quorum", "manual"}}

MCRuns == RunnerRuns \cup HttpRuns

\* One all_completed run with room for everything.
ReclaimRuns ==
  {[plan |-> PlanFor("all_completed"), callBudget |-> 4, maxEvents |-> 8, rounds |-> {r1},
    payloads |-> Payloads, storeFails |-> FALSE, http |-> FALSE]}

\* Small runs for liveness.
FairRuns ==
  {[plan |-> p, callBudget |-> 3, maxEvents |-> 4, rounds |-> {r1}, payloads |-> {x},
    storeFails |-> TRUE, http |-> FALSE] : p \in AllPlans}

MCKeys == RoundKeys

MCSymmetry == Permutations(Authors) \cup Permutations(Execs) \cup Permutations(Batches)
=============================================================================
