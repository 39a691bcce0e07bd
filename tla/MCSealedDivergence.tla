------------------------- MODULE MCSealedDivergence -------------------------
(***************************************************************************)
(* An instance of SealedDivergence for TLC: two participants, one of whom  *)
(* not every batch lists, two batches, and one idempotency key that the    *)
(* callers share.                                                          *)
(***************************************************************************)
EXTENDS SealedDivergence, TLC

CONSTANTS a1, a2

Config(people, policy) ==
  [participants |-> people, revealPolicy |-> policy, quorumCount |-> 1,
   deadlineAt |-> 1]

\* Three lists of participants, two of which leave out an author, and an open one.
MCConfigs == {Config({a1, a2}, "all_completed"), Config({}, "quorum"),
              Config({a1}, "deadline"), Config({a2}, "manual")}

MCSymmetry == Permutations(Batches) \cup Permutations(Payloads)
=============================================================================
