------------------------------ MODULE SealedRound ------------------------------
(***************************************************************************)
(* runSealedDivergenceRound of packages/orchestrator: executions of one    *)
(* run's sealed divergence round, in one Node process, over the run store  *)
(* and the event ledger.  The record of the round and the ledger are two   *)
(* stores written one after the other; the executions keep working copies  *)
(* of the record; a claim with a time to live keeps them apart; a crash    *)
(* loses the executions and keeps the two stores.                          *)
(*                                                                         *)
(* An execution runs in turns of the event loop:                           *)
(*   first   claim the round, check the budget, open the batch, record     *)
(*           that the participants run, build their inputs;                *)
(*   then    one turn per adapter that answers, throws or times out;       *)
(*   then    merge the results, close the batch, record the outcome;       *)
(*   last    release the claim.                                            *)
(* Nothing else runs inside a turn, but the process may die there, so each *)
(* store write of a turn is a step, and the other actions wait for Quiet.  *)
(***************************************************************************)
EXTENDS SealedDivergence

CONSTANTS Rounds,         \* round ids
          Execs,          \* execution-claim owner ids, reused once released
          NoRound, NoBatch, NoExec,
          Participants,   \* the agents the run assigns to the round
          Runs,           \* the runs, each with its plan and what surrounds it
          MaxCrashes,     \* bound of the crashes
          ClaimsExpire    \* may an execution outlive its claim's time to live?

(***************************************************************************)
(* plan is run.plan.sealedDivergence, callBudget the plan's                *)
(* maxProviderCalls, maxEvents what it leaves after the topic contract;    *)
(* rounds are the rounds asked of the run, payloads what its participants  *)
(* may answer; storeFails says whether an append to the ledger may throw,  *)
(* http whether HTTP clients use the run's batch as well.                  *)
(***************************************************************************)
ASSUME RunsAssumption ==
  \A r \in Runs : /\ r.plan \in Configs /\ r.plan.participants = Participants
                  /\ {r.callBudget, r.maxEvents} \subseteq Nat
                  /\ r.rounds \subseteq Rounds /\ r.payloads \subseteq Payloads
                  /\ {r.storeFails, r.http} \subseteq BOOLEAN
ASSUME LimitsAssumption ==
  /\ Participants # {} /\ IsFiniteSet(Participants)
  /\ MaxCrashes \in Nat /\ ClaimsExpire \in BOOLEAN
ASSUME NamesAssumption == NoRound \notin Rounds /\ NoBatch \notin Batches /\ NoExec \notin Execs

VARIABLES run,       \* the member of Runs
          round,     \* run.sealedDivergenceRound in the run store
          expired,   \* the claim in round is past its expiresAt
          exec,      \* exec[e]: what execution e holds in memory
          crashes,
          called     \* history: adapter calls made, by round

roundVars == <<run, ledger, now, round, expired, exec, crashes, called>>

plan == run.plan

\* createRoundIdempotencyKey; the action of a contribution is its participant's id
\* behind a prefix, which keeps it apart from the other two.
RoundKey(r, action) == <<r, action>>

RoundKeys == {RoundKey(r, x) : r \in Rounds, x \in Participants \cup {"open", "close"}}

ASSUME RoundKeysAssumption ==
  RoundKeys \subseteq Keys /\ {"open", "close"} \cap Participants = {}

Pending == [p \in Participants |-> "pending"]
Unasked == [p \in Participants |-> "none"]

NoRecord == [id |-> NoRound, status |-> "none", batch |-> NoBatch,
             disp |-> Pending, calls |-> 0, claim |-> NoExec]

Idle == [pc |-> "idle", round |-> NoRound, retry |-> FALSE, auto |-> FALSE,
         batch |-> NoBatch, disp |-> Pending, calls |-> 0, res |-> Unasked,
         saw |-> FALSE]

RoundInit == /\ Init
             /\ run \in Runs
             /\ round = NoRecord
             /\ expired = FALSE
             /\ exec = [e \in Execs |-> Idle]
             /\ crashes = 0
             /\ called = [r \in Rounds |-> 0]

\* No execution is inside a turn of the event loop.
Quiet == \A e \in Execs : exec[e].pc \in {"idle", "waiting", "leaving"}

\* assertRoundExecutionClaimOwned, assertCurrentRoundClaimOwner.
Owns(e) == round.id = exec[e].round /\ round.claim = e

Submitted(disp) == {p \in DOMAIN disp : disp[p] = "submitted"}
-----------------------------------------------------------------------------
\* Mutant: whoever takes over starts from an empty record.
Claimed_Afresh(r, e) ==
  [NoRecord EXCEPT !.id = r, !.status = "running", !.claim = e]

(***************************************************************************)
(* acquireRoundExecutionClaim: a round other than the recorded one starts  *)
(* only after that one was revealed; an unexpired claim is respected.      *)
(***************************************************************************)
CanClaim(r) ==
  \/ round.id # r /\ round.status \in {"none", "revealed"}
  \/ /\ round.id = r
     /\ round.status # "revealed"
     /\ round.claim = NoExec \/ expired

Claimed(r, e) ==
  [(IF round.id = r THEN round ELSE NoRecord)
     EXCEPT !.id = r, !.status = "running", !.claim = e]

\* input.autoCloseManual, which only the manual policy reads.
AutoInputs == IF plan.revealPolicy = "manual" THEN BOOLEAN ELSE {FALSE}

Claim(e, r, retry, auto) ==
  /\ Quiet
  /\ exec[e].pc = "idle" /\ e # round.claim
  /\ CanClaim(r)
  /\ round' = Claimed(r, e)
  /\ expired' = FALSE
  /\ exec' = [exec EXCEPT ![e] =
                [Idle EXCEPT !.pc = "claimed", !.round = r, !.retry = retry,
                             !.auto = auto, !.batch = round'.batch,
                             !.disp = round'.disp, !.calls = round'.calls]]
  /\ UNCHANGED <<ledger, now, crashes, called>>

\* getParticipantsToExecute.
ToExecute(e) ==
  {p \in Participants : \/ exec[e].disp[p] \in {"pending", "running"}
                        \/ exec[e].disp[p] = "failed" /\ exec[e].retry}

\* Mutant: one contribution too few, and no look at the clock.
RunnerReveals_Early(e, submitted) ==
  \/ plan.revealPolicy = "all_completed" /\ Participants \subseteq submitted
  \/ plan.revealPolicy = "quorum" /\ Cardinality(submitted) >= plan.quorumCount - 1
  \/ plan.revealPolicy = "deadline"

\* canRevealWithPolicy.
RunnerReveals(e, submitted) ==
  \/ plan.revealPolicy = "all_completed" /\ Participants \subseteq submitted
  \/ plan.revealPolicy = "manual" /\ exec[e].auto /\ Participants \subseteq submitted
  \/ plan.revealPolicy = "quorum" /\ Cardinality(submitted) >= plan.quorumCount
  \/ plan.revealPolicy = "deadline" /\ now >= plan.deadlineAt

\* Mutant: the opening of the batch is not counted.
EstimatedEvents_NoOpening(e) ==
  Cardinality(ToExecute(e))
    + (IF RunnerReveals(e, Submitted(exec[e].disp) \cup ToExecute(e)) THEN 1 ELSE 0)

\* assertBudgetAllowsRound, with canAttemptRevealAfterDispatch.
EstimatedEvents(e) ==
  (IF exec[e].batch = NoBatch THEN 1 ELSE 0)
    + Cardinality(ToExecute(e))
    + (IF RunnerReveals(e, Submitted(exec[e].disp) \cup ToExecute(e)) THEN 1 ELSE 0)

BudgetAllows(e) ==
  /\ exec[e].calls + Cardinality(ToExecute(e)) <= run.callBudget
  /\ Len(ledger) + EstimatedEvents(e) <= run.maxEvents

\* setRoundState and markRunFailed, for the owner of the claim.
SetRound(e, status, batch, disp, calls) ==
  round' = [round EXCEPT !.status = status, !.batch = batch, !.disp = disp,
                         !.calls = calls]

FailRound(e) == SetRound(e, "failed", exec[e].batch, exec[e].disp, exec[e].calls)

GoTo(e, pc) == exec' = [exec EXCEPT ![e].pc = pc]

\* Mutant: the error path ends the execution without the release.
BudgetFails_NoRelease(e) ==
  /\ exec[e].pc = "claimed"
  /\ ~BudgetAllows(e)
  /\ FailRound(e)
  /\ GoTo(e, "idle")
  /\ UNCHANGED <<ledger, now, expired, crashes, called>>

BudgetFails(e) ==
  /\ exec[e].pc = "claimed"
  /\ ~BudgetAllows(e)
  /\ FailRound(e)
  /\ GoTo(e, "leaving")
  /\ UNCHANGED <<ledger, now, expired, crashes, called>>

\* Mutant: the batch is opened without an idempotency key.
OpenBatch_NoKey(e, b) ==
  /\ exec[e].pc = "claimed" /\ exec[e].batch = NoBatch
  /\ BudgetAllows(e)
  /\ OpenSealedBatch(b, plan, NoKey)
  /\ exec' = [exec EXCEPT ![e].pc = "opened", ![e].batch = b]
  /\ UNCHANGED <<round, expired, crashes, called>>

\* openSealedBatch under the round's key: a new batch, or the one that an
\* execution opened before it died.
OpenBatch(e, b) ==
  /\ exec[e].pc = "claimed" /\ exec[e].batch = NoBatch
  /\ BudgetAllows(e)
  /\ LET key == RoundKey(exec[e].round, "open")
         i   == ReturnedEvent(ledger, OpenInput(b, plan, key))
     IN  /\ OpenSealedBatch(b, plan, key)
         /\ ~IsConflict(ledger, OpenInput(b, plan, key))
         /\ exec' = [exec EXCEPT ![e].pc = "opened", ![e].batch = ledger'[i].batch]
  /\ UNCHANGED <<round, expired, crashes, called>>

OpenFails(e) ==
  /\ run.storeFails
  /\ exec[e].pc = "claimed" /\ exec[e].batch = NoBatch
  /\ BudgetAllows(e)
  /\ FailRound(e)
  /\ GoTo(e, "leaving")
  /\ UNCHANGED <<ledger, now, expired, crashes, called>>

\* setRoundState(running) and buildParticipantDispatchInput; saw says whether
\* the participants' context shows contributions of the batch they are asked for.
Dispatch(e) ==
  /\ \/ exec[e].pc = "opened"
     \/ exec[e].pc = "claimed" /\ exec[e].batch # NoBatch /\ BudgetAllows(e)
  /\ LET asked == ToExecute(e)
         disp  == [p \in Participants |->
                     IF p \in asked THEN "running" ELSE exec[e].disp[p]]
         calls == exec[e].calls + Cardinality(asked)
     IN  /\ SetRound(e, "running", exec[e].batch, disp, calls)
         /\ exec' = [exec EXCEPT
              ![e].pc = "waiting", ![e].disp = disp, ![e].calls = calls,
              ![e].res = [p \in Participants |-> IF p \in asked THEN "asked" ELSE "skipped"],
              ![e].saw = \E i \in Contributions(ledger, exec[e].batch) : CanExpose(ledger, i)]
         /\ called' = [called EXCEPT ![exec[e].round] = @ + Cardinality(asked)]
  /\ UNCHANGED <<ledger, now, expired, crashes>>
-----------------------------------------------------------------------------
Awaits(e, p) == Quiet /\ exec[e].pc = "waiting" /\ exec[e].res[p] = "asked"

ResultIs(e, p, result) == exec' = [exec EXCEPT ![e].res[p] = result]

\* What submitSealedContribution accepts from the runner.
CoreAccepts(e, p, payload) ==
  LET b == exec[e].batch
      k == RoundKey(exec[e].round, p)
  IN  /\ CanSubmit(ledger, b, p, k)
      /\ ~IsConflict(ledger, ContributionInput(ledger, b, p, k, payload))

\* The adapter answers in time, and the core takes the contribution.
Answer(e, p, payload) ==
  /\ Awaits(e, p)
  /\ Owns(e)
  /\ CoreAccepts(e, p, payload)
  /\ SubmitSealedContribution(exec[e].batch, p, RoundKey(exec[e].round, p), payload)
  /\ ResultIs(e, p, "submitted")
  /\ UNCHANGED <<round, expired, crashes, called>>

\* Mutant: the error of the submission is swallowed.
AnswerRejected_Swallowed(e, p, payload) ==
  /\ Awaits(e, p)
  /\ ~Owns(e) \/ ~CoreAccepts(e, p, payload) \/ run.storeFails
  /\ ResultIs(e, p, "submitted")
  /\ UNCHANGED <<ledger, now, round, expired, crashes, called>>

\* The adapter answers, but the claim is lost or the core or its store throws.
AnswerRejected(e, p, payload) ==
  /\ Awaits(e, p)
  /\ ~Owns(e) \/ ~CoreAccepts(e, p, payload) \/ run.storeFails
  /\ ResultIs(e, p, "rejected")
  /\ UNCHANGED <<ledger, now, round, expired, crashes, called>>

\* executeAdapterWithTimeout: the adapter throws, or its answer is late.
AdapterFails(e, p) ==
  /\ Awaits(e, p)
  /\ ResultIs(e, p, "failed")
  /\ UNCHANGED <<ledger, now, round, expired, crashes, called>>
-----------------------------------------------------------------------------
\* mergeParticipantResults.
Merged(e) ==
  [p \in Participants |->
     IF exec[e].res[p] = "skipped" THEN exec[e].disp[p]
     ELSE IF exec[e].res[p] = "submitted" THEN "submitted" ELSE "failed"]

\* Mutant: the merge waits for a contribution of everyone.
AllAnswered_NoFailures(e) ==
  /\ Quiet /\ exec[e].pc = "waiting"
  /\ \A p \in Participants : exec[e].res[p] \in {"skipped", "submitted"}

AllAnswered(e) ==
  Quiet /\ exec[e].pc = "waiting" /\ \A p \in Participants : exec[e].res[p] # "asked"

\* Mutant: the record is written without a look at the claim.
WaitInRecord_Unclaimed(e) ==
  /\ AllAnswered(e)
  /\ ~RunnerReveals(e, Submitted(Merged(e)))
  /\ SetRound(e, "waiting_for_participants", exec[e].batch, Merged(e), exec[e].calls)
  /\ exec' = [exec EXCEPT ![e].pc = "leaving", ![e].disp = Merged(e)]
  /\ UNCHANGED <<ledger, now, expired, crashes, called>>

\* The policy does not allow the reveal yet; without the claim nothing is recorded.
WaitInRecord(e) ==
  /\ AllAnswered(e)
  /\ ~RunnerReveals(e, Submitted(Merged(e)))
  /\ IF Owns(e)
       THEN SetRound(e, IF Submitted(Merged(e)) = Participants
                          THEN "waiting_for_reveal" ELSE "waiting_for_participants",
                     exec[e].batch, Merged(e), exec[e].calls)
       ELSE UNCHANGED round
  /\ exec' = [exec EXCEPT ![e].pc = "leaving", ![e].disp = Merged(e)]
  /\ UNCHANGED <<ledger, now, expired, crashes, called>>

DecideReveal(e) ==
  /\ AllAnswered(e)
  /\ RunnerReveals(e, Submitted(Merged(e)))
  /\ exec' = [exec EXCEPT ![e].pc = IF Owns(e) THEN "closing" ELSE "leaving",
                          ![e].disp = Merged(e)]
  /\ UNCHANGED <<ledger, now, round, expired, crashes, called>>

CloseBatch(e) ==
  /\ exec[e].pc = "closing"
  /\ CloseSealedBatch(exec[e].batch, RoundKey(exec[e].round, "close"))
  /\ GoTo(e, "closed")
  /\ UNCHANGED <<round, expired, crashes, called>>

CloseFails(e) ==
  /\ exec[e].pc = "closing"
  /\ ~CanClose(ledger, exec[e].batch, now) \/ run.storeFails
  /\ FailRound(e)
  /\ GoTo(e, "leaving")
  /\ UNCHANGED <<ledger, now, expired, crashes, called>>

RecordReveal(e) ==
  /\ exec[e].pc = "closed"
  /\ SetRound(e, "revealed", exec[e].batch, exec[e].disp, exec[e].calls)
  /\ GoTo(e, "leaving")
  /\ UNCHANGED <<ledger, now, expired, crashes, called>>

\* Mutant: the owner of the claim is not compared.
Release_AnyOwner(e) ==
  /\ Quiet
  /\ exec[e].pc = "leaving"
  /\ round' = [round EXCEPT !.claim = NoExec]
  /\ exec' = [exec EXCEPT ![e] = Idle]
  /\ expired' = FALSE
  /\ UNCHANGED <<ledger, now, crashes, called>>

\* releaseRoundExecutionClaim, after a result and after an error alike.
Release(e) ==
  /\ Quiet
  /\ exec[e].pc = "leaving"
  /\ round' = IF Owns(e) THEN [round EXCEPT !.claim = NoExec] ELSE round
  /\ exec' = [exec EXCEPT ![e] = Idle]
  /\ expired' = (expired /\ ~Owns(e))
  /\ UNCHANGED <<ledger, now, crashes, called>>
-----------------------------------------------------------------------------
ExpireClaim ==
  /\ ClaimsExpire
  /\ Quiet
  /\ round.claim # NoExec /\ ~expired
  /\ expired' = TRUE
  /\ UNCHANGED <<ledger, now, round, exec, crashes, called>>

\* The process dies, in or between turns.  A restarted one finds an old claim
\* that nobody will release.
Crash ==
  /\ crashes < MaxCrashes
  /\ crashes' = crashes + 1
  /\ \E e \in Execs : exec[e].pc # "idle"
  /\ exec' = [e \in Execs |-> Idle]
  /\ UNCHANGED <<ledger, now, round, expired, called>>

\* POST /sessions/:sessionId/batches/:batchId/contributions and .../close.
HttpContribution(b, a, payload) ==
  /\ run.http /\ Quiet
  /\ SubmitSealedContribution(b, a, NoKey, payload)
  /\ UNCHANGED <<round, expired, exec, crashes, called>>

HttpClose(b) ==
  /\ run.http /\ Quiet
  /\ CloseSealedBatch(b, NoKey)
  /\ UNCHANGED <<round, expired, exec, crashes, called>>

\* Only the deadline policy looks at the clock.
Clock == /\ plan.revealPolicy = "deadline"
         /\ Quiet
         /\ Tick
         /\ UNCHANGED <<round, expired, exec, crashes, called>>

FirstTurn(e) == \/ BudgetFails(e)
                \/ \E b \in Batches : OpenBatch(e, b)
                \/ OpenFails(e)
                \/ Dispatch(e)

AdapterTurn(e) == \E p \in Participants :
                    \/ \E payload \in run.payloads : \/ Answer(e, p, payload)
                                                 \/ AnswerRejected(e, p, payload)
                    \/ AdapterFails(e, p)

LastTurns(e) == \/ WaitInRecord(e)
                \/ DecideReveal(e)
                \/ CloseBatch(e)
                \/ CloseFails(e)
                \/ RecordReveal(e)
                \/ Release(e)

Proceed(e) == FirstTurn(e) \/ AdapterTurn(e) \/ LastTurns(e)

RunStep ==
  \/ \E e \in Execs :
       \/ \E r \in run.rounds, retry \in BOOLEAN, auto \in AutoInputs :
            Claim(e, r, retry, auto)
       \/ Proceed(e)
  \/ ExpireClaim
  \/ Crash
  \/ \E b \in Batches : \/ \E a \in Participants, payload \in run.payloads :
                             HttpContribution(b, a, payload)
                        \/ HttpClose(b)
  \/ Clock

\* A run's plan does not change.
RoundNext == RunStep /\ UNCHANGED run

RoundSpec == RoundInit /\ [][RoundNext]_roundVars

\* Node's event loop runs every turn that is ready again and again before other
\* turns starve it, and participantMs makes an adapter that does not answer fail.
FairRoundSpec ==
  /\ RoundSpec
  /\ \A e \in Execs : SF_roundVars(Proceed(e) /\ UNCHANGED run)
-----------------------------------------------------------------------------
\* The record, the second of the two stores to be written, claims nothing the
\* ledger does not hold: a submitted participant's contribution is there, and
\* a revealed round's batch is revealed.
RecordNeverAhead ==
  /\ Submitted(round.disp) \subseteq ContributingAuthors(ledger, round.batch)
  /\ round.status = "revealed" => Revealed(ledger, round.batch) # {}

\* Crashes between the opening and its record, takeovers and follow-up rounds
\* leave a run with one open batch at most.
AtMostOneOpenBatch ==
  \A b, c \in Batches : IsOpen(ledger, b) /\ IsOpen(ledger, c) => b = c

\* A participant whose contribution counts was not shown another contribution
\* of its batch when it was asked, whoever closed or took over the batch since
\* ("participants do not see each other's contributions").
Independence ==
  \A e \in Execs, p \in Participants :
    exec[e].res[p] = "submitted" => ~exec[e].saw

\* All the adapter calls made for a run's one round, those of dead and of evicted
\* executions included, are in its record and within maxProviderCalls.  (A round
\* begun again after another one starts from a new record and counts from zero.)
\* The ledger stays within maxEvents when only the runner writes to it: the
\* estimate made in the first turn covers the last one, in a takeover too.  It
\* does not cover a deadline that comes due in between.
WithinBudgets ==
  /\ \A r \in Rounds :
       run.rounds = {r} => /\ called[r] <= run.callBudget
                           /\ round.id = r => called[r] = round.calls
  /\ plan.revealPolicy # "deadline" /\ ~run.http => Len(ledger) <= run.maxEvents

\* Runner and core judge the reveal policy from two sources, the record and the
\* ledger; when the runner decides to reveal, the core's policy agrees.
PoliciesAgree ==
  \A e \in Execs :
    exec[e].pc = "closing" =>
      PolicyAllows(plan, ContributingAuthors(ledger, exec[e].batch), now)

\* An execution that owns its claim to the end, with an answer from every
\* participant, now or before, leaves an all_completed round revealed
\* (stage18c.test.ts, also for an execution that reclaimed a stale claim).
AnsweredRoundReveals ==
  \A e \in Execs :
    /\ exec[e].pc = "leaving" /\ Owns(e)
    /\ \A p \in Participants :
         \/ exec[e].res[p] \in {"submitted", "rejected"}
         \/ exec[e].res[p] = "skipped" /\ exec[e].disp[p] = "submitted"
    => round.status = "revealed"

\* A revealed record stays as it is until another round begins: an evicted
\* execution that finishes late does not write over it.
RevealedStays ==
  [][round.status = "revealed" /\ round'.id = round.id =>
       [round' EXCEPT !.claim = NoExec] = [round EXCEPT !.claim = NoExec]]_roundVars

\* A running execution loses its claim to another one only after it expired:
\* an evicted execution does not release its successor's claim.
ClaimLostOnlyWhenExpired ==
  [][\A e \in Execs :
       Owns(e) /\ exec[e].pc \notin {"idle", "leaving"} /\ ~expired
         => round'.claim = e]_roundVars

\* While the process lives, every claimed round is released again, whatever the
\* adapters, the core and the stores do.
ClaimReleased == \A e \in Execs : round.claim = e ~> round.claim # e

\* Each execution ends.
ExecutionEnds == \A e \in Execs : exec[e].pc # "idle" ~> exec[e].pc = "idle"
=============================================================================
