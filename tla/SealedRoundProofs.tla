--------------------------- MODULE SealedRoundProofs ---------------------------
(***************************************************************************)
(* The sealed batch protocol and its rounds keep their promises for every  *)
(* set of participants, batches, configurations, payloads and keys, and    *)
(* for any number of executions, crashes and expired claims.               *)
(*                                                                         *)
(* The first part is about the protocol alone (Spec).  A round's steps are *)
(* steps of it or leave its ledger alone (RoundRefinesBatches), so that    *)
(* all that holds of batches holds of rounds.  On top of it the invariant  *)
(* RoundInv has one part for each of the round's concerns: who owns the    *)
(* claim, which batch is whose, what record and working copies may say of  *)
(* the ledger, and the budgets.                                            *)
(***************************************************************************)
EXTENDS SealedRound, FiniteSetTheorems, TLAPS

-----------------------------------------------------------------------------
(***************************************************************************)
(* Batches.  The invariant IInv is inductive: the properties need each     *)
(* other, and all of them need that a batch is opened once.  A step        *)
(* appends an admissible event or leaves the ledger alone (StepAppends),   *)
(* so each conjunct is shown to survive the append of an admissible event. *)
(***************************************************************************)
OpenedOnce == \A b \in Batches : \A i, j \in Opened(ledger, b) : i = j

RevealedWasOpened ==
  \A b \in Batches : Revealed(ledger, b) # {} => Opened(ledger, b) # {}

IInv == /\ TypeOK
        /\ OpenedOnce
        /\ RevealedWasOpened
        /\ OneContributionPerAuthor
        /\ RevealIsFinal
        /\ RevealListsBatch
        /\ RevealJustified

\* The events that the three operations append, and what their checks ensure.
AdmissibleOpening(e) ==
  /\ e.type = "sealed_batch_opened"
  /\ \A i \in DOMAIN ledger : ledger[i].batch # e.batch

AdmissibleContribution(e) ==
  /\ e.type = "sealed_contribution_submitted"
  /\ IsOpen(ledger, e.batch)
  /\ \A i \in Contributions(ledger, e.batch) : ledger[i].author # e.author

AdmissibleReveal(e) ==
  /\ e.type = "sealed_batch_revealed"
  /\ CanClose(ledger, e.batch, e.revealedAt)
  /\ e.based = {OpenedEvent(ledger, e.batch)} \cup Contributions(ledger, e.batch)

Admissible(e) ==
  AdmissibleOpening(e) \/ AdmissibleContribution(e) \/ AdmissibleReveal(e)
-----------------------------------------------------------------------------
(***************************************************************************)
(* What an append changes.                                                 *)
(***************************************************************************)
LEMMA AppendedLedger ==
  ASSUME TypeOK, NEW e \in EventType, ledger' = Append(ledger, e)
  PROVE  /\ ledger' \in Seq(EventType)
         /\ DOMAIN ledger' = DOMAIN ledger \cup {Len(ledger) + 1}
         /\ \A i \in DOMAIN ledger : i \in Nat /\ i < Len(ledger) + 1
         /\ \A i \in DOMAIN ledger : ledger'[i] = ledger[i]
         /\ ledger'[Len(ledger) + 1] = e
<1>1. ledger \in Seq(EventType)
  BY DEF TypeOK
<1>2. Len(ledger') = Len(ledger) + 1 /\ ledger' \in Seq(EventType)
  BY <1>1
<1>3. DOMAIN ledger = 1..Len(ledger) /\ DOMAIN ledger' = 1..(Len(ledger) + 1)
  BY <1>1, <1>2
<1>4. \A i \in 1..Len(ledger) : ledger'[i] = ledger[i]
  BY <1>1
<1>5. ledger'[Len(ledger) + 1] = e
  BY <1>1
<1>6. Len(ledger) \in Nat
  BY <1>1
<1> QED
  BY <1>2, <1>3, <1>4, <1>5, <1>6

\* The events of a batch and type are the old ones and, if it is one, the new.
LEMMA OfTypeGrows ==
  ASSUME TypeOK, NEW e \in EventType, ledger' = Append(ledger, e), NEW b, NEW type
  PROVE  OfType(ledger', b, type) =
           OfType(ledger, b, type) \cup
             {i \in {Len(ledger) + 1} : e.batch = b /\ e.type = type}
<1>1. /\ DOMAIN ledger' = DOMAIN ledger \cup {Len(ledger) + 1}
      /\ \A i \in DOMAIN ledger : ledger'[i] = ledger[i]
      /\ ledger'[Len(ledger) + 1] = e
  BY AppendedLedger
<1> QED
  BY <1>1 DEF OfType

LEMMA OfTypeUntouched ==
  ASSUME TypeOK, NEW e \in EventType, ledger' = Append(ledger, e), NEW b, NEW type,
         ~(e.batch = b /\ e.type = type)
  PROVE  OfType(ledger', b, type) = OfType(ledger, b, type)
<1>1. /\ DOMAIN ledger' = DOMAIN ledger \cup {Len(ledger) + 1}
      /\ \A i \in DOMAIN ledger : ledger'[i] = ledger[i]
      /\ ledger'[Len(ledger) + 1] = e
  BY AppendedLedger
<1> QED
  BY <1>1 DEF OfType

LEMMA TypedEvents ==
  ASSUME NEW e \in EventType
  PROVE  /\ e.batch \in Batches
         /\ e.based \subseteq Nat
         /\ e.type \in {"sealed_batch_opened", "sealed_contribution_submitted",
                        "sealed_batch_revealed"}
         /\ e.type = "sealed_batch_opened" => e.author = System /\ e.body \in Configs
         /\ e.type = "sealed_contribution_submitted" => e.author \in Authors
         /\ e.type = "sealed_batch_revealed" => e.revealedAt \in Nat
  BY DEF EventType, EventOf, RevealedEvents

LEMMA OpenedEventIsOpening ==
  ASSUME TypeOK, NEW b \in Batches, IsOpen(ledger, b)
  PROVE  /\ OpenedEvent(ledger, b) \in Opened(ledger, b)
         /\ OpenedEvent(ledger, b) \in Nat
         /\ OpenedBatch(ledger, b) \in Configs
<1>1. OpenedEvent(ledger, b) \in Opened(ledger, b)
  BY DEF IsOpen, OpenedEvent
<1>2. OpenedEvent(ledger, b) \in DOMAIN ledger
      /\ ledger[OpenedEvent(ledger, b)].type = "sealed_batch_opened"
  BY <1>1 DEF Opened, OfType
<1>3. OpenedEvent(ledger, b) \in Nat /\ ledger[OpenedEvent(ledger, b)] \in EventType
  BY <1>2 DEF TypeOK
<1> QED
  BY <1>1, <1>2, <1>3, TypedEvents DEF OpenedBatch
-----------------------------------------------------------------------------
(***************************************************************************)
(* Every step appends an admissible event or leaves the ledger alone.      *)
(***************************************************************************)
LEMMA OpenAppends ==
  ASSUME TypeOK, NEW b \in Batches, NEW cfg \in Configs, NEW k \in Keys \cup {NoKey},
         OpenSealedBatch(b, cfg, k)
  PROVE  \/ ledger' = ledger
         \/ \E e \in EventType : Admissible(e) /\ ledger' = Append(ledger, e)
<1> DEFINE e == OpenInput(b, cfg, k)
<1>1. e \in EventType
  BY DEF OpenInput, EventType, EventOf
<1>2. AdmissibleOpening(e)
  BY DEF OpenSealedBatch, AdmissibleOpening, OpenInput
<1> QED
  BY <1>1, <1>2 DEF OpenSealedBatch, AfterAppend, Admissible

LEMMA SubmitAppends ==
  ASSUME TypeOK, NEW b \in Batches, NEW a \in Authors, NEW k \in Keys \cup {NoKey},
         NEW p \in Payloads, SubmitSealedContribution(b, a, k, p)
  PROVE  \/ ledger' = ledger
         \/ \E e \in EventType : Admissible(e) /\ ledger' = Append(ledger, e)
<1> DEFINE e == ContributionInput(ledger, b, a, k, p)
<1>1. IsOpen(ledger, b) /\ ~IsDuplicate(ledger, b, a, k)
  BY DEF SubmitSealedContribution, CanSubmit
<1>2. OpenedEvent(ledger, b) \in Nat
  BY <1>1, OpenedEventIsOpening
<1>3. e \in EventType
  BY <1>2 DEF ContributionInput, EventType, EventOf
<1>4. ASSUME IsNew(ledger, e) PROVE AdmissibleContribution(e)
  <2>1. \A i \in DOMAIN ledger : k = NoKey \/ ledger[i].key # k
    BY <1>4 DEF IsNew, KeyHolders, ContributionInput
  <2>2. \A i \in Contributions(ledger, b) : ledger[i].author # a
    BY <1>1, <2>1 DEF IsDuplicate, Contributions, OfType
  <2> QED
    BY <1>1, <2>2 DEF AdmissibleContribution, ContributionInput
<1> QED
  BY <1>3, <1>4 DEF SubmitSealedContribution, AfterAppend, Admissible

LEMMA CloseAppends ==
  ASSUME TypeOK, NEW b \in Batches, NEW k \in Keys \cup {NoKey},
         CloseSealedBatch(b, k)
  PROVE  \/ ledger' = ledger
         \/ \E e \in EventType : Admissible(e) /\ ledger' = Append(ledger, e)
<1> DEFINE e == RevealInput(ledger, b, k, now)
<1>1. CanClose(ledger, b, now)
  BY DEF CloseSealedBatch
<1>2. OpenedEvent(ledger, b) \in Nat /\ OpenedBatch(ledger, b) \in Configs
  BY <1>1, OpenedEventIsOpening DEF CanClose
<1>3. Contributions(ledger, b) \subseteq Nat
  BY DEF Contributions, OfType, TypeOK
<1>4. e \in EventType
  BY <1>2, <1>3 DEF RevealInput, EventType, RevealedEvents, TypeOK
<1>5. AdmissibleReveal(e)
  BY <1>1 DEF AdmissibleReveal, RevealInput
<1> QED
  BY <1>4, <1>5 DEF CloseSealedBatch, AfterAppend, Admissible

LEMMA StepAppends ==
  ASSUME TypeOK, [Next]_vars
  PROVE  \/ ledger' = ledger
         \/ \E e \in EventType : Admissible(e) /\ ledger' = Append(ledger, e)
<1>1. CASE Tick
  BY <1>1 DEF Tick
<1>2. CASE UNCHANGED vars
  BY <1>2 DEF vars
<1> QED
  BY <1>1, <1>2, OpenAppends, SubmitAppends, CloseAppends DEF Next
-----------------------------------------------------------------------------
(***************************************************************************)
(* What the append of an admissible event preserves.                       *)
(***************************************************************************)
LEMMA KeepsOpenedOnce ==
  ASSUME TypeOK, OpenedOnce,
         NEW e \in EventType, Admissible(e), ledger' = Append(ledger, e)
  PROVE  OpenedOnce'
<1> SUFFICES ASSUME NEW b \in Batches PROVE \A i, j \in Opened(ledger', b) : i = j
  BY DEF OpenedOnce
<1>1. Opened(ledger', b) = Opened(ledger, b) \cup
        {i \in {Len(ledger) + 1} : e.batch = b /\ e.type = "sealed_batch_opened"}
  BY OfTypeGrows DEF Opened
<1>2. CASE e.batch = b /\ e.type = "sealed_batch_opened"
  <2>1. AdmissibleOpening(e)
    BY <1>2 DEF Admissible, AdmissibleContribution, AdmissibleReveal
  <2>2. Opened(ledger, b) = {}
    BY <1>2, <2>1 DEF AdmissibleOpening, Opened, OfType
  <2> QED
    BY <1>1, <2>2
<1>3. CASE ~(e.batch = b /\ e.type = "sealed_batch_opened")
  BY <1>1, <1>3 DEF OpenedOnce
<1> QED
  BY <1>2, <1>3

LEMMA KeepsOneContribution ==
  ASSUME TypeOK, OneContributionPerAuthor,
         NEW e \in EventType, Admissible(e), ledger' = Append(ledger, e)
  PROVE  OneContributionPerAuthor'
<1> SUFFICES ASSUME NEW b \in Batches,
                    NEW i \in Contributions(ledger', b),
                    NEW j \in Contributions(ledger', b),
                    ledger'[i].author = ledger'[j].author
             PROVE  i = j
  BY DEF OneContributionPerAuthor
<1> DEFINE n == Len(ledger) + 1
<1>1. Contributions(ledger', b) = Contributions(ledger, b) \cup
        {x \in {n} : e.batch = b /\ e.type = "sealed_contribution_submitted"}
  BY OfTypeGrows DEF Contributions
<1>2. ledger'[n] = e /\ \A x \in Contributions(ledger, b) : ledger'[x] = ledger[x]
  BY AppendedLedger DEF Contributions, OfType
<1>3. CASE i \in Contributions(ledger, b) /\ j \in Contributions(ledger, b)
  BY <1>2, <1>3 DEF OneContributionPerAuthor
<1>4. CASE i = n /\ j = n
  BY <1>4
<1>5. ASSUME n \in Contributions(ledger', b), n \notin Contributions(ledger, b)
      PROVE  \A x \in Contributions(ledger, b) : ledger'[x].author # ledger'[n].author
  <2>1. e.batch = b /\ AdmissibleContribution(e)
    BY <1>1, <1>5 DEF Admissible, AdmissibleOpening, AdmissibleReveal
  <2> QED
    BY <1>2, <2>1 DEF AdmissibleContribution
<1> HIDE DEF n
<1> QED
  BY <1>1, <1>3, <1>4, <1>5

LEMMA KeepsRevealIsFinal ==
  ASSUME TypeOK, RevealIsFinal,
         NEW e \in EventType, Admissible(e), ledger' = Append(ledger, e)
  PROVE  RevealIsFinal'
<1> SUFFICES ASSUME NEW b \in Batches, NEW r \in Revealed(ledger', b),
                    NEW i \in DOMAIN ledger', ledger'[i].batch = b
             PROVE  i <= r
  BY DEF RevealIsFinal
<1> DEFINE n == Len(ledger) + 1
<1>1. Revealed(ledger', b) = Revealed(ledger, b) \cup
        {x \in {n} : e.batch = b /\ e.type = "sealed_batch_revealed"}
  BY OfTypeGrows DEF Revealed
<1>2. /\ DOMAIN ledger' = DOMAIN ledger \cup {n}
      /\ ledger'[n] = e
      /\ \A x \in DOMAIN ledger : x \in Nat /\ x < n /\ ledger'[x] = ledger[x]
  BY AppendedLedger
<1>3. n \in Nat
  BY DEF TypeOK
<1>4. CASE r = n
  BY <1>2, <1>3, <1>4
<1>5. CASE r \in Revealed(ledger, b)
  <2>1. CASE i \in DOMAIN ledger
    BY <1>2, <1>5, <2>1 DEF RevealIsFinal
  <2>2. CASE i = n
    <3>1. e.batch = b
      BY <1>2, <2>2
    <3>2. ~IsOpen(ledger, b)
      BY <1>5 DEF IsOpen
    <3>3. AdmissibleOpening(e)
      BY <3>1, <3>2 DEF Admissible, AdmissibleContribution, AdmissibleReveal, CanClose
    <3>4. r \in DOMAIN ledger /\ ledger[r].batch = b
      BY <1>5 DEF Revealed, OfType
    <3> QED
      BY <3>1, <3>3, <3>4 DEF AdmissibleOpening
  <2> QED
    BY <1>2, <2>1, <2>2
<1> QED
  BY <1>1, <1>4, <1>5

\* Once a batch is revealed its events stay as they are.
LEMMA RevealedBatchFrozen ==
  ASSUME TypeOK, NEW e \in EventType, Admissible(e), ledger' = Append(ledger, e),
         NEW b \in Batches, Revealed(ledger, b) # {}
  PROVE  /\ Opened(ledger', b) = Opened(ledger, b)
         /\ Contributions(ledger', b) = Contributions(ledger, b)
         /\ Revealed(ledger', b) = Revealed(ledger, b)
<1>1. e.batch # b
  <2> SUFFICES ASSUME e.batch = b PROVE FALSE
    OBVIOUS
  <2>1. ~IsOpen(ledger, b)
    BY DEF IsOpen
  <2>2. AdmissibleOpening(e)
    BY <2>1 DEF Admissible, AdmissibleContribution, AdmissibleReveal, CanClose
  <2>3. \E r \in DOMAIN ledger : ledger[r].batch = b
    BY DEF Revealed, OfType
  <2> QED
    BY <2>2, <2>3 DEF AdmissibleOpening
<1>2. Opened(ledger', b) = Opened(ledger, b)
  BY <1>1, OfTypeUntouched DEF Opened
<1>3. Contributions(ledger', b) = Contributions(ledger, b)
  BY <1>1, OfTypeUntouched DEF Contributions
<1>4. Revealed(ledger', b) = Revealed(ledger, b)
  BY <1>1, OfTypeUntouched DEF Revealed
<1> QED
  BY <1>2, <1>3, <1>4

\* A new reveal finds its batch open, and the append changes neither the
\* opening nor the contributions it names.
LEMMA NewReveal ==
  ASSUME TypeOK, OpenedOnce,
         NEW e \in EventType, Admissible(e), ledger' = Append(ledger, e),
         NEW b \in Batches, e.batch = b, e.type = "sealed_batch_revealed"
  PROVE  /\ CanClose(ledger, b, e.revealedAt)
         /\ Revealed(ledger, b) = {}
         /\ Opened(ledger', b) = Opened(ledger, b)
         /\ Contributions(ledger', b) = Contributions(ledger, b)
         /\ e.based = Opened(ledger, b) \cup Contributions(ledger, b)
<1>1. AdmissibleReveal(e)
  BY DEF Admissible, AdmissibleOpening, AdmissibleContribution
<1>2. IsOpen(ledger, b)
  BY <1>1 DEF AdmissibleReveal, CanClose
<1>3. Opened(ledger, b) = {OpenedEvent(ledger, b)}
  BY <1>2, OpenedEventIsOpening DEF OpenedOnce
<1>4. Opened(ledger', b) = Opened(ledger, b)
  BY OfTypeUntouched DEF Opened
<1>5. Contributions(ledger', b) = Contributions(ledger, b)
  BY OfTypeUntouched DEF Contributions
<1> QED
  BY <1>1, <1>2, <1>3, <1>4, <1>5 DEF AdmissibleReveal, IsOpen

LEMMA KeepsRevealedWasOpened ==
  ASSUME TypeOK, OpenedOnce, RevealedWasOpened,
         NEW e \in EventType, Admissible(e), ledger' = Append(ledger, e)
  PROVE  RevealedWasOpened'
<1> SUFFICES ASSUME NEW b \in Batches, Revealed(ledger', b) # {}
             PROVE  Opened(ledger', b) # {}
  BY DEF RevealedWasOpened
<1>1. CASE Revealed(ledger, b) # {}
  BY <1>1, RevealedBatchFrozen DEF RevealedWasOpened
<1>2. CASE Revealed(ledger, b) = {}
  <2>1. e.batch = b /\ e.type = "sealed_batch_revealed"
    BY <1>2, OfTypeUntouched DEF Revealed
  <2> QED
    BY <2>1, NewReveal DEF CanClose, IsOpen
<1> QED
  BY <1>1, <1>2

LEMMA KeepsRevealListsBatch ==
  ASSUME TypeOK, OpenedOnce, RevealListsBatch,
         NEW e \in EventType, Admissible(e), ledger' = Append(ledger, e)
  PROVE  RevealListsBatch'
<1> SUFFICES ASSUME NEW b \in Batches, NEW r \in Revealed(ledger', b)
             PROVE  ledger'[r].based = Opened(ledger', b) \cup Contributions(ledger', b)
  BY DEF RevealListsBatch
<1> DEFINE n == Len(ledger) + 1
<1>1. Revealed(ledger', b) = Revealed(ledger, b) \cup
        {x \in {n} : e.batch = b /\ e.type = "sealed_batch_revealed"}
  BY OfTypeGrows DEF Revealed
<1>2. CASE r \in Revealed(ledger, b)
  <2>1. ledger'[r] = ledger[r]
    BY <1>2, AppendedLedger DEF Revealed, OfType
  <2> QED
    BY <1>2, <2>1, RevealedBatchFrozen DEF RevealListsBatch
<1>3. CASE r = n /\ e.batch = b /\ e.type = "sealed_batch_revealed"
  <2>1. ledger'[n] = e
    BY AppendedLedger
  <2> QED
    BY <1>3, <2>1, NewReveal
<1> QED
  BY <1>1, <1>2, <1>3

LEMMA KeepsRevealJustified ==
  ASSUME TypeOK, OpenedOnce, RevealedWasOpened, RevealListsBatch, RevealJustified,
         NEW e \in EventType, Admissible(e), ledger' = Append(ledger, e)
  PROVE  RevealJustified'
<1> DEFINE authors(l, r) == {l[i].author : i \in l[r].based} \ {System}
           n == Len(ledger) + 1
<1> SUFFICES ASSUME NEW b \in Batches, NEW r \in Revealed(ledger', b)
             PROVE  PolicyAllows(OpenedBatch(ledger', b), authors(ledger', r),
                                 ledger'[r].revealedAt)
  BY DEF RevealJustified
<1>1. Revealed(ledger', b) = Revealed(ledger, b) \cup
        {x \in {n} : e.batch = b /\ e.type = "sealed_batch_revealed"}
  BY OfTypeGrows DEF Revealed
<1>2. /\ ledger'[n] = e
      /\ \A i \in DOMAIN ledger : ledger'[i] = ledger[i]
  BY AppendedLedger
<1>3. Opened(ledger, b) \cup Contributions(ledger, b) \subseteq DOMAIN ledger
  BY DEF Opened, Contributions, OfType
<1>4. ASSUME Opened(ledger', b) = Opened(ledger, b), Opened(ledger, b) # {}
      PROVE  OpenedBatch(ledger', b) = OpenedBatch(ledger, b)
  <2>1. OpenedEvent(ledger', b) = OpenedEvent(ledger, b)
    BY <1>4 DEF OpenedEvent
  <2>2. OpenedEvent(ledger, b) \in DOMAIN ledger
    BY <1>3, <1>4 DEF OpenedEvent
  <2> QED
    BY <1>2, <2>1, <2>2 DEF OpenedBatch
<1>5. CASE r \in Revealed(ledger, b)
  <2>1. r \in DOMAIN ledger /\ ledger'[r] = ledger[r]
    BY <1>2, <1>5 DEF Revealed, OfType
  <2>2. ledger[r].based = Opened(ledger, b) \cup Contributions(ledger, b)
    BY <1>5 DEF RevealListsBatch
  <2>3. authors(ledger', r) = authors(ledger, r)
    BY <1>2, <1>3, <2>1, <2>2
  <2>4. OpenedBatch(ledger', b) = OpenedBatch(ledger, b)
    <3>1. Opened(ledger', b) = Opened(ledger, b)
      BY <1>5, RevealedBatchFrozen
    <3>2. Opened(ledger, b) # {}
      BY <1>5 DEF RevealedWasOpened
    <3> QED
      BY <1>4, <3>1, <3>2
  <2>5. PolicyAllows(OpenedBatch(ledger, b), authors(ledger, r), ledger[r].revealedAt)
    BY <1>5 DEF RevealJustified
  <2> QED
    BY <2>1, <2>3, <2>4, <2>5
<1>6. CASE r = n /\ e.batch = b /\ e.type = "sealed_batch_revealed"
  <2>1. /\ CanClose(ledger, b, e.revealedAt)
        /\ Opened(ledger', b) = Opened(ledger, b)
        /\ e.based = Opened(ledger, b) \cup Contributions(ledger, b)
    BY <1>6, NewReveal
  <2>2. OpenedBatch(ledger', b) = OpenedBatch(ledger, b)
    BY <1>4, <2>1 DEF CanClose, IsOpen
  <2>3. authors(ledger', r) = ContributingAuthors(ledger, b)
    <3>1. \A i \in Opened(ledger, b) : ledger[i].author = System
      BY TypedEvents DEF Opened, OfType, TypeOK
    <3>2. \A i \in Contributions(ledger, b) : ledger[i].author # System
      BY TypedEvents, SystemAssumption DEF Contributions, OfType, TypeOK
    <3>3. authors(ledger', r) =
            {ledger[i].author : i \in Opened(ledger, b) \cup Contributions(ledger, b)}
              \ {System}
      BY <1>2, <1>3, <1>6, <2>1
    <3> QED
      BY <3>1, <3>2, <3>3 DEF ContributingAuthors
  <2> QED
    BY <1>2, <1>6, <2>1, <2>2, <2>3 DEF CanClose
<1> QED
  BY <1>1, <1>5, <1>6
-----------------------------------------------------------------------------
LEMMA InitIInv == Init => IInv
<1> SUFFICES ASSUME Init PROVE IInv
  OBVIOUS
<1>1. ledger = <<>> /\ now = 0
  BY DEF Init
<1>2. TypeOK
  BY <1>1 DEF TypeOK
<1>3. \A b, type : OfType(ledger, b, type) = {}
  BY <1>1 DEF OfType
<1>4. \A b : Opened(ledger, b) = {} /\ Contributions(ledger, b) = {}
               /\ Revealed(ledger, b) = {}
  BY <1>3 DEF Opened, Contributions, Revealed
<1> QED
  BY <1>2, <1>4 DEF IInv, OpenedOnce, RevealedWasOpened, OneContributionPerAuthor,
                    RevealIsFinal, RevealListsBatch, RevealJustified

LEMMA NowKeepsType ==
  ASSUME TypeOK, [Next]_vars
  PROVE  now' \in Nat
BY DEF TypeOK, Next, vars, OpenSealedBatch, SubmitSealedContribution,
       CloseSealedBatch, Tick

LEMMA NextIInv ==
  ASSUME IInv, [Next]_vars
  PROVE  IInv'
<1>1. TypeOK /\ now' \in Nat
  BY NowKeepsType DEF IInv
<1>2. CASE ledger' = ledger
  <2>1. TypeOK'
    BY <1>1, <1>2 DEF TypeOK
  <2>2. OpenedOnce' /\ RevealedWasOpened'
    BY <1>2 DEF IInv, OpenedOnce, RevealedWasOpened
  <2>3. OneContributionPerAuthor'
    BY <1>2 DEF IInv, OneContributionPerAuthor
  <2>4. RevealIsFinal'
    BY <1>2 DEF IInv, RevealIsFinal
  <2>5. RevealListsBatch'
    BY <1>2 DEF IInv, RevealListsBatch
  <2>6. RevealJustified'
    BY <1>2 DEF IInv, RevealJustified
  <2> QED
    BY <2>1, <2>2, <2>3, <2>4, <2>5, <2>6 DEF IInv
<1>3. ASSUME NEW e \in EventType, Admissible(e), ledger' = Append(ledger, e)
      PROVE  IInv'
  <2>1. TypeOK'
    BY <1>1, <1>3, AppendedLedger DEF TypeOK
  <2>2. OpenedOnce'
    BY <1>1, <1>3, KeepsOpenedOnce DEF IInv
  <2>3. RevealedWasOpened'
    BY <1>1, <1>3, KeepsRevealedWasOpened DEF IInv
  <2>4. OneContributionPerAuthor'
    BY <1>1, <1>3, KeepsOneContribution DEF IInv
  <2>5. RevealIsFinal'
    BY <1>1, <1>3, KeepsRevealIsFinal DEF IInv
  <2>6. RevealListsBatch'
    BY <1>1, <1>3, KeepsRevealListsBatch DEF IInv
  <2>7. RevealJustified'
    BY <1>1, <1>3, KeepsRevealJustified DEF IInv
  <2> QED
    BY <2>1, <2>2, <2>3, <2>4, <2>5, <2>6, <2>7 DEF IInv
<1> QED
  BY <1>1, <1>2, <1>3, StepAppends

LEMMA IInvAlways == Spec => []IInv
BY InitIInv, NextIInv, PTL DEF Spec

(***************************************************************************)
(* Type correctness of the ledger.                                         *)
(***************************************************************************)
THEOREM TypeCorrect == Spec => []TypeOK
<1>1. IInv => TypeOK
  BY DEF IInv
<1> QED
  BY <1>1, IInvAlways, PTL

(***************************************************************************)
(* No author ever has two contributions in one batch, whatever retries and *)
(* reused idempotency keys submitSealedContribution meets.                 *)
(***************************************************************************)
THEOREM NoDoubleContribution == Spec => []OneContributionPerAuthor
<1>1. IInv => OneContributionPerAuthor
  BY DEF IInv
<1> QED
  BY <1>1, IInvAlways, PTL

(***************************************************************************)
(* closeSealedBatch reveals a batch once and for all: nothing joins it     *)
(* later, and its reveal names exactly its opening and its contributions.  *)
(***************************************************************************)
THEOREM RevealOnceAndWhole == Spec => [](RevealIsFinal /\ RevealListsBatch)
<1>1. IInv => RevealIsFinal /\ RevealListsBatch
  BY DEF IInv
<1> QED
  BY <1>1, IInvAlways, PTL

(***************************************************************************)
(* No batch is revealed that its policy did not allow to reveal, judged by *)
(* the contributions and the time that the reveal itself records.          *)
(***************************************************************************)
THEOREM RevealsAreJustified == Spec => []RevealJustified
<1>1. IInv => RevealJustified
  BY DEF IInv
<1> QED
  BY <1>1, IInvAlways, PTL

(***************************************************************************)
(* Once the context builder exposes one contribution of a batch, no step   *)
(* adds a contribution to that batch: everyone contributed blind.          *)
(***************************************************************************)
THEOREM ExposedBatchIsClosed == Spec => ExposureSealsBatch
<1> DEFINE A == \A b \in Batches :
                  (\E i \in Contributions(ledger, b) : CanExpose(ledger, i))
                    => Contributions(ledger', b) = Contributions(ledger, b)
<1>1. ASSUME IInv, [Next]_vars PROVE A
  <2> SUFFICES ASSUME NEW b \in Batches, NEW i \in Contributions(ledger, b),
                      CanExpose(ledger, i)
               PROVE  Contributions(ledger', b) = Contributions(ledger, b)
    OBVIOUS
  <2>1. Revealed(ledger, b) # {}
    BY DEF CanExpose, Contributions, OfType
  <2>2. TypeOK
    BY <1>1 DEF IInv
  <2>3. CASE ledger' = ledger
    BY <2>3
  <2>4. ASSUME NEW e \in EventType, Admissible(e), ledger' = Append(ledger, e)
        PROVE  Contributions(ledger', b) = Contributions(ledger, b)
    BY <2>1, <2>2, <2>4, RevealedBatchFrozen
  <2> QED
    BY <1>1, <2>2, <2>3, <2>4, StepAppends
<1>2. IInv /\ [Next]_vars => [A]_vars
  BY <1>1
<1>3. Spec => [][A]_vars
  BY <1>2, IInvAlways, PTL DEF Spec
<1> QED
  BY <1>3 DEF ExposureSealsBatch

-----------------------------------------------------------------------------
(***************************************************************************)
(* Rounds.                                                                 *)
(***************************************************************************)
Dispositions == {"pending", "running", "submitted", "failed"}

Results == {"none", "asked", "skipped", "submitted", "rejected", "failed"}

Statuses == {"none", "running", "waiting_for_participants", "waiting_for_reveal",
             "revealed", "failed"}

InTurn == {"claimed", "opened", "closing", "closed"}

RecordType ==
  [id : Rounds \cup {NoRound}, status : Statuses, batch : Batches \cup {NoBatch},
   disp : [Participants -> Dispositions], calls : Nat, claim : Execs \cup {NoExec}]

ExecType ==
  [pc : InTurn \cup {"idle", "waiting", "leaving"}, round : Rounds \cup {NoRound},
   retry : BOOLEAN, auto : BOOLEAN, batch : Batches \cup {NoBatch},
   disp : [Participants -> Dispositions], calls : Nat, res : [Participants -> Results],
   saw : BOOLEAN]

RoundTypeOK ==
  /\ run \in Runs
  /\ round \in RecordType
  /\ expired \in BOOLEAN
  /\ exec \in [Execs -> ExecType]
  /\ crashes \in Nat
  /\ called \in [Rounds -> Nat]

\* An execution inside a turn owns the claim, and an owner that has not ended its
\* work finds the record running.
ClaimInv ==
  /\ round.status = "none" <=> round.id = NoRound
  /\ \A e \in Execs :
       /\ exec[e].pc # "idle" => exec[e].round \in Rounds
       /\ exec[e].pc \in InTurn => Owns(e)
       /\ Owns(e) /\ exec[e].pc \notin {"idle", "leaving"} => round.status = "running"

\* Round r opened batch b.
BatchOf(l, r, b) ==
  \E i \in Opened(l, b) : l[i].key = RoundKey(r, "open")

\* A round's keys name its own events, its batch is the one its key opened, and
\* only the current round has an open batch.
BatchInv ==
  /\ OneEventPerKey(ledger)
  /\ \A i \in DOMAIN ledger :
       ledger[i].type = "sealed_batch_opened" =>
         \E r \in Rounds : ledger[i].key = RoundKey(r, "open")
  /\ \A i \in DOMAIN ledger, r \in Rounds :
       /\ ledger[i].key = RoundKey(r, "open") => ledger[i].type = "sealed_batch_opened"
       /\ ledger[i].key = RoundKey(r, "close") =>
            ledger[i].type = "sealed_batch_revealed" /\ BatchOf(ledger, r, ledger[i].batch)
  /\ round.batch # NoBatch => BatchOf(ledger, round.id, round.batch)
  /\ \A e \in Execs :
       /\ exec[e].batch # NoBatch => BatchOf(ledger, exec[e].round, exec[e].batch)
       /\ exec[e].pc \in {"opened", "waiting", "closing", "closed"} => exec[e].batch # NoBatch
  /\ \A b \in Batches : IsOpen(ledger, b) => BatchOf(ledger, round.id, b)

\* The working copies, like the record, say nothing that the ledger does not hold.
CopyInv ==
  \A e \in Execs :
    /\ Submitted(exec[e].disp) \subseteq ContributingAuthors(ledger, exec[e].batch)
    /\ \A p \in Participants :
         exec[e].res[p] = "submitted" => p \in ContributingAuthors(ledger, exec[e].batch)
    /\ exec[e].pc = "closed" => Revealed(ledger, exec[e].batch) # {}

\* Who was shown a contribution asked too late to add one.
ViewInv ==
  \A e \in Execs :
    exec[e].saw => /\ Revealed(ledger, exec[e].batch) # {}
                   /\ \A p \in Participants : exec[e].res[p] # "submitted"

\* The calls of the record are the calls made, and what an execution may still
\* call is budgeted.
CallsInv ==
  /\ round.id = NoRound => round.calls = 0 /\ \A r \in Rounds : called[r] = 0
  /\ round.id \in Rounds => round.id \in run.rounds
  /\ \A r \in Rounds :
       run.rounds = {r} => /\ called[r] <= run.callBudget
                           /\ round.id = r => called[r] = round.calls
  /\ \A e \in Execs :
       /\ Owns(e) /\ exec[e].pc \notin {"idle", "leaving"} => exec[e].calls = round.calls
       /\ exec[e].pc = "opened" =>
            exec[e].calls + Cardinality(ToExecute(e)) <= run.callBudget

\* Participants that execution e has asked, and those whose answer is still to come.
AskedBy(e) == {p \in Participants : exec[e].res[p] # "skipped"}

AwaitedBy(e) == {p \in Participants : exec[e].res[p] = "asked"}

One(condition) == IF condition THEN 1 ELSE 0

\* The events that the owner of the claim may still append are within the budget.
EventsInv ==
  plan.revealPolicy # "deadline" /\ ~run.http =>
    /\ Len(ledger) <= run.maxEvents
    /\ \A e \in Execs : Owns(e) =>
         /\ exec[e].pc = "opened" =>
              Len(ledger) + Cardinality(ToExecute(e))
                + One(RunnerReveals(e, Submitted(exec[e].disp) \cup ToExecute(e)))
                <= run.maxEvents
         /\ exec[e].pc = "waiting" =>
              Len(ledger) + Cardinality(AwaitedBy(e))
                + One(RunnerReveals(e, Submitted(exec[e].disp) \cup AskedBy(e)))
                <= run.maxEvents
         /\ exec[e].pc = "closing" => Len(ledger) + 1 <= run.maxEvents

RoundInv == /\ IInv
            /\ RoundTypeOK
            /\ ClaimInv
            /\ BatchInv
            /\ RecordNeverAhead
            /\ CopyInv
            /\ PoliciesAgree
            /\ ViewInv
            /\ CallsInv
            /\ EventsInv
-----------------------------------------------------------------------------
(***************************************************************************)
(* What each action changes, field by field.                               *)
(***************************************************************************)
\* Execution e goes on with these values, its round and options stay, and the
\* other executions do nothing.
Moves(e, pc, batch, disp, calls, res, saw) ==
  /\ exec' \in [Execs -> ExecType]
  /\ exec'[e].pc = pc /\ exec'[e].batch = batch /\ exec'[e].disp = disp
  /\ exec'[e].calls = calls /\ exec'[e].res = res /\ exec'[e].saw = saw
  /\ exec'[e].round = exec[e].round
  /\ exec'[e].retry = exec[e].retry /\ exec'[e].auto = exec[e].auto
  /\ \A f \in Execs \ {e} : exec'[f] = exec[f]

MovesTo(e, pc) ==
  Moves(e, pc, exec[e].batch, exec[e].disp, exec[e].calls, exec[e].res, exec[e].saw)

\* The record of the same round and claim is written.
Writes(status, batch, disp, calls) ==
  /\ round' \in RecordType
  /\ round'.id = round.id /\ round'.claim = round.claim
  /\ round'.status = status /\ round'.batch = batch
  /\ round'.disp = disp /\ round'.calls = calls

LEMMA RunFacts ==
  ASSUME run \in Runs
  PROVE  /\ plan \in Configs /\ plan \in BatchConfig
         /\ plan.participants = Participants /\ Participants \subseteq Authors
         /\ run.payloads \subseteq Payloads /\ run.rounds \subseteq Rounds
         /\ run.callBudget \in Nat /\ run.maxEvents \in Nat
<1>1. plan \in Configs /\ plan \in BatchConfig /\ plan.participants = Participants
  BY RunsAssumption, ConfigsAssumption DEF plan
<1>2. Participants \subseteq Authors
  BY <1>1 DEF BatchConfig
<1> QED
  BY <1>1, <1>2, RunsAssumption

LEMMA KeyFacts ==
  ASSUME NEW r \in Rounds, NEW x \in Participants \cup {"open", "close"}
  PROVE  RoundKey(r, x) \in Keys /\ RoundKey(r, x) # NoKey
  BY RoundKeysAssumption, KeysAssumption DEF RoundKeys

LEMMA KeysDiffer ==
  ASSUME NEW r, NEW s, NEW x, NEW y, RoundKey(r, x) = RoundKey(s, y)
  PROVE  r = s /\ x = y
  BY DEF RoundKey

LEMMA FailWrites ==
  ASSUME RoundTypeOK, NEW e \in Execs, FailRound(e)
  PROVE  Writes("failed", exec[e].batch, exec[e].disp, exec[e].calls)
  BY DEF RoundTypeOK, FailRound, SetRound, Writes, RecordType, ExecType, Statuses

LEMMA SetWrites ==
  ASSUME RoundTypeOK, NEW e \in Execs, NEW status \in Statuses,
         NEW batch \in Batches \cup {NoBatch}, NEW disp \in [Participants -> Dispositions],
         NEW calls \in Nat, SetRound(e, status, batch, disp, calls)
  PROVE  Writes(status, batch, disp, calls)
  BY DEF RoundTypeOK, SetRound, Writes, RecordType

LEMMA GoToMoves ==
  ASSUME RoundTypeOK, NEW e \in Execs,
         NEW pc \in InTurn \cup {"idle", "waiting", "leaving"}, GoTo(e, pc)
  PROVE  MovesTo(e, pc)
  BY DEF RoundTypeOK, GoTo, MovesTo, Moves, ExecType

LEMMA ResultMoves ==
  ASSUME RoundTypeOK, NEW e \in Execs, NEW p \in Participants, NEW result \in Results,
         ResultIs(e, p, result)
  PROVE  Moves(e, exec[e].pc, exec[e].batch, exec[e].disp, exec[e].calls,
               [exec[e].res EXCEPT ![p] = result], exec[e].saw)
  BY DEF RoundTypeOK, ResultIs, Moves, ExecType

LEMMA OpenMoves ==
  ASSUME RoundTypeOK, NEW e \in Execs, NEW batch \in Batches,
         exec' = [exec EXCEPT ![e].pc = "opened", ![e].batch = batch]
  PROVE  Moves(e, "opened", batch, exec[e].disp, exec[e].calls, exec[e].res, exec[e].saw)
  BY DEF RoundTypeOK, Moves, ExecType, InTurn

LEMMA MergeMoves ==
  ASSUME RoundTypeOK, NEW e \in Execs, NEW pc \in InTurn \cup {"leaving"},
         exec' = [exec EXCEPT ![e].pc = pc, ![e].disp = Merged(e)]
  PROVE  /\ Merged(e) \in [Participants -> Dispositions]
         /\ Moves(e, pc, exec[e].batch, Merged(e), exec[e].calls, exec[e].res, exec[e].saw)
<1>1. Merged(e) \in [Participants -> Dispositions]
  BY DEF RoundTypeOK, Merged, ExecType, Dispositions
<1> QED
  BY <1>1 DEF RoundTypeOK, Moves, ExecType

LEMMA AskedCount ==
  ASSUME NEW S \in SUBSET Participants
  PROVE  IsFiniteSet(S) /\ Cardinality(S) \in Nat
  BY LimitsAssumption, FS_Subset, FS_CardinalityType

\* The participants asked by a dispatch, its new dispositions and results.
DispatchDisp(e) ==
  [p \in Participants |-> IF p \in ToExecute(e) THEN "running" ELSE exec[e].disp[p]]

DispatchRes(e) ==
  [p \in Participants |-> IF p \in ToExecute(e) THEN "asked" ELSE "skipped"]

LEMMA DispatchChanges ==
  ASSUME RoundTypeOK, NEW e \in Execs, Dispatch(e)
  PROVE  LET calls == exec[e].calls + Cardinality(ToExecute(e))
         IN  /\ calls \in Nat
             /\ DispatchDisp(e) \in [Participants -> Dispositions]
             /\ DispatchRes(e) \in [Participants -> Results]
             /\ Writes("running", exec[e].batch, DispatchDisp(e), calls)
             /\ Moves(e, "waiting", exec[e].batch, DispatchDisp(e), calls, DispatchRes(e),
                      \E i \in Contributions(ledger, exec[e].batch) : CanExpose(ledger, i))
             /\ called' = [called EXCEPT ![exec[e].round] = @ + Cardinality(ToExecute(e))]
<1> DEFINE calls == exec[e].calls + Cardinality(ToExecute(e))
           saw == \E i \in Contributions(ledger, exec[e].batch) : CanExpose(ledger, i)
<1>1. exec \in [Execs -> ExecType] /\ exec[e] \in ExecType /\ round \in RecordType
  BY DEF RoundTypeOK
<1>2. Cardinality(ToExecute(e)) \in Nat
  BY AskedCount DEF ToExecute
<1>3. calls \in Nat
  BY <1>1, <1>2 DEF ExecType
<1>4. DispatchDisp(e) \in [Participants -> Dispositions]
  BY <1>1 DEF DispatchDisp, ExecType, Dispositions
<1>5. DispatchRes(e) \in [Participants -> Results]
  BY DEF DispatchRes, Results
<1>6. saw \in BOOLEAN
  OBVIOUS
<1>7. /\ SetRound(e, "running", exec[e].batch, DispatchDisp(e), calls)
      /\ exec' = [exec EXCEPT ![e].pc = "waiting", ![e].disp = DispatchDisp(e),
                              ![e].calls = calls, ![e].res = DispatchRes(e), ![e].saw = saw]
      /\ called' = [called EXCEPT ![exec[e].round] = @ + Cardinality(ToExecute(e))]
  BY DEF Dispatch, DispatchDisp, DispatchRes
<1>8. exec[e].batch \in Batches \cup {NoBatch}
  BY <1>1 DEF ExecType
<1> HIDE DEF calls, saw
<1>9. Writes("running", exec[e].batch, DispatchDisp(e), calls)
  BY <1>3, <1>4, <1>7, <1>8, SetWrites DEF Statuses
<1>10. Moves(e, "waiting", exec[e].batch, DispatchDisp(e), calls, DispatchRes(e), saw)
  BY <1>1, <1>3, <1>4, <1>5, <1>6, <1>7 DEF Moves, ExecType
<1> QED
  BY <1>3, <1>4, <1>5, <1>7, <1>9, <1>10 DEF calls, saw

Claims(e, r) ==
  \E retry \in BOOLEAN, auto \in AutoInputs : Claim(e, r, retry, auto)

\* What a claim makes of the record, and of the rest of the state.
LEMMA ClaimedRecord ==
  ASSUME RoundTypeOK, NEW e \in Execs, NEW r \in run.rounds, Claims(e, r)
  PROVE  /\ round' \in RecordType /\ round'.status = "running"
         /\ round.id = r => /\ round'.batch = round.batch
                            /\ round'.disp = round.disp /\ round'.calls = round.calls
         /\ round.id # r => /\ round'.batch = NoBatch
                            /\ round'.disp = Pending /\ round'.calls = 0
<1>1. PICK retry \in BOOLEAN, auto \in AutoInputs : Claim(e, r, retry, auto)
  BY DEF Claims
<1>2. round \in RecordType /\ NoRecord \in RecordType /\ r \in Rounds
  BY RunFacts DEF RoundTypeOK, NoRecord, RecordType, Pending, Dispositions, Statuses
<1>3. /\ round' \in RecordType /\ round'.status = "running"
      /\ round.id = r => /\ round'.batch = round.batch
                         /\ round'.disp = round.disp /\ round'.calls = round.calls
  BY <1>1, <1>2 DEF Claim, Claimed, RecordType, Statuses
<1>4. round.id # r => /\ round'.batch = NoBatch
                      /\ round'.disp = Pending /\ round'.calls = 0
  BY <1>1 DEF Claim, Claimed, NoRecord
<1> QED
  BY <1>3, <1>4

LEMMA ClaimChanges ==
  ASSUME RoundTypeOK, NEW e \in Execs, NEW r \in run.rounds, Claims(e, r)
  PROVE  /\ CanClaim(r) /\ Quiet /\ e # round.claim /\ expired' = FALSE
         /\ UNCHANGED <<ledger, now, crashes, called>>
         /\ r \in Rounds
         /\ round' \in RecordType
         /\ round'.id = r /\ round'.status = "running" /\ round'.claim = e
         /\ round.id = r => /\ round'.batch = round.batch
                            /\ round'.disp = round.disp /\ round'.calls = round.calls
         /\ round.id # r => /\ round'.batch = NoBatch
                            /\ round'.disp = Pending /\ round'.calls = 0
         /\ exec[e].pc = "idle" /\ exec' \in [Execs -> ExecType]
         /\ exec'[e].pc = "claimed" /\ exec'[e].round = r
         /\ exec'[e].batch = round'.batch
         /\ exec'[e].disp = round'.disp /\ exec'[e].calls = round'.calls
         /\ exec'[e].res = Unasked /\ exec'[e].saw = FALSE
         /\ \A f \in Execs \ {e} : exec'[f] = exec[f]
<1>0. PICK retry \in BOOLEAN, auto \in AutoInputs : Claim(e, r, retry, auto)
  BY DEF Claims
<1>1. round \in RecordType /\ exec \in [Execs -> ExecType]
  BY DEF RoundTypeOK
<1>2. NoRecord \in RecordType /\ r \in Rounds /\ auto \in BOOLEAN
  BY RunFacts DEF NoRecord, RecordType, Pending, Dispositions, Statuses, AutoInputs, RoundTypeOK
<1>3. round'.id = r /\ round'.claim = e
  BY <1>0, <1>1, <1>2 DEF Claim, Claimed, RecordType
<1>4. /\ round' \in RecordType /\ round'.status = "running"
      /\ round.id = r => /\ round'.batch = round.batch
                         /\ round'.disp = round.disp /\ round'.calls = round.calls
      /\ round.id # r => /\ round'.batch = NoBatch
                         /\ round'.disp = Pending /\ round'.calls = 0
  BY ClaimedRecord
<1> DEFINE new == [Idle EXCEPT !.pc = "claimed", !.round = r, !.retry = retry, !.auto = auto,
                       !.batch = round'.batch, !.disp = round'.disp, !.calls = round'.calls]
<1>5. /\ new \in ExecType /\ new.pc = "claimed" /\ new.round = r
      /\ new.batch = round'.batch /\ new.disp = round'.disp
      /\ new.calls = round'.calls /\ new.res = Unasked /\ new.saw = FALSE
  <2>1. Unasked \in [Participants -> Results]
    BY DEF Unasked, Results
  <2> QED
    BY <1>2, <1>4, <2>1 DEF Idle, ExecType, RecordType, InTurn
<1>6. exec' = [exec EXCEPT ![e] = new] /\ exec[e].pc = "idle"
  BY <1>0 DEF Claim
<1>7. /\ CanClaim(r) /\ Quiet /\ e # round.claim /\ expired' = FALSE
      /\ UNCHANGED <<ledger, now, crashes, called>>
  BY <1>0 DEF Claim
<1> HIDE DEF new
<1> QED
  BY <1>1, <1>2, <1>3, <1>4, <1>5, <1>6, <1>7

LEMMA ReleaseChanges ==
  ASSUME RoundTypeOK, NEW e \in Execs, Release(e)
  PROVE  /\ round' \in RecordType
         /\ round'.id = round.id /\ round'.status = round.status
         /\ round'.batch = round.batch /\ round'.disp = round.disp
         /\ round'.calls = round.calls
         /\ round'.claim = IF Owns(e) THEN NoExec ELSE round.claim
         /\ exec[e].pc = "leaving" /\ exec'[e] = Idle
         /\ \A f \in Execs \ {e} : exec'[f] = exec[f]
<1>1. round \in RecordType /\ exec \in [Execs -> ExecType]
  BY DEF RoundTypeOK
<1>2. CASE Owns(e)
  <2>1. round' = [round EXCEPT !.claim = NoExec]
    BY <1>2 DEF Release
  <2> QED
    BY <1>1, <1>2, <2>1 DEF Release, RecordType
<1>3. CASE ~Owns(e)
  BY <1>1, <1>3 DEF Release
<1> QED
  BY <1>2, <1>3

-----------------------------------------------------------------------------
(***************************************************************************)
(* Types, and the steps of a round as steps of the batch protocol.         *)
(***************************************************************************)
LEMMA Types ==
  ASSUME RoundTypeOK, ClaimInv, TypeOK, RoundNext
  PROVE  RoundTypeOK'
<1>0. /\ run' \in Runs /\ run \in Runs
      /\ round \in RecordType /\ exec \in [Execs -> ExecType]
      /\ expired \in BOOLEAN /\ crashes \in Nat /\ called \in [Rounds -> Nat]
  BY DEF RoundNext, RoundTypeOK
<1> DEFINE OneMove(e) ==
      exec' \in [Execs -> ExecType] /\ round' \in RecordType
        /\ UNCHANGED <<expired, crashes, called>>
<1>f. ASSUME NEW e \in Execs, OneMove(e) PROVE RoundTypeOK'
  BY <1>0, <1>f DEF RoundTypeOK
<1>1. ASSUME NEW e \in Execs, NEW r \in run.rounds, Claims(e, r) PROVE RoundTypeOK'
  <2>1. /\ round' \in RecordType /\ exec' \in [Execs -> ExecType] /\ expired' = FALSE
        /\ crashes' = crashes /\ called' = called
    BY <1>1, ClaimChanges
  <2> QED
    BY <1>0, <2>1 DEF RoundTypeOK
<1>2. ASSUME NEW e \in Execs, BudgetFails(e) \/ OpenFails(e) \/ CloseFails(e)
      PROVE  RoundTypeOK'
  <2>1. FailRound(e) /\ GoTo(e, "leaving") /\ UNCHANGED <<expired, crashes, called>>
    BY <1>2 DEF BudgetFails, OpenFails, CloseFails
  <2> QED
    BY <1>f, <2>1, FailWrites, GoToMoves DEF Writes, MovesTo, Moves
<1>3. ASSUME NEW e \in Execs, NEW b \in Batches, OpenBatch(e, b) PROVE RoundTypeOK'
  <2> DEFINE input == OpenInput(b, plan, RoundKey(exec[e].round, "open"))
             i == ReturnedEvent(ledger, input)
  <2>1. exec[e].round \in Rounds /\ plan \in Configs
    BY <1>0, <1>3, RunFacts DEF ClaimInv, OpenBatch
  <2>2. ledger' = AfterAppend(ledger, input) /\ ~IsConflict(ledger, input)
    BY <1>3 DEF OpenBatch, OpenSealedBatch
  <2>3. ledger'[i].batch \in Batches
    <3>1. CASE IsNew(ledger, input)
      <4>1. i = Len(ledger) + 1 /\ ledger' = Append(ledger, input)
        BY <2>2, <3>1 DEF ReturnedEvent, AfterAppend
      <4>2. ledger'[i] = input
        BY <4>1 DEF TypeOK
      <4> QED
        BY <4>2 DEF OpenInput
    <3>2. CASE ~IsNew(ledger, input)
      <4>1. i \in Replays(ledger, input) /\ ledger' = ledger
        BY <2>2, <3>2 DEF ReturnedEvent, AfterAppend, IsConflict, IsReplay
      <4>2. i \in DOMAIN ledger
        BY <4>1 DEF Replays, KeyHolders
      <4>3. ledger[i] \in EventType
        BY <4>2 DEF TypeOK
      <4> QED
        BY <4>1, <4>3, TypedEvents
    <3> QED
      BY <3>1, <3>2
  <2>4. exec' = [exec EXCEPT ![e].pc = "opened", ![e].batch = ledger'[i].batch]
        /\ UNCHANGED <<round, expired, crashes, called>>
    BY <1>3 DEF OpenBatch
  <2> HIDE DEF i
  <2>5. exec' \in [Execs -> ExecType]
    BY <2>3, <2>4, OpenMoves DEF Moves
  <2> QED
    BY <1>0, <1>f, <2>4, <2>5
<1>4. ASSUME NEW e \in Execs, Dispatch(e) PROVE RoundTypeOK'
  <2>1. Cardinality(ToExecute(e)) \in Nat
    BY AskedCount DEF ToExecute
  <2>2. called' = [called EXCEPT ![exec[e].round] = @ + Cardinality(ToExecute(e))]
    BY <1>4, DispatchChanges
  <2>3. called' \in [Rounds -> Nat]
    <3>1. exec[e].round \in Rounds /\ called[exec[e].round] \in Nat
      BY <1>0, <1>4 DEF Dispatch, ClaimInv
    <3>2. called[exec[e].round] + Cardinality(ToExecute(e)) \in Nat
      BY <2>1, <3>1
    <3> QED
      BY <1>0, <2>2, <3>2
  <2>4. exec' \in [Execs -> ExecType] /\ round' \in RecordType
    BY <1>4, DispatchChanges DEF Writes, Moves
  <2> QED
    BY <1>0, <1>4, <2>3, <2>4 DEF RoundTypeOK, Dispatch
<1>5. ASSUME NEW e \in Execs, AdapterTurn(e) PROVE RoundTypeOK'
  <2>1. PICK p \in Participants :
          \/ \E payload \in run.payloads : Answer(e, p, payload) \/ AnswerRejected(e, p, payload)
          \/ AdapterFails(e, p)
    BY <1>5 DEF AdapterTurn
  <2>2. /\ \E result \in Results : ResultIs(e, p, result)
        /\ UNCHANGED <<round, expired, crashes, called>>
    BY <2>1 DEF Answer, AnswerRejected, AdapterFails, Results
  <2> QED
    BY <1>0, <1>f, <2>2, ResultMoves DEF Moves
<1>6. ASSUME NEW e \in Execs, WaitInRecord(e) PROVE RoundTypeOK'
  <2>1. Merged(e) \in [Participants -> Dispositions] /\ exec' \in [Execs -> ExecType]
    BY <1>6, MergeMoves DEF WaitInRecord, Moves
  <2>2. exec[e].batch \in Batches \cup {NoBatch} /\ exec[e].calls \in Nat
    BY <1>0 DEF ExecType
  <2>3. round' \in RecordType
    BY <1>0, <1>6, <2>1, <2>2, SetWrites DEF WaitInRecord, Statuses, Writes
  <2> QED
    BY <1>6, <1>f, <2>1, <2>3 DEF WaitInRecord
<1>7. ASSUME NEW e \in Execs, DecideReveal(e) PROVE RoundTypeOK'
  BY <1>0, <1>7, <1>f, MergeMoves DEF DecideReveal, Moves, InTurn
<1>8. ASSUME NEW e \in Execs, CloseBatch(e) PROVE RoundTypeOK'
  BY <1>0, <1>8, <1>f, GoToMoves DEF CloseBatch, MovesTo, Moves, InTurn
<1>9. ASSUME NEW e \in Execs, RecordReveal(e) PROVE RoundTypeOK'
  <2>1. SetRound(e, "revealed", exec[e].batch, exec[e].disp, exec[e].calls)
        /\ GoTo(e, "leaving") /\ UNCHANGED <<expired, crashes, called>>
    BY <1>9 DEF RecordReveal
  <2>2. /\ exec[e].batch \in Batches \cup {NoBatch} /\ exec[e].calls \in Nat
        /\ exec[e].disp \in [Participants -> Dispositions]
    BY <1>0 DEF ExecType
  <2> QED
    BY <1>f, <2>1, <2>2, SetWrites, GoToMoves DEF Writes, MovesTo, Moves, Statuses
<1>10. Idle \in ExecType
  BY DEF Idle, ExecType, Pending, Unasked, Dispositions, Results
<1>11. ASSUME NEW e \in Execs, Release(e) PROVE RoundTypeOK'
  <2>1. exec' \in [Execs -> ExecType] /\ expired' \in BOOLEAN /\ UNCHANGED <<crashes, called>>
    BY <1>0, <1>10, <1>11 DEF Release
  <2> QED
    BY <1>0, <1>11, <2>1, ReleaseChanges DEF RoundTypeOK
<1>12. ASSUME Crash PROVE RoundTypeOK'
  BY <1>0, <1>10, <1>12 DEF Crash, RoundTypeOK
<1>13. ASSUME \/ ExpireClaim \/ Clock
              \/ \E b \in Batches : \/ \E a \in Participants, payload \in run.payloads :
                                         HttpContribution(b, a, payload)
                                    \/ HttpClose(b)
       PROVE RoundTypeOK'
  BY <1>0, <1>13 DEF ExpireClaim, Clock, HttpContribution, HttpClose, RoundTypeOK
<1> QED
  BY <1>1, <1>2, <1>3, <1>4, <1>5, <1>6, <1>7, <1>8, <1>9, <1>11, <1>12, <1>13
  DEF RoundNext, RunStep, Claims, Proceed, FirstTurn, LastTurns

LEMMA StepOfBatches ==
  ASSUME RoundTypeOK, ClaimInv, BatchInv, RoundNext
  PROVE  [Next]_vars
<1>0. /\ exec \in [Execs -> ExecType] /\ plan \in Configs
      /\ Participants \subseteq Authors /\ run.payloads \subseteq Payloads
  BY RunFacts DEF RoundTypeOK
<1>1. ASSUME NEW e \in Execs, NEW b \in Batches, OpenBatch(e, b) PROVE Next
  <2>1. RoundKey(exec[e].round, "open") \in Keys
    BY <1>1, KeyFacts DEF ClaimInv, OpenBatch
  <2> QED
    BY <1>0, <1>1, <2>1 DEF OpenBatch, Next
<1>2. ASSUME NEW e \in Execs, NEW p \in Participants, NEW payload \in run.payloads,
             Answer(e, p, payload)
      PROVE  Next
  <2>1. RoundKey(exec[e].round, p) \in Keys /\ exec[e].batch \in Batches
    BY <1>0, <1>2, KeyFacts DEF ClaimInv, BatchInv, Answer, Awaits, ExecType
  <2> QED
    BY <1>0, <1>2, <2>1 DEF Answer, Next
<1>3. ASSUME NEW e \in Execs, CloseBatch(e) PROVE Next
  <2>1. RoundKey(exec[e].round, "close") \in Keys /\ exec[e].batch \in Batches
    BY <1>0, <1>3, KeyFacts DEF ClaimInv, BatchInv, CloseBatch, ExecType
  <2> QED
    BY <1>3, <2>1 DEF CloseBatch, Next
<1>4. ASSUME NEW b \in Batches, NEW a \in Participants, NEW payload \in run.payloads,
             HttpContribution(b, a, payload)
      PROVE  Next
  BY <1>0, <1>4 DEF HttpContribution, Next
<1>5. ASSUME NEW b \in Batches, HttpClose(b) PROVE Next
  BY <1>5 DEF HttpClose, Next
<1>6. ASSUME Clock PROVE Next
  BY <1>6 DEF Clock, Next
<1>7. ASSUME NEW e \in Execs, NEW r \in run.rounds, Claims(e, r) PROVE UNCHANGED vars
  BY <1>7, ClaimChanges DEF vars
<1>8. ASSUME NEW e \in Execs, NEW p \in Participants,
             \/ \E payload \in run.payloads : AnswerRejected(e, p, payload)
             \/ AdapterFails(e, p)
      PROVE  UNCHANGED vars
  BY <1>8 DEF AnswerRejected, AdapterFails, vars
<1>9. ASSUME NEW e \in Execs,
             \/ BudgetFails(e) \/ OpenFails(e) \/ Dispatch(e) \/ WaitInRecord(e)
             \/ DecideReveal(e) \/ CloseFails(e) \/ RecordReveal(e) \/ Release(e)
      PROVE  UNCHANGED vars
  BY <1>9 DEF BudgetFails, OpenFails, Dispatch, WaitInRecord, DecideReveal, CloseFails,
              RecordReveal, Release, vars
<1>10. ASSUME ExpireClaim \/ Crash PROVE UNCHANGED vars
  BY <1>10 DEF ExpireClaim, Crash, vars
<1> QED
  BY <1>1, <1>2, <1>3, <1>4, <1>5, <1>6, <1>7, <1>8, <1>9, <1>10
  DEF RoundNext, RunStep, Claims, Proceed, FirstTurn, AdapterTurn, LastTurns

-----------------------------------------------------------------------------
(***************************************************************************)
(* The claim.                                                              *)
(***************************************************************************)
\* While an execution is inside a turn no other one is, and none owns the claim.
LEMMA TurnIsAlone ==
  ASSUME RoundTypeOK, ClaimInv, NEW e \in Execs, exec[e].pc \in InTurn
  PROVE  /\ Owns(e) /\ round.claim = e /\ round.id \in Rounds /\ ~Quiet
         /\ \A f \in Execs \ {e} : ~Owns(f) /\ exec[f].pc \notin InTurn
  BY DEF ClaimInv, Owns, Quiet, InTurn

\* Of the record, the steps of execution e but its first and last write what they
\* like if e owns the claim, and nothing otherwise.
LEMMA OwnersWrite ==
  ASSUME RoundTypeOK, ClaimInv, NEW e \in Execs, Proceed(e), ~Release(e)
  PROVE  \/ UNCHANGED round
         \/ /\ Owns(e) /\ exec[e].pc \notin {"idle", "leaving"}
            /\ round'.id = round.id /\ round'.claim = round.claim
            /\ round'.status # "none"
<1>1. /\ exec[e] \in ExecType
      /\ exec[e].batch \in Batches \cup {NoBatch} /\ exec[e].calls \in Nat
      /\ exec[e].disp \in [Participants -> Dispositions]
  BY DEF RoundTypeOK, ExecType
<1>2. CASE BudgetFails(e) \/ OpenFails(e) \/ CloseFails(e)
  <2>1. FailRound(e) /\ exec[e].pc \in {"claimed", "closing"}
    BY <1>2 DEF BudgetFails, OpenFails, CloseFails
  <2> QED
    BY <2>1, FailWrites, TurnIsAlone DEF Writes, InTurn
<1>3. CASE Dispatch(e)
  <2>1. exec[e].pc \in {"claimed", "opened"}
    BY <1>3 DEF Dispatch
  <2> QED
    BY <1>3, <2>1, DispatchChanges, TurnIsAlone DEF Writes, InTurn
<1>4. CASE WaitInRecord(e) /\ Owns(e)
  <2>1. Merged(e) \in [Participants -> Dispositions] /\ exec[e].pc = "waiting"
    BY <1>4, MergeMoves DEF WaitInRecord, AllAnswered
  <2> QED
    BY <1>1, <1>4, <2>1, SetWrites DEF WaitInRecord, Statuses, Writes
<1>5. CASE RecordReveal(e)
  BY <1>1, <1>5, SetWrites, TurnIsAlone DEF RecordReveal, InTurn, Statuses, Writes
<1>6. CASE \/ \E b \in Batches : OpenBatch(e, b)
           \/ AdapterTurn(e) \/ DecideReveal(e) \/ CloseBatch(e)
           \/ WaitInRecord(e) /\ ~Owns(e)
  BY <1>6 DEF OpenBatch, AdapterTurn, Answer, AnswerRejected, AdapterFails, DecideReveal,
              CloseBatch, WaitInRecord
<1> QED
  BY <1>2, <1>3, <1>4, <1>5, <1>6 DEF Proceed, FirstTurn, LastTurns

\* How execution e moves on, and what it may have become the owner of.
LEMMA ProceedMoves ==
  ASSUME RoundTypeOK, ClaimInv, TypeOK, NEW e \in Execs, Proceed(e), ~Release(e)
  PROVE  /\ exec[e].pc \notin {"idle", "leaving"}
         /\ exec'[e].round = exec[e].round
         /\ exec'[e].retry = exec[e].retry /\ exec'[e].auto = exec[e].auto
         /\ exec'[e].pc # "idle"
         /\ exec'[e].pc \in InTurn => Owns(e)
         /\ exec'[e].pc # "leaving" =>
              round'.status \in {round.status, "running"}
         /\ \A f \in Execs \ {e} : exec'[f] = exec[f]
<1>1. CASE BudgetFails(e) \/ OpenFails(e) \/ CloseFails(e)
  <2>1. GoTo(e, "leaving") /\ exec[e].pc \in {"claimed", "closing"}
    BY <1>1 DEF BudgetFails, OpenFails, CloseFails
  <2> QED
    BY <2>1, GoToMoves DEF MovesTo, Moves, InTurn
<1>2. CASE Dispatch(e)
  BY <1>2, DispatchChanges DEF Dispatch, Moves, Writes, InTurn
<1>3. CASE WaitInRecord(e)
  <2>1. exec[e].pc = "waiting" /\ exec' = [exec EXCEPT ![e].pc = "leaving", ![e].disp = Merged(e)]
    BY <1>3 DEF WaitInRecord, AllAnswered
  <2>2. Moves(e, "leaving", exec[e].batch, Merged(e), exec[e].calls, exec[e].res, exec[e].saw)
    BY <2>1, MergeMoves
  <2> QED
    BY <2>1, <2>2 DEF Moves, InTurn
<1>4. CASE RecordReveal(e)
  BY <1>4, GoToMoves DEF RecordReveal, MovesTo, Moves, InTurn
<1>5. CASE \E b \in Batches : OpenBatch(e, b)
  <2>1. PICK b \in Batches : OpenBatch(e, b)
    BY <1>5
  <2>2. exec[e].pc = "claimed" /\ Owns(e) /\ round' = round
    BY <2>1, TurnIsAlone DEF OpenBatch, InTurn
  <2>3. PICK batch : exec' = [exec EXCEPT ![e].pc = "opened", ![e].batch = batch]
    BY <2>1 DEF OpenBatch
  <2>4. exec \in [Execs -> ExecType]
    BY DEF RoundTypeOK
  <2> QED
    BY <2>2, <2>3, <2>4 DEF ExecType
<1>6. CASE AdapterTurn(e)
  <2>1. PICK p \in Participants :
          \/ \E payload \in run.payloads : Answer(e, p, payload) \/ AnswerRejected(e, p, payload)
          \/ AdapterFails(e, p)
    BY <1>6 DEF AdapterTurn
  <2>2. /\ \E result \in Results : ResultIs(e, p, result)
        /\ exec[e].pc = "waiting" /\ round' = round
    BY <2>1 DEF Answer, AnswerRejected, AdapterFails, Awaits, Results
  <2> QED
    BY <2>2, ResultMoves DEF Moves, InTurn
<1>7. CASE DecideReveal(e)
  <2> DEFINE pc == IF Owns(e) THEN "closing" ELSE "leaving"
  <2>1. /\ exec' = [exec EXCEPT ![e].pc = pc, ![e].disp = Merged(e)]
        /\ pc \in InTurn \cup {"leaving"} /\ exec[e].pc = "waiting" /\ round' = round
        /\ pc \in InTurn => Owns(e)
        /\ pc # "idle"
    BY <1>7 DEF DecideReveal, AllAnswered, InTurn
  <2> HIDE DEF pc
  <2>2. Moves(e, pc, exec[e].batch, Merged(e), exec[e].calls, exec[e].res, exec[e].saw)
    BY <2>1, MergeMoves
  <2> QED
    BY <2>1, <2>2 DEF Moves
<1>8. CASE CloseBatch(e)
  BY <1>8, GoToMoves, TurnIsAlone DEF CloseBatch, MovesTo, Moves, InTurn
<1> QED
  BY <1>1, <1>2, <1>3, <1>4, <1>5, <1>6, <1>7, <1>8 DEF Proceed, FirstTurn, LastTurns

\* What a step may do to one execution.
LEMMA ExecSteps ==
  ASSUME RoundTypeOK, ClaimInv, TypeOK, RoundNext, NEW e \in Execs
  PROVE  \/ exec'[e] = exec[e]
         \/ exec'[e] = Idle
         \/ Proceed(e) /\ ~Release(e)
         \/ \E r \in run.rounds : Claims(e, r)
<1> DEFINE Steps == \/ exec'[e] = exec[e] \/ exec'[e] = Idle
                    \/ Proceed(e) /\ ~Release(e)
                    \/ \E r \in run.rounds : Claims(e, r)
<1>1. ASSUME NEW f \in Execs, Proceed(f), ~Release(f) PROVE Steps
  BY <1>1, ProceedMoves
<1>2. ASSUME NEW f \in Execs, Release(f) PROVE Steps
  BY <1>2, ReleaseChanges
<1>3. ASSUME NEW f \in Execs, NEW r \in run.rounds, Claims(f, r) PROVE Steps
  <2>1. \A g \in Execs \ {f} : exec'[g] = exec[g]
    BY <1>3, ClaimChanges
  <2> QED
    BY <1>3, <2>1
<1>4. ASSUME Crash PROVE Steps
  BY <1>4 DEF Crash
<1>5. ASSUME \/ ExpireClaim \/ Clock
             \/ \E b \in Batches : \/ \E a \in Participants, payload \in run.payloads :
                                        HttpContribution(b, a, payload)
                                   \/ HttpClose(b)
      PROVE Steps
  BY <1>5 DEF ExpireClaim, Clock, HttpContribution, HttpClose
<1> HIDE DEF Steps
<1>6. Steps
  BY <1>1, <1>2, <1>3, <1>4, <1>5 DEF RoundNext, RunStep, Claims
<1> QED
  BY <1>6 DEF Steps

LEMMA KeepsClaimInv ==
  ASSUME RoundTypeOK, ClaimInv, TypeOK, RoundNext
  PROVE  ClaimInv'
<1>0. run' = run /\ run.rounds \subseteq Rounds
  BY RunFacts DEF RoundNext, RoundTypeOK
<1>1. ASSUME NEW e \in Execs, NEW r \in run.rounds, Claims(e, r)
      PROVE  ClaimInv'
  <2>1. r \in Rounds
    BY <1>0
  <2>2. /\ round'.id = r /\ round'.status = "running" /\ round'.claim = e
        /\ exec'[e].pc = "claimed" /\ exec'[e].round = r
        /\ \A f \in Execs \ {e} : exec'[f] = exec[f]
    BY <1>1, ClaimChanges
  <2>3. ASSUME NEW f \in Execs \ {e}
        PROVE  exec'[f] = exec[f] /\ exec[f].pc \notin InTurn /\ ~Owns(f)'
    BY <1>1, <2>2, ClaimChanges DEF Quiet, InTurn, Owns
  <2>4. r # NoRound
    BY <2>1, NamesAssumption
  <2>5. Owns(e)'
    BY <2>2 DEF Owns
  <2>6. \A f \in Execs : exec'[f].pc # "idle" => exec'[f].round \in Rounds
    BY <2>1, <2>2, <2>3 DEF ClaimInv
  <2>7. \A f \in Execs : exec'[f].pc \in InTurn => Owns(f)'
    BY <2>3, <2>5
  <2> QED
    BY <2>2, <2>4, <2>6, <2>7 DEF ClaimInv
<1>2. ASSUME NEW e \in Execs, Proceed(e), ~Release(e) PROVE ClaimInv'
  <2>1. /\ round'.id = round.id /\ round'.claim = round.claim
        /\ round.status # "none" => round'.status # "none"
        /\ Owns(e) /\ exec[e].pc \notin {"idle", "leaving"} => round.status = "running"
    BY <1>2, OwnersWrite DEF ClaimInv
  <2>2. (round'.status = "none") <=> (round'.id = NoRound)
    BY <1>2, <2>1, OwnersWrite DEF ClaimInv
  <2>3. Owns(e)' = Owns(e)
    BY <1>2, <2>1, ProceedMoves DEF Owns
  <2>4. ASSUME NEW f \in Execs \ {e}
        PROVE  /\ exec'[f] = exec[f] /\ Owns(f)' = Owns(f)
               /\ Owns(f) => UNCHANGED round
    BY <1>2, <2>1, ProceedMoves, OwnersWrite DEF Owns
  <2>5. /\ exec'[e].pc # "idle" => exec'[e].round \in Rounds
        /\ exec'[e].pc \in InTurn => Owns(e)'
        /\ Owns(e)' /\ exec'[e].pc \notin {"idle", "leaving"} => round'.status = "running"
    BY <1>2, <2>1, <2>3, ProceedMoves DEF ClaimInv
  <2>6. \A f \in Execs \ {e} :
          /\ exec'[f].pc # "idle" => exec'[f].round \in Rounds
          /\ exec'[f].pc \in InTurn => Owns(f)'
          /\ Owns(f)' /\ exec'[f].pc \notin {"idle", "leaving"} => round'.status = "running"
    BY <2>4 DEF ClaimInv
  <2> QED
    BY <2>2, <2>5, <2>6 DEF ClaimInv
<1>3. ASSUME NEW e \in Execs, Release(e) PROVE ClaimInv'
  <2>1. ASSUME NEW f \in Execs \ {e}
        PROVE  exec'[f] = exec[f] /\ exec[f].pc \notin InTurn /\ (Owns(f)' => Owns(f))
    BY <1>3, ReleaseChanges, NamesAssumption DEF Release, Quiet, InTurn, Owns
  <2>2. exec'[e].pc = "idle"
    BY <1>3, ReleaseChanges DEF Idle
  <2> QED
    BY <1>3, <2>1, <2>2, ReleaseChanges DEF ClaimInv, InTurn
<1>4. ASSUME Crash PROVE ClaimInv'
  BY <1>4 DEF Crash, ClaimInv, Idle, InTurn
<1>5. ASSUME \/ ExpireClaim \/ Clock
             \/ \E b \in Batches : \/ \E a \in Participants, payload \in run.payloads :
                                        HttpContribution(b, a, payload)
                                   \/ HttpClose(b)
      PROVE ClaimInv'
  BY <1>5 DEF ExpireClaim, Clock, HttpContribution, HttpClose, ClaimInv, Owns
<1> QED
  BY <1>1, <1>2, <1>3, <1>4, <1>5 DEF RoundNext, RunStep, Claims

\* RevealedStays and ClaimLostOnlyWhenExpired, of a step.
LEMMA RecordStepSafe ==
  ASSUME RoundTypeOK, ClaimInv, TypeOK, RoundNext
  PROVE  /\ round.status = "revealed" /\ round'.id = round.id =>
              [round' EXCEPT !.claim = NoExec] = [round EXCEPT !.claim = NoExec]
         /\ \A e \in Execs :
              Owns(e) /\ exec[e].pc \notin {"idle", "leaving"} /\ ~expired => round'.claim = e
<1>0. round \in RecordType
  BY DEF RoundTypeOK
<1>1. ASSUME NEW e \in Execs, NEW r \in run.rounds, Claims(e, r)
      PROVE  /\ ~(round.status = "revealed" /\ round'.id = round.id)
             /\ \A f \in Execs : ~(Owns(f) /\ exec[f].pc \notin {"idle", "leaving"} /\ ~expired)
  <2>1. CanClaim(r) /\ round'.id = r
    BY <1>1, ClaimChanges
  <2> QED
    BY <2>1, NamesAssumption DEF CanClaim, ClaimInv, Owns
<1>2. ASSUME NEW e \in Execs, Proceed(e), ~Release(e)
      PROVE  /\ round'.claim = round.claim
             /\ round.status = "revealed" => round' = round
  BY <1>2, OwnersWrite DEF ClaimInv
<1>3. ASSUME NEW e \in Execs, Release(e)
      PROVE  /\ round' = round \/ round' = [round EXCEPT !.claim = NoExec]
             /\ \A f \in Execs : Owns(f) /\ exec[f].pc # "leaving" => round'.claim = f
  BY <1>3, ReleaseChanges DEF Release, Owns
<1>4. ASSUME \/ ExpireClaim \/ Clock \/ Crash
             \/ \E b \in Batches : \/ \E a \in Participants, payload \in run.payloads :
                                        HttpContribution(b, a, payload)
                                   \/ HttpClose(b)
      PROVE  round' = round
  BY <1>4 DEF ExpireClaim, Clock, Crash, HttpContribution, HttpClose
<1>5. ASSUME round' = round \/ round' = [round EXCEPT !.claim = NoExec]
      PROVE  [round' EXCEPT !.claim = NoExec] = [round EXCEPT !.claim = NoExec]
  BY <1>0, <1>5 DEF RecordType
<1> QED
  BY <1>1, <1>2, <1>3, <1>4, <1>5 DEF RoundNext, RunStep, Claims, Owns
-----------------------------------------------------------------------------
(***************************************************************************)
(* What the ledger gains.                                                  *)
(***************************************************************************)
LEMMA LedgerGrows ==
  ASSUME IInv, [Next]_vars
  PROVE  /\ TypeOK' /\ now \in Nat /\ now' \in Nat /\ now <= now'
         /\ \A i \in DOMAIN ledger : i \in DOMAIN ledger' /\ ledger'[i] = ledger[i]
         /\ \A b, type : OfType(ledger, b, type) \subseteq OfType(ledger', b, type)
         /\ \A b : ContributingAuthors(ledger, b) \subseteq ContributingAuthors(ledger', b)
         /\ \A b : Revealed(ledger, b) # {} => Revealed(ledger', b) # {}
         /\ \A r, b : BatchOf(ledger, r, b) => BatchOf(ledger', r, b)
<1>1. TypeOK /\ TypeOK'
  BY NextIInv DEF IInv
<1>2. now \in Nat /\ now' \in Nat /\ now <= now'
  BY <1>1 DEF Next, OpenSealedBatch, SubmitSealedContribution, CloseSealedBatch, Tick, vars, TypeOK
<1>3. \A i \in DOMAIN ledger : i \in DOMAIN ledger' /\ ledger'[i] = ledger[i]
  BY <1>1, StepAppends, AppendedLedger
<1>4. \A b, type : OfType(ledger, b, type) \subseteq OfType(ledger', b, type)
  BY <1>3 DEF OfType
<1>5. \A b : ContributingAuthors(ledger, b) \subseteq ContributingAuthors(ledger', b)
  <2> TAKE b
  <2>1. \A i \in Contributions(ledger, b) :
          i \in Contributions(ledger', b) /\ ledger'[i] = ledger[i]
    BY <1>3 DEF Contributions, OfType
  <2> QED
    BY <2>1 DEF ContributingAuthors
<1>6. \A b : Revealed(ledger, b) # {} => Revealed(ledger', b) # {}
  BY <1>4 DEF Revealed
<1>7. \A r, b : BatchOf(ledger, r, b) => BatchOf(ledger', r, b)
  BY <1>3 DEF BatchOf, Opened, OfType
<1> QED
  BY <1>1, <1>2, <1>3, <1>4, <1>5, <1>6, <1>7

\* The events of a run: the batches of the current round, contributions, and the
\* reveals of batches by HTTP or by the round that opened them.
RoundEvent(x) ==
  \/ /\ x.type = "sealed_batch_opened"
     /\ round.id \in Rounds /\ x.key = RoundKey(round.id, "open")
  \/ /\ x.type = "sealed_contribution_submitted"
     /\ x.key = NoKey \/ \E r \in Rounds, p \in Participants : x.key = RoundKey(r, p)
  \/ /\ x.type = "sealed_batch_revealed"
     /\ \/ x.key = NoKey
        \/ \E r \in Rounds : x.key = RoundKey(r, "close") /\ BatchOf(ledger, r, x.batch)

LEMMA StepEvents ==
  ASSUME RoundTypeOK, IInv, ClaimInv, BatchInv, RoundNext
  PROVE  \/ ledger' = ledger
         \/ \E x \in EventType :
              IsNew(ledger, x) /\ RoundEvent(x) /\ ledger' = Append(ledger, x)
<1>0. TypeOK /\ exec \in [Execs -> ExecType] /\ plan \in Configs
      /\ Participants \subseteq Authors /\ run.payloads \subseteq Payloads
  BY RunFacts DEF RoundTypeOK, IInv
<1> DEFINE Grows == \/ ledger' = ledger
                    \/ \E x \in EventType :
                         IsNew(ledger, x) /\ RoundEvent(x) /\ ledger' = Append(ledger, x)
<1>1. ASSUME NEW e \in Execs, NEW b \in Batches, OpenBatch(e, b) PROVE Grows
  <2> DEFINE x == OpenInput(b, plan, RoundKey(exec[e].round, "open"))
  <2>1. Owns(e) /\ exec[e].round \in Rounds
    BY <1>1, TurnIsAlone DEF OpenBatch, InTurn, Owns
  <2>2. x \in EventType /\ RoundEvent(x)
    BY <1>0, <2>1, KeyFacts DEF Owns, OpenInput, EventType, EventOf, RoundEvent
  <2>3. ledger' = AfterAppend(ledger, x)
    BY <1>1 DEF OpenBatch, OpenSealedBatch
  <2> QED
    BY <2>2, <2>3 DEF AfterAppend
<1>2. ASSUME NEW b \in Batches, NEW a \in Participants, NEW payload \in run.payloads,
             NEW k \in Keys \cup {NoKey},
             k = NoKey \/ \E r \in Rounds, p \in Participants : k = RoundKey(r, p),
             SubmitSealedContribution(b, a, k, payload)
      PROVE  Grows
  <2> DEFINE x == ContributionInput(ledger, b, a, k, payload)
  <2>1. IsOpen(ledger, b) /\ ledger' = AfterAppend(ledger, x)
    BY <1>2 DEF SubmitSealedContribution, CanSubmit
  <2>2. x \in EventType
    BY <1>0, <2>1, OpenedEventIsOpening DEF ContributionInput, EventType, EventOf
  <2>3. RoundEvent(x)
    BY <1>2 DEF ContributionInput, RoundEvent
  <2> QED
    BY <2>1, <2>2, <2>3 DEF AfterAppend
<1>3. ASSUME NEW b \in Batches, NEW k \in Keys \cup {NoKey},
             k = NoKey \/ \E r \in Rounds : k = RoundKey(r, "close") /\ BatchOf(ledger, r, b),
             CloseSealedBatch(b, k)
      PROVE  Grows
  <2> DEFINE x == RevealInput(ledger, b, k, now)
  <2>1. IsOpen(ledger, b) /\ ledger' = AfterAppend(ledger, x)
    BY <1>3 DEF CloseSealedBatch, CanClose
  <2>2. OpenedEvent(ledger, b) \in Nat /\ OpenedBatch(ledger, b) \in Configs
    BY <1>0, <2>1, OpenedEventIsOpening
  <2>3. Contributions(ledger, b) \subseteq Nat /\ now \in Nat
    BY <1>0 DEF Contributions, OfType, TypeOK
  <2>4. x \in EventType
    BY <2>2, <2>3 DEF RevealInput, EventType, RevealedEvents
  <2>5. RoundEvent(x)
    BY <1>3 DEF RevealInput, RoundEvent
  <2> QED
    BY <2>1, <2>4, <2>5 DEF AfterAppend
<1>4. ASSUME NEW e \in Execs, NEW p \in Participants, NEW payload \in run.payloads,
             Answer(e, p, payload)
      PROVE  Grows
  <2>1. exec[e].round \in Rounds /\ exec[e].batch \in Batches
    BY <1>0, <1>4 DEF ClaimInv, BatchInv, Answer, Awaits, ExecType
  <2>2. RoundKey(exec[e].round, p) \in Keys
    BY <2>1, KeyFacts
  <2> QED
    BY <1>2, <1>4, <2>1, <2>2 DEF Answer
<1>5. ASSUME NEW e \in Execs, CloseBatch(e) PROVE Grows
  <2>1. exec[e].round \in Rounds /\ exec[e].batch \in Batches
    BY <1>0, <1>5 DEF ClaimInv, BatchInv, CloseBatch, ExecType
  <2>2. RoundKey(exec[e].round, "close") \in Keys /\ BatchOf(ledger, exec[e].round, exec[e].batch)
    BY <2>1, KeyFacts, NamesAssumption DEF BatchInv
  <2> QED
    BY <1>3, <1>5, <2>1, <2>2 DEF CloseBatch
<1>6. ASSUME NEW b \in Batches,
             \/ \E a \in Participants, payload \in run.payloads : HttpContribution(b, a, payload)
             \/ HttpClose(b)
      PROVE  Grows
  BY <1>2, <1>3, <1>6 DEF HttpContribution, HttpClose
<1>7. ASSUME NEW e \in Execs, Proceed(e), ~(\E b \in Batches : OpenBatch(e, b)),
             ~(\E p \in Participants, payload \in run.payloads : Answer(e, p, payload)),
             ~CloseBatch(e)
      PROVE  ledger' = ledger
  BY <1>7 DEF Proceed, FirstTurn, AdapterTurn, LastTurns, BudgetFails, OpenFails, Dispatch,
              AnswerRejected, AdapterFails, WaitInRecord, DecideReveal, CloseFails,
              RecordReveal, Release
<1>8. ASSUME \/ ExpireClaim \/ Clock \/ Crash
             \/ \E e \in Execs, r \in run.rounds, retry \in BOOLEAN, auto \in AutoInputs :
                  Claim(e, r, retry, auto)
      PROVE  ledger' = ledger
  BY <1>8 DEF ExpireClaim, Clock, Tick, Crash, Claim
<1> HIDE DEF Grows
<1>9. Grows
  BY <1>1, <1>4, <1>5, <1>6, <1>7, <1>8 DEF RoundNext, RunStep, Grows
<1> QED
  BY <1>9 DEF Grows
-----------------------------------------------------------------------------
(***************************************************************************)
(* Batches and their keys.                                                 *)
(***************************************************************************)
\* What openSealedBatch under the round's key returns is the round's batch.
LEMMA OpenChanges ==
  ASSUME RoundTypeOK, IInv, ClaimInv, BatchInv,
         NEW e \in Execs, NEW b \in Batches, OpenBatch(e, b)
  PROVE  \E batch \in Batches :
           /\ Moves(e, "opened", batch, exec[e].disp, exec[e].calls, exec[e].res, exec[e].saw)
           /\ BatchOf(ledger', exec[e].round, batch)
           /\ UNCHANGED round
<1> DEFINE key == RoundKey(exec[e].round, "open")
           x == OpenInput(b, plan, key)
           i == ReturnedEvent(ledger, x)
<1>0. ledger \in Seq(EventType) /\ exec[e].round \in Rounds /\ key # NoKey
  BY KeyFacts DEF IInv, TypeOK, ClaimInv, OpenBatch
<1>1. /\ ledger' = AfterAppend(ledger, x) /\ ~IsConflict(ledger, x)
      /\ exec' = [exec EXCEPT ![e].pc = "opened", ![e].batch = ledger'[i].batch]
      /\ UNCHANGED round
  BY DEF OpenBatch, OpenSealedBatch
<1>2. /\ i \in DOMAIN ledger' /\ ledger'[i].batch \in Batches
      /\ ledger'[i].type = "sealed_batch_opened" /\ ledger'[i].key = key
  <2>1. CASE IsNew(ledger, x)
    <3>1. i = Len(ledger) + 1 /\ ledger' = Append(ledger, x)
      BY <1>1, <2>1 DEF ReturnedEvent, AfterAppend
    <3>2. i \in DOMAIN ledger' /\ ledger'[i] = x
      BY <1>0, <3>1
    <3> QED
      BY <3>2 DEF OpenInput
  <2>2. CASE ~IsNew(ledger, x)
    <3>1. i \in Replays(ledger, x) /\ ledger' = ledger
      BY <1>1, <2>2 DEF ReturnedEvent, AfterAppend, IsConflict, IsReplay
    <3>2. i \in DOMAIN ledger /\ ledger[i].key = key /\ ledger[i].type = "sealed_batch_opened"
      BY <3>1 DEF Replays, KeyHolders, IsCompatible, OpenInput
    <3>3. ledger[i] \in EventType
      BY <1>0, <3>2
    <3> QED
      BY <3>1, <3>2, <3>3, TypedEvents
  <2> QED
    BY <2>1, <2>2
<1> DEFINE batch == ledger'[i].batch
<1>3. BatchOf(ledger', exec[e].round, batch)
  BY <1>2 DEF BatchOf, Opened, OfType
<1>4. batch \in Batches /\ exec' = [exec EXCEPT ![e].pc = "opened", ![e].batch = batch]
  BY <1>1, <1>2
<1> HIDE DEF batch
<1>5. Moves(e, "opened", batch, exec[e].disp, exec[e].calls, exec[e].res, exec[e].saw)
  BY <1>4, OpenMoves
<1> QED
  BY <1>1, <1>3, <1>4, <1>5

\* The batch of execution e, and what it writes of it, in a step of its own.
LEMMA ProceedCopies ==
  ASSUME RoundTypeOK, IInv, ClaimInv, BatchInv, NEW e \in Execs, Proceed(e), ~Release(e)
  PROVE  /\ \/ exec'[e].batch = exec[e].batch
            \/ exec[e].batch = NoBatch /\ BatchOf(ledger', exec[e].round, exec'[e].batch)
         /\ exec'[e].pc \in {"opened", "waiting", "closing", "closed"} => exec'[e].batch # NoBatch
         /\ UNCHANGED round \/ (round'.batch = exec[e].batch /\ exec'[e].batch = exec[e].batch)
<1>0. /\ exec[e].batch \in Batches \cup {NoBatch} /\ exec[e].calls \in Nat
      /\ exec[e].disp \in [Participants -> Dispositions]
  BY DEF RoundTypeOK, ExecType
<1>1. exec[e].pc \in {"opened", "waiting", "closing", "closed"} => exec[e].batch # NoBatch
  BY DEF BatchInv
<1>2. CASE BudgetFails(e) \/ OpenFails(e) \/ CloseFails(e)
  <2>1. FailRound(e) /\ GoTo(e, "leaving")
    BY <1>2 DEF BudgetFails, OpenFails, CloseFails
  <2>2. round'.batch = exec[e].batch
    BY <2>1, FailWrites DEF Writes
  <2>3. exec'[e].batch = exec[e].batch /\ exec'[e].pc = "leaving"
    BY <2>1, GoToMoves DEF MovesTo, Moves
  <2> QED
    BY <2>2, <2>3
<1>3. CASE Dispatch(e)
  <2>1. exec[e].batch # NoBatch
    BY <1>3 DEF Dispatch, BatchInv
  <2>2. round'.batch = exec[e].batch /\ exec'[e].batch = exec[e].batch
    BY <1>3, DispatchChanges DEF Writes, Moves
  <2> QED
    BY <2>1, <2>2
<1>4. CASE WaitInRecord(e)
  <2>0. exec' = [exec EXCEPT ![e].pc = "leaving", ![e].disp = Merged(e)]
    BY <1>4 DEF WaitInRecord
  <2>1. /\ Moves(e, "leaving", exec[e].batch, Merged(e), exec[e].calls, exec[e].res, exec[e].saw)
        /\ Merged(e) \in [Participants -> Dispositions]
    BY <2>0, MergeMoves
  <2>2. UNCHANGED round \/ \E status \in Statuses :
          SetRound(e, status, exec[e].batch, Merged(e), exec[e].calls)
    BY <1>4 DEF WaitInRecord, Statuses
  <2>3. UNCHANGED round \/ round'.batch = exec[e].batch
    BY <1>0, <2>1, <2>2, SetWrites DEF Writes
  <2> QED
    BY <2>1, <2>3 DEF Moves
<1>5. CASE RecordReveal(e)
  <2>1. /\ SetRound(e, "revealed", exec[e].batch, exec[e].disp, exec[e].calls)
        /\ GoTo(e, "leaving")
    BY <1>5 DEF RecordReveal
  <2>2. round'.batch = exec[e].batch
    BY <1>0, <2>1, SetWrites DEF Statuses, Writes
  <2>3. exec'[e].batch = exec[e].batch /\ exec'[e].pc = "leaving"
    BY <2>1, GoToMoves DEF MovesTo, Moves
  <2> QED
    BY <2>2, <2>3
<1>6. CASE \E b \in Batches : OpenBatch(e, b)
  <2>1. exec[e].batch = NoBatch
    BY <1>6 DEF OpenBatch
  <2>2. PICK batch \in Batches :
          /\ Moves(e, "opened", batch, exec[e].disp, exec[e].calls, exec[e].res, exec[e].saw)
          /\ BatchOf(ledger', exec[e].round, batch) /\ UNCHANGED round
    BY <1>6, OpenChanges
  <2>3. exec'[e].batch = batch /\ batch # NoBatch
    BY <2>2, NamesAssumption DEF Moves
  <2>4. BatchOf(ledger', exec[e].round, exec'[e].batch)
    BY <2>2, <2>3
  <2>5. exec'[e].batch # NoBatch /\ UNCHANGED round
    BY <2>2, <2>3
  <2> QED
    BY <2>1, <2>4, <2>5
<1>7. CASE AdapterTurn(e)
  <2>1. PICK p \in Participants :
          \/ \E payload \in run.payloads : Answer(e, p, payload) \/ AnswerRejected(e, p, payload)
          \/ AdapterFails(e, p)
    BY <1>7 DEF AdapterTurn
  <2>2. /\ \E result \in Results : ResultIs(e, p, result)
        /\ exec[e].pc = "waiting" /\ UNCHANGED round
    BY <2>1 DEF Answer, AnswerRejected, AdapterFails, Awaits, Results
  <2>3. exec'[e].batch = exec[e].batch
    BY <2>2, ResultMoves DEF Moves
  <2> QED
    BY <1>1, <2>2, <2>3
<1>8. CASE DecideReveal(e)
  <2> DEFINE pc == IF Owns(e) THEN "closing" ELSE "leaving"
  <2>1. /\ exec' = [exec EXCEPT ![e].pc = pc, ![e].disp = Merged(e)]
        /\ pc \in InTurn \cup {"leaving"} /\ exec[e].pc = "waiting" /\ round' = round
    BY <1>8 DEF DecideReveal, AllAnswered, InTurn
  <2> HIDE DEF pc
  <2>2. Moves(e, pc, exec[e].batch, Merged(e), exec[e].calls, exec[e].res, exec[e].saw)
    BY <2>1, MergeMoves
  <2> QED
    BY <1>1, <2>1, <2>2 DEF Moves
<1>9. CASE CloseBatch(e)
  <2>1. GoTo(e, "closed") /\ exec[e].pc = "closing" /\ UNCHANGED round
    BY <1>9 DEF CloseBatch
  <2>2. exec'[e].batch = exec[e].batch
    BY <2>1, GoToMoves DEF MovesTo, Moves, InTurn
  <2> QED
    BY <1>1, <2>1, <2>2
<1> QED
  BY <1>2, <1>3, <1>4, <1>5, <1>6, <1>7, <1>8, <1>9 DEF Proceed, FirstTurn, LastTurns

LEMMA KeepsKeys ==
  ASSUME TypeOK, OneEventPerKey(ledger), NEW x \in EventType, IsNew(ledger, x),
         ledger' = Append(ledger, x)
  PROVE  OneEventPerKey(ledger')
<1>1. /\ DOMAIN ledger' = DOMAIN ledger \cup {Len(ledger) + 1}
      /\ \A i \in DOMAIN ledger : ledger'[i] = ledger[i]
      /\ ledger'[Len(ledger) + 1] = x
  BY AppendedLedger
<1>2. \A i \in DOMAIN ledger : x.key # NoKey => ledger[i].key # x.key
  BY DEF IsNew, KeyHolders
<1> QED
  BY <1>1, <1>2 DEF OneEventPerKey

\* Two batches that one round opened are one.
LEMMA OneBatchPerRound ==
  ASSUME OneEventPerKey(ledger), NEW r \in Rounds, NEW b, NEW c,
         BatchOf(ledger, r, b), BatchOf(ledger, r, c)
  PROVE  b = c
<1>1. RoundKey(r, "open") # NoKey
  BY KeyFacts
<1> QED
  BY <1>1 DEF OneEventPerKey, BatchOf, Opened, OfType

\* A round begins when no batch is open.
LEMMA NoneOpenAtBeginning ==
  ASSUME RoundTypeOK, IInv, ClaimInv, BatchInv, RecordNeverAhead,
         round.status \in {"none", "revealed"}, NEW b \in Batches
  PROVE  ~IsOpen(ledger, b)
<1> SUFFICES ASSUME IsOpen(ledger, b) PROVE FALSE
  OBVIOUS
<1>1. BatchOf(ledger, round.id, b)
  BY DEF BatchInv
<1>2. PICK i \in Opened(ledger, b) : ledger[i].key = RoundKey(round.id, "open")
  BY <1>1 DEF BatchOf
<1>3. PICK r \in Rounds : ledger[i].key = RoundKey(r, "open")
  BY <1>2 DEF BatchInv, Opened, OfType
<1>4. round.id \in Rounds /\ round.id # NoRound
  BY <1>2, <1>3, KeysDiffer, NamesAssumption
<1>5. Revealed(ledger, round.batch) # {}
  BY <1>4 DEF ClaimInv, RecordNeverAhead
<1>6. round.batch # NoBatch
  <2>1. PICK j \in Revealed(ledger, round.batch) : TRUE
    BY <1>5
  <2>2. ledger[j] \in EventType /\ ledger[j].batch = round.batch
    BY <2>1 DEF Revealed, OfType, IInv, TypeOK
  <2> QED
    BY <2>2, TypedEvents, NamesAssumption
<1>7. BatchOf(ledger, round.id, round.batch)
  BY <1>6 DEF BatchInv
<1>8. round.batch = b
  BY <1>1, <1>4, <1>7, OneBatchPerRound DEF BatchInv
<1> QED
  BY <1>5, <1>8 DEF IsOpen
LEMMA KeepsBatchInv ==
  ASSUME RoundTypeOK, IInv, ClaimInv, BatchInv, RecordNeverAhead, RoundNext
  PROVE  BatchInv'
<1>0. /\ exec \in [Execs -> ExecType] /\ [Next]_vars
      /\ RoundTypeOK' /\ ClaimInv' /\ TypeOK
  BY StepOfBatches, Types, KeepsClaimInv DEF RoundTypeOK, IInv
<1>1. /\ \A i \in DOMAIN ledger : i \in DOMAIN ledger' /\ ledger'[i] = ledger[i]
      /\ \A b, type : OfType(ledger, b, type) \subseteq OfType(ledger', b, type)
      /\ \A r, b : BatchOf(ledger, r, b) => BatchOf(ledger', r, b)
  BY <1>0, LedgerGrows
<1>2. \/ ledger' = ledger
      \/ \E x \in EventType : IsNew(ledger, x) /\ RoundEvent(x) /\ ledger' = Append(ledger, x)
  BY StepEvents
<1>3. OneEventPerKey(ledger')
  BY <1>0, <1>2, KeepsKeys DEF BatchInv
<1>4. /\ \A i \in DOMAIN ledger' :
           ledger'[i].type = "sealed_batch_opened" =>
             \E r \in Rounds : ledger'[i].key = RoundKey(r, "open")
      /\ \A i \in DOMAIN ledger', r \in Rounds :
           /\ ledger'[i].key = RoundKey(r, "open") => ledger'[i].type = "sealed_batch_opened"
           /\ ledger'[i].key = RoundKey(r, "close") =>
                ledger'[i].type = "sealed_batch_revealed" /\ BatchOf(ledger', r, ledger'[i].batch)
  <2>1. CASE ledger' = ledger
    BY <2>1 DEF BatchInv
  <2>2. ASSUME NEW x \in EventType, RoundEvent(x), ledger' = Append(ledger, x)
        PROVE  /\ x.type = "sealed_batch_opened" =>
                    \E r \in Rounds : x.key = RoundKey(r, "open")
               /\ \A r \in Rounds :
                    /\ x.key = RoundKey(r, "open") => x.type = "sealed_batch_opened"
                    /\ x.key = RoundKey(r, "close") =>
                         x.type = "sealed_batch_revealed" /\ BatchOf(ledger, r, x.batch)
    <3>1. x.type = "sealed_batch_opened" => \E r \in Rounds : x.key = RoundKey(r, "open")
      BY <2>2 DEF RoundEvent
    <3>2. ASSUME NEW r \in Rounds, x.key = RoundKey(r, "open")
          PROVE  x.type = "sealed_batch_opened"
      BY <2>2, <3>2, KeyFacts, KeysDiffer, RoundKeysAssumption DEF RoundEvent
    <3>3. ASSUME NEW r \in Rounds, x.key = RoundKey(r, "close")
          PROVE  x.type = "sealed_batch_revealed" /\ BatchOf(ledger, r, x.batch)
      BY <2>2, <3>3, KeyFacts, KeysDiffer, RoundKeysAssumption DEF RoundEvent
    <3> QED
      BY <3>1, <3>2, <3>3
  <2>3. ASSUME NEW x \in EventType, RoundEvent(x), ledger' = Append(ledger, x)
        PROVE  \A i \in DOMAIN ledger' : i \in DOMAIN ledger \/ ledger'[i] = x
    BY <1>0, <2>3, AppendedLedger
  <2> QED
    BY <1>1, <1>2, <2>1, <2>2, <2>3 DEF BatchInv
<1>5. ASSUME round'.id = round.id, NEW b \in Batches, IsOpen(ledger', b)
      PROVE  BatchOf(ledger', round'.id, b)
  <2>1. CASE IsOpen(ledger, b)
    BY <1>1, <1>5, <2>1 DEF BatchInv
  <2>2. CASE ~IsOpen(ledger, b)
    <3>1. Opened(ledger, b) = {}
      BY <1>1, <1>5, <2>2 DEF IsOpen, Revealed
    <3>2. PICK i \in Opened(ledger', b) : TRUE
      BY <1>5 DEF IsOpen
    <3>3. i \in DOMAIN ledger' /\ ledger'[i].batch = b
          /\ ledger'[i].type = "sealed_batch_opened"
      BY <3>2 DEF Opened, OfType
    <3>4. i \notin DOMAIN ledger
      BY <1>1, <3>1, <3>3 DEF Opened, OfType
    <3>5. PICK x \in EventType : RoundEvent(x) /\ ledger' = Append(ledger, x)
      BY <1>2, <3>3, <3>4
    <3>6. ledger'[i] = x
      BY <1>0, <3>3, <3>4, <3>5, AppendedLedger
    <3>7. ledger'[i].key = RoundKey(round.id, "open")
      BY <3>3, <3>5, <3>6 DEF RoundEvent
    <3> QED
      BY <1>5, <3>2, <3>7 DEF BatchOf
  <2> QED
    BY <2>1, <2>2
<1> DEFINE Batched ==
      /\ round'.batch # NoBatch => BatchOf(ledger', round'.id, round'.batch)
      /\ \A e \in Execs :
           /\ exec'[e].batch # NoBatch => BatchOf(ledger', exec'[e].round, exec'[e].batch)
           /\ exec'[e].pc \in {"opened", "waiting", "closing", "closed"} =>
                exec'[e].batch # NoBatch
      /\ \A b \in Batches : IsOpen(ledger', b) => BatchOf(ledger', round'.id, b)
<1>6. ASSUME NEW e \in Execs, NEW r \in run.rounds, Claims(e, r) PROVE Batched
  <2>1. /\ CanClaim(r) /\ ledger' = ledger /\ round'.id = r
        /\ exec'[e].pc = "claimed" /\ exec'[e].round = r /\ exec'[e].batch = round'.batch
        /\ \A f \in Execs \ {e} : exec'[f] = exec[f]
    BY <1>6, ClaimChanges
  <2>2. round'.batch # NoBatch => BatchOf(ledger, r, round'.batch)
    <3>1. round.id = r \/ round'.batch = NoBatch
      BY <1>6, ClaimedRecord
    <3>2. round.id = r => round'.batch = round.batch
      BY <1>6, ClaimedRecord
    <3> QED
      BY <3>1, <3>2 DEF BatchInv
  <2>3. ASSUME NEW f \in Execs
        PROVE  /\ exec'[f].batch # NoBatch => BatchOf(ledger, exec'[f].round, exec'[f].batch)
               /\ exec'[f].pc \in {"opened", "waiting", "closing", "closed"} =>
                    exec'[f].batch # NoBatch
    BY <2>1, <2>2 DEF BatchInv
  <2>4. ASSUME NEW b \in Batches, IsOpen(ledger, b) PROVE BatchOf(ledger, r, b)
    BY <1>5, <2>1, <2>4, NoneOpenAtBeginning DEF CanClaim
  <2> QED
    BY <2>1, <2>2, <2>3, <2>4
<1>7. ASSUME NEW e \in Execs, Proceed(e), ~Release(e) PROVE Batched
  <2>1. /\ exec'[e].round = exec[e].round
        /\ \A f \in Execs \ {e} : exec'[f] = exec[f]
    BY <1>0, <1>7, ProceedMoves
  <2>2. /\ \/ exec'[e].batch = exec[e].batch
           \/ exec[e].batch = NoBatch /\ BatchOf(ledger', exec[e].round, exec'[e].batch)
        /\ exec'[e].pc \in {"opened", "waiting", "closing", "closed"} => exec'[e].batch # NoBatch
        /\ UNCHANGED round \/ (round'.batch = exec[e].batch /\ exec'[e].batch = exec[e].batch)
    BY <1>7, ProceedCopies
  <2>3. round'.id = round.id /\ (UNCHANGED round \/ Owns(e))
    BY <1>7, OwnersWrite
  <2>4. exec[e].batch # NoBatch => BatchOf(ledger', exec[e].round, exec[e].batch)
    BY <1>1 DEF BatchInv
  <2>5. round'.batch # NoBatch => BatchOf(ledger', round'.id, round'.batch)
    BY <1>1, <2>2, <2>3, <2>4 DEF BatchInv, Owns
  <2>6. exec'[e].batch # NoBatch => BatchOf(ledger', exec'[e].round, exec'[e].batch)
    BY <2>1, <2>2, <2>4
  <2>7. \A f \in Execs \ {e} :
          /\ exec'[f].batch # NoBatch => BatchOf(ledger', exec'[f].round, exec'[f].batch)
          /\ exec'[f].pc \in {"opened", "waiting", "closing", "closed"} =>
               exec'[f].batch # NoBatch
    BY <1>1, <2>1 DEF BatchInv
  <2> QED
    BY <1>5, <2>2, <2>3, <2>5, <2>6, <2>7
<1>8. ASSUME NEW e \in Execs, Release(e) PROVE Batched
  <2>1. ledger' = ledger /\ round'.id = round.id /\ round'.batch = round.batch
        /\ exec'[e] = Idle /\ \A f \in Execs \ {e} : exec'[f] = exec[f]
    BY <1>8, ReleaseChanges DEF Release
  <2> QED
    BY <1>5, <2>1 DEF BatchInv, Idle
<1>9. ASSUME Crash PROVE Batched
  <2>1. ledger' = ledger /\ round' = round /\ \A f \in Execs : exec'[f] = Idle
    BY <1>9 DEF Crash
  <2> QED
    BY <1>5, <2>1 DEF BatchInv, Idle
<1>10. ASSUME \/ ExpireClaim \/ Clock
              \/ \E b \in Batches : \/ \E a \in Participants, payload \in run.payloads :
                                         HttpContribution(b, a, payload)
                                    \/ HttpClose(b)
       PROVE Batched
  <2>1. round' = round /\ exec' = exec
    BY <1>10 DEF ExpireClaim, Clock, HttpContribution, HttpClose
  <2> QED
    BY <1>1, <1>5, <2>1 DEF BatchInv
<1> HIDE DEF Batched
<1>11. Batched
  BY <1>6, <1>7, <1>8, <1>9, <1>10 DEF RoundNext, RunStep, Claims
<1> QED
  BY <1>3, <1>4, <1>11 DEF BatchInv, Batched
-----------------------------------------------------------------------------
(***************************************************************************)
(* The record, the working copies and the ledger.                          *)
(***************************************************************************)
LEMMA CompatibleFields ==
  ASSUME NEW a, NEW b, IsCompatible(a, b), NEW f \in DOMAIN b \ GeneratedFields(b)
  PROVE  a[f] = b[f]
<1>1. Comparable(b)[f] = b[f] /\ f \in DOMAIN Comparable(b)
  BY DEF Comparable
<1>2. f \in DOMAIN a \ GeneratedFields(a)
  BY <1>1 DEF IsCompatible, Comparable
<1>3. Comparable(a)[f] = a[f]
  BY <1>2 DEF Comparable
<1> QED
  BY <1>1, <1>3 DEF IsCompatible

LEMMA NoBatchIsEmpty ==
  ASSUME TypeOK
  PROVE  ContributingAuthors(ledger, NoBatch) = {} /\ Revealed(ledger, NoBatch) = {}
<1>1. \A i \in DOMAIN ledger : ledger[i].batch # NoBatch
  BY TypedEvents, NamesAssumption DEF TypeOK
<1> QED
  BY <1>1 DEF ContributingAuthors, Contributions, Revealed, OfType

\* An answer the core takes is in the ledger, as a new contribution or as the
\* one that it repeats.
LEMMA AnswerContributes ==
  ASSUME TypeOK, NEW e \in Execs, NEW p \in Participants, NEW payload,
         Answer(e, p, payload), ledger' \in Seq(EventType)
  PROVE  p \in ContributingAuthors(ledger', exec[e].batch)
<1> DEFINE x == ContributionInput(ledger, exec[e].batch, p, RoundKey(exec[e].round, p), payload)
<1>1. ledger' = AfterAppend(ledger, x) /\ ~IsConflict(ledger, x)
  BY DEF Answer, CoreAccepts, SubmitSealedContribution
<1>2. \E i \in DOMAIN ledger' : /\ ledger'[i].type = "sealed_contribution_submitted"
                                /\ ledger'[i].batch = exec[e].batch
                                /\ ledger'[i].author = p
  <2>1. CASE IsNew(ledger, x)
    <3>1. ledger' = Append(ledger, x)
      BY <1>1, <2>1 DEF AfterAppend
    <3>2. Len(ledger) + 1 \in DOMAIN ledger' /\ ledger'[Len(ledger) + 1] = x
      BY <3>1 DEF TypeOK
    <3> QED
      BY <3>2 DEF ContributionInput
  <2>2. CASE ~IsNew(ledger, x)
    <3>1. PICK i \in Replays(ledger, x) : ledger' = ledger
      BY <1>1, <2>2 DEF AfterAppend, IsConflict, IsReplay
    <3>2. i \in DOMAIN ledger /\ IsCompatible(ledger[i], x)
      BY <3>1 DEF Replays, KeyHolders
    <3>3. x.type = "sealed_contribution_submitted" /\ x.batch = exec[e].batch /\ x.author = p
      BY DEF ContributionInput
    <3>4. {"batch", "author"} \subseteq DOMAIN x \ GeneratedFields(x)
      BY DEF ContributionInput, GeneratedFields, TypesWithIgnoredPayloadId
    <3> HIDE DEF x
    <3>5. ledger[i].batch = x.batch /\ ledger[i].author = x.author
      BY <3>2, <3>4, CompatibleFields
    <3>6. ledger[i].type = x.type
      BY <3>2 DEF IsCompatible
    <3> QED
      BY <3>1, <3>2, <3>3, <3>5, <3>6
  <2> QED
    BY <2>1, <2>2
<1> QED
  BY <1>2 DEF ContributingAuthors, Contributions, OfType

\* The key of a round's reveal was used, if at all, for the same batch.
LEMMA CloseReveals ==
  ASSUME RoundTypeOK, IInv, ClaimInv, BatchInv, NEW e \in Execs, CloseBatch(e)
  PROVE  Revealed(ledger', exec[e].batch) # {}
<1> DEFINE key == RoundKey(exec[e].round, "close")
           x == RevealInput(ledger, exec[e].batch, key, now)
<1>1. ledger' = AfterAppend(ledger, x) /\ exec[e].pc = "closing"
  BY DEF CloseBatch, CloseSealedBatch
<1>2. exec[e].round \in Rounds /\ BatchOf(ledger, exec[e].round, exec[e].batch)
  BY <1>1 DEF ClaimInv, BatchInv
<1>3. x.key = key /\ x.type = "sealed_batch_revealed" /\ x.batch = exec[e].batch
  BY DEF RevealInput
<1>4. CASE IsNew(ledger, x)
  <2>1. ledger' = Append(ledger, x)
    BY <1>1, <1>4 DEF AfterAppend
  <2>2. Len(ledger) + 1 \in DOMAIN ledger' /\ ledger'[Len(ledger) + 1] = x
    BY <2>1 DEF IInv, TypeOK
  <2> QED
    BY <1>3, <2>2 DEF Revealed, OfType
<1>5. CASE ~IsNew(ledger, x)
  <2>1. ledger' = ledger
    BY <1>1, <1>5 DEF AfterAppend
  <2>2. PICK i \in DOMAIN ledger : ledger[i].key = key
    BY <1>3, <1>5 DEF IsNew, KeyHolders
  <2>3. ledger[i].type = "sealed_batch_revealed"
        /\ BatchOf(ledger, exec[e].round, ledger[i].batch)
    BY <1>2, <2>2 DEF BatchInv
  <2>4. ledger[i].batch = exec[e].batch
    BY <1>2, <2>3, OneBatchPerRound DEF BatchInv
  <2> QED
    BY <2>1, <2>2, <2>3, <2>4 DEF Revealed, OfType
<1> QED
  BY <1>4, <1>5

LEMMA MergedSubmitted ==
  ASSUME RoundTypeOK, CopyInv, NEW e \in Execs
  PROVE  Submitted(Merged(e)) \subseteq ContributingAuthors(ledger, exec[e].batch)
<1> SUFFICES ASSUME NEW p \in Participants, Merged(e)[p] = "submitted"
             PROVE  p \in ContributingAuthors(ledger, exec[e].batch)
  BY DEF Submitted, Merged
<1>1. exec[e].res[p] = "submitted" \/ exec[e].disp[p] = "submitted"
  BY DEF Merged
<1>2. DOMAIN exec[e].disp = Participants
  BY DEF RoundTypeOK, ExecType
<1> QED
  BY <1>1, <1>2 DEF CopyInv, Submitted

\* What execution e knows and writes after a step of its own is in the ledger.
Backed(e) ==
  /\ Submitted(exec'[e].disp) \subseteq ContributingAuthors(ledger', exec'[e].batch)
  /\ \A p \in Participants :
       exec'[e].res[p] = "submitted" => p \in ContributingAuthors(ledger', exec'[e].batch)
  /\ exec'[e].pc = "closed" => Revealed(ledger', exec'[e].batch) # {}
  /\ \/ UNCHANGED round
     \/ /\ Submitted(round'.disp) \subseteq ContributingAuthors(ledger', round'.batch)
        /\ round'.status = "revealed" => Revealed(ledger', round'.batch) # {}

LEMMA ProceedBacked ==
  ASSUME RoundTypeOK, IInv, ClaimInv, BatchInv, CopyInv, RoundNext,
         NEW e \in Execs, Proceed(e), ~Release(e)
  PROVE  Backed(e)
<1>0. /\ exec[e].batch \in Batches \cup {NoBatch} /\ exec[e].calls \in Nat
      /\ exec[e].disp \in [Participants -> Dispositions]
      /\ exec[e].res \in [Participants -> Results]
      /\ TypeOK
  BY DEF RoundTypeOK, ExecType, IInv
<1>1. /\ TypeOK'
      /\ \A b : ContributingAuthors(ledger, b) \subseteq ContributingAuthors(ledger', b)
      /\ \A b : Revealed(ledger, b) # {} => Revealed(ledger', b) # {}
  BY StepOfBatches, LedgerGrows
<1>2. /\ Submitted(exec[e].disp) \subseteq ContributingAuthors(ledger', exec[e].batch)
      /\ \A p \in Participants :
           exec[e].res[p] = "submitted" => p \in ContributingAuthors(ledger', exec[e].batch)
      /\ exec[e].pc = "closed" => Revealed(ledger', exec[e].batch) # {}
  BY <1>1 DEF CopyInv
<1>3. Submitted(Merged(e)) \subseteq ContributingAuthors(ledger', exec[e].batch)
  BY <1>1, MergedSubmitted
<1>4. CASE BudgetFails(e) \/ OpenFails(e) \/ CloseFails(e)
  <2>1. FailRound(e) /\ GoTo(e, "leaving")
    BY <1>4 DEF BudgetFails, OpenFails, CloseFails
  <2>2. Writes("failed", exec[e].batch, exec[e].disp, exec[e].calls) /\ MovesTo(e, "leaving")
    BY <2>1, FailWrites, GoToMoves
  <2> QED
    BY <1>2, <2>2 DEF Writes, MovesTo, Moves, Backed
<1>5. CASE Dispatch(e)
  <2>1. /\ round'.status = "running"
        /\ round'.batch = exec[e].batch /\ round'.disp = DispatchDisp(e)
        /\ exec'[e].pc = "waiting" /\ exec'[e].batch = exec[e].batch
        /\ exec'[e].disp = DispatchDisp(e) /\ exec'[e].res = DispatchRes(e)
    BY <1>5, DispatchChanges DEF Writes, Moves
  <2>2. Submitted(DispatchDisp(e)) \subseteq Submitted(exec[e].disp)
    BY <1>0 DEF DispatchDisp, Submitted
  <2>3. \A p \in Participants : DispatchRes(e)[p] # "submitted"
    BY DEF DispatchRes
  <2> QED
    BY <1>2, <2>1, <2>2, <2>3 DEF Backed
<1>6. CASE WaitInRecord(e)
  <2>0. exec' = [exec EXCEPT ![e].pc = "leaving", ![e].disp = Merged(e)]
    BY <1>6 DEF WaitInRecord
  <2>1. /\ Moves(e, "leaving", exec[e].batch, Merged(e), exec[e].calls, exec[e].res, exec[e].saw)
        /\ Merged(e) \in [Participants -> Dispositions]
    BY <2>0, MergeMoves
  <2>2. UNCHANGED round \/ \E status \in Statuses \ {"revealed"} :
          SetRound(e, status, exec[e].batch, Merged(e), exec[e].calls)
    BY <1>6 DEF WaitInRecord, Statuses
  <2>3. \/ UNCHANGED round
        \/ /\ round'.batch = exec[e].batch /\ round'.disp = Merged(e)
           /\ round'.status # "revealed"
    BY <1>0, <2>1, <2>2, SetWrites DEF Writes
  <2> QED
    BY <1>2, <1>3, <2>1, <2>3 DEF Moves, Backed
<1>7. CASE RecordReveal(e)
  <2>1. /\ SetRound(e, "revealed", exec[e].batch, exec[e].disp, exec[e].calls)
        /\ GoTo(e, "leaving") /\ exec[e].pc = "closed"
    BY <1>7 DEF RecordReveal
  <2>2. /\ Writes("revealed", exec[e].batch, exec[e].disp, exec[e].calls)
        /\ MovesTo(e, "leaving")
    BY <1>0, <2>1, SetWrites, GoToMoves DEF Statuses
  <2> QED
    BY <1>2, <2>1, <2>2 DEF Writes, MovesTo, Moves, Backed
<1>8. CASE \E b \in Batches : OpenBatch(e, b)
  <2>1. exec[e].batch = NoBatch
    BY <1>8 DEF OpenBatch
  <2>2. PICK batch \in Batches :
          /\ Moves(e, "opened", batch, exec[e].disp, exec[e].calls, exec[e].res, exec[e].saw)
          /\ UNCHANGED round
    BY <1>8, OpenChanges
  <2>3. Submitted(exec[e].disp) = {} /\ \A p \in Participants : exec[e].res[p] # "submitted"
    BY <1>0, <2>1, NoBatchIsEmpty DEF CopyInv
  <2> QED
    BY <2>2, <2>3 DEF Moves, Backed
<1>9. ASSUME NEW p \in Participants, NEW payload \in run.payloads, Answer(e, p, payload)
      PROVE  Backed(e)
  <2>1. p \in ContributingAuthors(ledger', exec[e].batch)
    BY <1>0, <1>1, <1>9, AnswerContributes DEF TypeOK
  <2>2. ResultIs(e, p, "submitted") /\ exec[e].pc = "waiting" /\ UNCHANGED round
    BY <1>9 DEF Answer, Awaits
  <2>3. Moves(e, exec[e].pc, exec[e].batch, exec[e].disp, exec[e].calls,
              [exec[e].res EXCEPT ![p] = "submitted"], exec[e].saw)
    BY <2>2, ResultMoves DEF Results
  <2>4. \A q \in Participants : [exec[e].res EXCEPT ![p] = "submitted"][q] = "submitted"
                                  => q = p \/ exec[e].res[q] = "submitted"
    BY <1>0
  <2> QED
    BY <1>2, <2>1, <2>2, <2>3, <2>4 DEF Moves, Backed
<1>10. ASSUME NEW p \in Participants,
              \/ \E payload \in run.payloads : AnswerRejected(e, p, payload)
              \/ AdapterFails(e, p)
       PROVE  Backed(e)
  <2>1. PICK result \in {"rejected", "failed"} : ResultIs(e, p, result)
    BY <1>10 DEF AnswerRejected, AdapterFails
  <2>2. exec[e].pc = "waiting" /\ UNCHANGED round
    BY <1>10 DEF AnswerRejected, AdapterFails, Awaits
  <2>3. Moves(e, exec[e].pc, exec[e].batch, exec[e].disp, exec[e].calls,
              [exec[e].res EXCEPT ![p] = result], exec[e].saw)
    BY <2>1, ResultMoves DEF Results
  <2>4. \A q \in Participants : [exec[e].res EXCEPT ![p] = result][q] = "submitted"
                                  => exec[e].res[q] = "submitted"
    BY <1>0
  <2> QED
    BY <1>2, <2>2, <2>3, <2>4 DEF Moves, Backed
<1>11. CASE DecideReveal(e)
  <2> DEFINE pc == IF Owns(e) THEN "closing" ELSE "leaving"
  <2>1. /\ exec' = [exec EXCEPT ![e].pc = pc, ![e].disp = Merged(e)]
        /\ pc \in InTurn \cup {"leaving"} /\ pc # "closed" /\ round' = round
    BY <1>11 DEF DecideReveal, InTurn
  <2> HIDE DEF pc
  <2>2. Moves(e, pc, exec[e].batch, Merged(e), exec[e].calls, exec[e].res, exec[e].saw)
    BY <2>1, MergeMoves
  <2> QED
    BY <1>2, <1>3, <2>1, <2>2 DEF Moves, Backed
<1>12. CASE CloseBatch(e)
  <2>1. GoTo(e, "closed") /\ UNCHANGED round
    BY <1>12 DEF CloseBatch
  <2>2. MovesTo(e, "closed")
    BY <2>1, GoToMoves DEF InTurn
  <2>3. Revealed(ledger', exec[e].batch) # {}
    BY <1>12, CloseReveals
  <2> QED
    BY <1>2, <2>1, <2>2, <2>3 DEF MovesTo, Moves, Backed
<1> QED
  BY <1>4, <1>5, <1>6, <1>7, <1>8, <1>9, <1>10, <1>11, <1>12
  DEF Proceed, FirstTurn, AdapterTurn, LastTurns

LEMMA KeepsRecord ==
  ASSUME RoundTypeOK, IInv, ClaimInv, BatchInv, RecordNeverAhead, CopyInv, RoundNext
  PROVE  RecordNeverAhead' /\ CopyInv'
<1>1. /\ TypeOK' /\ TypeOK
      /\ \A b : ContributingAuthors(ledger, b) \subseteq ContributingAuthors(ledger', b)
      /\ \A b : Revealed(ledger, b) # {} => Revealed(ledger', b) # {}
  BY StepOfBatches, LedgerGrows DEF IInv
<1> DEFINE Record == /\ Submitted(round'.disp) \subseteq ContributingAuthors(ledger', round'.batch)
                     /\ round'.status = "revealed" => Revealed(ledger', round'.batch) # {}
           Copy(e) ==
             /\ Submitted(exec'[e].disp) \subseteq ContributingAuthors(ledger', exec'[e].batch)
             /\ \A p \in Participants : exec'[e].res[p] = "submitted" =>
                  p \in ContributingAuthors(ledger', exec'[e].batch)
             /\ exec'[e].pc = "closed" => Revealed(ledger', exec'[e].batch) # {}
           Both == Record /\ \A e \in Execs : Copy(e)
<1>2. ASSUME UNCHANGED <<round.disp, round.batch, round.status>> PROVE Record
  BY <1>1, <1>2 DEF RecordNeverAhead
<1>3. ASSUME NEW e \in Execs, exec'[e] = exec[e] PROVE Copy(e)
  BY <1>1, <1>3 DEF CopyInv
<1>4. ASSUME NEW e \in Execs, exec'[e] = Idle PROVE Copy(e)
  BY <1>4 DEF Idle, Pending, Unasked, Submitted
<1>5. ASSUME NEW e \in Execs, NEW r \in run.rounds, Claims(e, r) PROVE Both
  <2>0. /\ round'.status = "running"
        /\ round.id = r => /\ round'.batch = round.batch
                           /\ round'.disp = round.disp /\ round'.calls = round.calls
        /\ round.id # r => /\ round'.batch = NoBatch
                           /\ round'.disp = Pending /\ round'.calls = 0
    BY <1>5, ClaimedRecord
  <2>1. /\ ledger' = ledger
        /\ exec'[e].pc = "claimed" /\ exec'[e].batch = round'.batch
        /\ exec'[e].disp = round'.disp /\ exec'[e].res = Unasked
        /\ \A f \in Execs \ {e} : exec'[f] = exec[f]
    BY <1>5, ClaimChanges
  <2>2. Submitted(Pending) = {} /\ \A p \in Participants : Unasked[p] # "submitted"
    BY DEF Pending, Unasked, Submitted
  <2>3. Submitted(round'.disp) \subseteq ContributingAuthors(ledger', round'.batch)
    BY <1>1, <2>0, <2>1, <2>2 DEF RecordNeverAhead
  <2>4. Record /\ Copy(e)
    BY <2>0, <2>1, <2>2, <2>3
  <2> QED
    BY <1>3, <2>1, <2>4
<1>6. ASSUME NEW e \in Execs, Proceed(e), ~Release(e) PROVE Both
  <2>1. Backed(e)
    BY <1>6, ProceedBacked
  <2>2. Record
    BY <1>2, <2>1 DEF Backed
  <2>3. Copy(e)
    BY <2>1 DEF Backed
  <2>4. \A f \in Execs \ {e} : exec'[f] = exec[f]
    BY <1>1, <1>6, ProceedMoves
  <2> QED
    BY <1>3, <2>2, <2>3, <2>4
<1>7. ASSUME NEW e \in Execs, Release(e) PROVE Both
  BY <1>2, <1>3, <1>4, <1>7, ReleaseChanges
<1>8. ASSUME Crash PROVE Both
  BY <1>2, <1>4, <1>8 DEF Crash
<1>9. ASSUME \/ ExpireClaim \/ Clock
             \/ \E b \in Batches : \/ \E a \in Participants, payload \in run.payloads :
                                        HttpContribution(b, a, payload)
                                   \/ HttpClose(b)
      PROVE Both
  BY <1>2, <1>3, <1>9 DEF ExpireClaim, Clock, HttpContribution, HttpClose
<1> HIDE DEF Both
<1>10. Both
  BY <1>5, <1>6, <1>7, <1>8, <1>9 DEF RoundNext, RunStep, Claims
<1> QED
  BY <1>10 DEF Both, RecordNeverAhead, CopyInv
-----------------------------------------------------------------------------
(***************************************************************************)
(* The two judges of the reveal policy, and what participants were shown.  *)
(***************************************************************************)
LEMMA FiniteAuthors ==
  ASSUME NEW l \in Seq(EventType), NEW b
  PROVE  IsFiniteSet(ContributingAuthors(l, b))
<1> DEFINE S == Contributions(l, b)
           T == ContributingAuthors(l, b)
           f == [i \in S |-> l[i].author]
<1>1. IsFiniteSet(S)
  <2>1. DOMAIN l = 1..Len(l) /\ Len(l) \in Nat
    OBVIOUS
  <2>2. IsFiniteSet(1..Len(l))
    BY <2>1, FS_Interval
  <2>3. S \in SUBSET (1..Len(l))
    BY <2>1 DEF Contributions, OfType
  <2> QED
    BY <2>2, <2>3, FS_Subset
<1>2. f \in Surjection(S, T)
  BY DEF Surjection, ContributingAuthors
<1> HIDE DEF f, S, T
<1>3. IsFiniteSet(T)
  BY <1>1, <1>2, FS_Surjection
<1> QED
  BY <1>3 DEF T

LEMMA PolicyGrows ==
  ASSUME NEW cfg \in BatchConfig, NEW S, NEW T, S \subseteq T, IsFiniteSet(T),
         NEW t \in Nat, NEW u \in Nat, t <= u, PolicyAllows(cfg, S, t)
  PROVE  PolicyAllows(cfg, T, u)
<1>1. /\ Cardinality(S) <= Cardinality(T)
      /\ Cardinality(S) \in Nat /\ Cardinality(T) \in Nat
  BY FS_Subset, FS_CardinalityType
<1>2. cfg.quorumCount \in Nat /\ cfg.deadlineAt \in Nat
  BY DEF BatchConfig
<1> QED
  BY <1>1, <1>2 DEF PolicyAllows

LEMMA RunnerAgrees ==
  ASSUME RoundTypeOK, NEW e \in Execs, NEW S, RunnerReveals(e, S)
  PROVE  PolicyAllows(plan, S, now)
<1>1. plan.participants = Participants
  BY RunFacts DEF RoundTypeOK
<1> QED
  BY <1>1 DEF RunnerReveals, PolicyAllows

\* Which action brings an execution to which point.
LEMMA Arrives ==
  ASSUME RoundTypeOK, NEW e \in Execs, Proceed(e)
  PROVE  /\ exec'[e].pc = "closing" => DecideReveal(e)
         /\ exec'[e].pc = "opened" => \E b \in Batches : OpenBatch(e, b)
         /\ exec'[e].pc = "waiting" => Dispatch(e) \/ AdapterTurn(e)
         /\ exec'[e].pc # "claimed"
<1>1. ASSUME BudgetFails(e) \/ OpenFails(e) \/ CloseFails(e) \/ RecordReveal(e) \/ CloseBatch(e)
      PROVE  exec'[e].pc \in {"leaving", "closed"}
  <2>1. PICK pc \in {"leaving", "closed"} : GoTo(e, pc)
    BY <1>1 DEF BudgetFails, OpenFails, CloseFails, RecordReveal, CloseBatch
  <2> QED
    BY <2>1, GoToMoves DEF MovesTo, Moves, InTurn
<1>2. ASSUME Dispatch(e) PROVE exec'[e].pc = "waiting"
  BY <1>2, DispatchChanges DEF Moves
<1>3. ASSUME WaitInRecord(e) \/ DecideReveal(e)
      PROVE  \/ exec'[e].pc = "leaving"
             \/ exec'[e].pc = "closing" /\ DecideReveal(e)
  <2>1. PICK pc \in {"closing", "leaving"} :
          /\ exec' = [exec EXCEPT ![e].pc = pc, ![e].disp = Merged(e)]
          /\ pc = "closing" => DecideReveal(e)
    BY <1>3 DEF WaitInRecord, DecideReveal
  <2>2. Moves(e, pc, exec[e].batch, Merged(e), exec[e].calls, exec[e].res, exec[e].saw)
    BY <2>1, MergeMoves DEF InTurn
  <2>3. exec'[e].pc = pc
    BY <2>2 DEF Moves
  <2> QED
    BY <2>1, <2>3
<1>4. ASSUME Release(e) PROVE exec'[e].pc = "idle"
  BY <1>4, ReleaseChanges DEF Idle
<1>5. ASSUME NEW b \in Batches, OpenBatch(e, b) PROVE exec'[e].pc = "opened"
  <2>1. PICK batch : exec' = [exec EXCEPT ![e].pc = "opened", ![e].batch = batch]
    BY <1>5 DEF OpenBatch
  <2> QED
    BY <2>1 DEF RoundTypeOK, ExecType
<1>6. ASSUME AdapterTurn(e) PROVE exec'[e].pc = "waiting"
  <2>1. PICK p \in Participants, result \in Results :
          ResultIs(e, p, result) /\ exec[e].pc = "waiting"
    BY <1>6 DEF AdapterTurn, Answer, AnswerRejected, AdapterFails, Awaits, Results
  <2> QED
    BY <2>1, ResultMoves DEF Moves
<1> QED
  BY <1>1, <1>2, <1>3, <1>4, <1>5, <1>6 DEF Proceed, FirstTurn, LastTurns

LEMMA KeepsPoliciesAgree ==
  ASSUME RoundTypeOK, IInv, ClaimInv, BatchInv, CopyInv, PoliciesAgree, RoundNext
  PROVE  PoliciesAgree'
<1> SUFFICES ASSUME NEW e \in Execs, exec'[e].pc = "closing"
             PROVE  PolicyAllows(plan', ContributingAuthors(ledger', exec'[e].batch), now')
  BY DEF PoliciesAgree
<1>1. /\ TypeOK' /\ TypeOK /\ now \in Nat /\ now' \in Nat /\ now <= now'
      /\ \A b : ContributingAuthors(ledger, b) \subseteq ContributingAuthors(ledger', b)
  BY StepOfBatches, LedgerGrows DEF IInv
<1>2. plan' = plan /\ plan \in BatchConfig
  BY RunFacts DEF RoundNext, plan, RoundTypeOK
<1>3. IsFiniteSet(ContributingAuthors(ledger', exec'[e].batch))
  BY <1>1, FiniteAuthors DEF TypeOK
<1>4. CASE exec'[e] = exec[e]
  <2>1. PolicyAllows(plan, ContributingAuthors(ledger, exec[e].batch), now)
    BY <1>4 DEF PoliciesAgree
  <2> QED
    BY <1>1, <1>2, <1>3, <1>4, <2>1, PolicyGrows
<1>5. CASE Proceed(e)
  <2>1. DecideReveal(e)
    BY <1>5, Arrives
  <2>2. exec'[e].batch = exec[e].batch
    BY <2>1 DEF DecideReveal, RoundTypeOK, ExecType
  <2>3. PolicyAllows(plan, Submitted(Merged(e)), now)
    BY <2>1, RunnerAgrees DEF DecideReveal
  <2>4. Submitted(Merged(e)) \subseteq ContributingAuthors(ledger', exec'[e].batch)
    BY <1>1, <2>2, MergedSubmitted
  <2> QED
    BY <1>1, <1>2, <1>3, <2>3, <2>4, PolicyGrows
<1>6. ASSUME NEW r \in run.rounds, Claims(e, r) PROVE FALSE
  <2>1. exec'[e].pc = "claimed"
    BY <1>6, ClaimChanges
  <2> QED
    BY <2>1
<1>7. exec'[e] # Idle
  BY DEF Idle
<1> QED
  BY <1>1, <1>4, <1>5, <1>6, <1>7, ExecSteps

\* How an execution's batch, results and view change in a step of its own.
LEMMA ProceedViews ==
  ASSUME RoundTypeOK, IInv, ClaimInv, BatchInv, ViewInv, NEW e \in Execs,
         Proceed(e), ~Release(e), exec'[e].saw
  PROVE  /\ exec'[e].batch = exec[e].batch
         /\ Revealed(ledger, exec[e].batch) # {}
         /\ \A p \in Participants : exec'[e].res[p] # "submitted"
<1>0. exec[e].res \in [Participants -> Results] /\ TypeOK
  BY DEF RoundTypeOK, ExecType, IInv
<1>1. CASE /\ exec'[e].saw = exec[e].saw /\ exec'[e].batch = exec[e].batch
           /\ exec'[e].res = exec[e].res
  BY <1>1 DEF ViewInv
<1>2. ASSUME BudgetFails(e) \/ OpenFails(e) \/ CloseFails(e) \/ RecordReveal(e) \/ CloseBatch(e)
      PROVE  /\ exec'[e].saw = exec[e].saw /\ exec'[e].batch = exec[e].batch
             /\ exec'[e].res = exec[e].res
  <2>1. PICK pc \in {"leaving", "closed"} : GoTo(e, pc)
    BY <1>2 DEF BudgetFails, OpenFails, CloseFails, RecordReveal, CloseBatch
  <2> QED
    BY <2>1, GoToMoves DEF MovesTo, Moves, InTurn
<1>3. CASE Dispatch(e)
  <2>1. /\ exec'[e].batch = exec[e].batch /\ exec'[e].res = DispatchRes(e)
        /\ exec'[e].saw = \E i \in Contributions(ledger, exec[e].batch) : CanExpose(ledger, i)
    BY <1>3, DispatchChanges DEF Moves
  <2>2. PICK i \in Contributions(ledger, exec[e].batch) : CanExpose(ledger, i)
    BY <2>1
  <2>3. Revealed(ledger, exec[e].batch) # {}
    BY <2>2 DEF Contributions, OfType, CanExpose
  <2>4. \A p \in Participants : DispatchRes(e)[p] # "submitted"
    BY DEF DispatchRes
  <2> QED
    BY <2>1, <2>3, <2>4
<1>4. ASSUME WaitInRecord(e) \/ DecideReveal(e)
      PROVE  /\ exec'[e].saw = exec[e].saw /\ exec'[e].batch = exec[e].batch
             /\ exec'[e].res = exec[e].res
  <2>1. PICK pc \in InTurn \cup {"leaving"} :
          exec' = [exec EXCEPT ![e].pc = pc, ![e].disp = Merged(e)]
    BY <1>4 DEF WaitInRecord, DecideReveal, InTurn
  <2>2. Moves(e, pc, exec[e].batch, Merged(e), exec[e].calls, exec[e].res, exec[e].saw)
    BY <2>1, MergeMoves
  <2> QED
    BY <2>2 DEF Moves
<1>5. CASE \E b \in Batches : OpenBatch(e, b)
  <2>1. exec[e].batch = NoBatch
    BY <1>5 DEF OpenBatch
  <2>2. exec'[e].saw = exec[e].saw
    BY <1>5, OpenChanges DEF Moves
  <2> QED
    BY <1>0, <2>1, <2>2, NoBatchIsEmpty DEF ViewInv
<1>6. ASSUME NEW p \in Participants, NEW payload \in run.payloads, Answer(e, p, payload)
      PROVE  FALSE
  <2>1. ResultIs(e, p, "submitted") /\ Revealed(ledger, exec[e].batch) = {}
    BY <1>6 DEF Answer, CoreAccepts, CanSubmit, IsOpen
  <2>2. exec'[e].saw = exec[e].saw
    BY <2>1, ResultMoves DEF Moves, Results
  <2> QED
    BY <2>1, <2>2 DEF ViewInv
<1>7. ASSUME NEW p \in Participants,
             \/ \E payload \in run.payloads : AnswerRejected(e, p, payload)
             \/ AdapterFails(e, p)
      PROVE  /\ exec'[e].batch = exec[e].batch
             /\ Revealed(ledger, exec[e].batch) # {}
             /\ \A q \in Participants : exec'[e].res[q] # "submitted"
  <2>1. PICK result \in {"rejected", "failed"} : ResultIs(e, p, result)
    BY <1>7 DEF AnswerRejected, AdapterFails
  <2>2. Moves(e, exec[e].pc, exec[e].batch, exec[e].disp, exec[e].calls,
              [exec[e].res EXCEPT ![p] = result], exec[e].saw)
    BY <2>1, ResultMoves DEF Results
  <2>3. \A q \in Participants : [exec[e].res EXCEPT ![p] = result][q] = "submitted"
                                  => exec[e].res[q] = "submitted"
    BY <1>0
  <2> QED
    BY <2>2, <2>3 DEF Moves, ViewInv
<1> QED
  BY <1>1, <1>2, <1>3, <1>4, <1>5, <1>6, <1>7 DEF Proceed, FirstTurn, AdapterTurn, LastTurns

LEMMA KeepsViewInv ==
  ASSUME RoundTypeOK, IInv, ClaimInv, BatchInv, ViewInv, RoundNext
  PROVE  ViewInv'
<1> SUFFICES ASSUME NEW e \in Execs, exec'[e].saw
             PROVE  /\ Revealed(ledger', exec'[e].batch) # {}
                    /\ \A p \in Participants : exec'[e].res[p] # "submitted"
  BY DEF ViewInv
<1>1. TypeOK /\ \A b : Revealed(ledger, b) # {} => Revealed(ledger', b) # {}
  BY StepOfBatches, LedgerGrows DEF IInv
<1>2. CASE exec'[e] = exec[e]
  BY <1>1, <1>2 DEF ViewInv
<1>3. CASE Proceed(e) /\ ~Release(e)
  BY <1>1, <1>3, ProceedViews
<1>4. ASSUME NEW r \in run.rounds, Claims(e, r) PROVE FALSE
  <2>1. exec'[e].saw = FALSE
    BY <1>4, ClaimChanges
  <2> QED
    BY <2>1
<1>5. exec'[e] # Idle
  BY DEF Idle
<1> QED
  BY <1>1, <1>2, <1>3, <1>4, <1>5, ExecSteps

LEMMA OneOpenBatch ==
  ASSUME RoundTypeOK, BatchInv
  PROVE  AtMostOneOpenBatch
<1> SUFFICES ASSUME NEW b \in Batches, NEW c \in Batches, IsOpen(ledger, b), IsOpen(ledger, c)
             PROVE  b = c
  BY DEF AtMostOneOpenBatch
<1>1. BatchOf(ledger, round.id, b) /\ BatchOf(ledger, round.id, c)
  BY DEF BatchInv
<1>2. PICK i \in Opened(ledger, b) : ledger[i].key = RoundKey(round.id, "open")
  BY <1>1 DEF BatchOf
<1>3. PICK r \in Rounds : ledger[i].key = RoundKey(r, "open")
  BY <1>2 DEF BatchInv, Opened, OfType
<1>4. round.id \in Rounds
  BY <1>2, <1>3, KeysDiffer
<1> QED
  BY <1>1, <1>4, OneBatchPerRound DEF BatchInv
-----------------------------------------------------------------------------
(***************************************************************************)
(* The budgets.                                                            *)
(***************************************************************************)
\* Only a dispatch counts calls.
LEMMA ProceedCalls ==
  ASSUME RoundTypeOK, ClaimInv, TypeOK, NEW e \in Execs,
         Proceed(e), ~Release(e), ~Dispatch(e)
  PROVE  /\ exec'[e].calls = exec[e].calls /\ called' = called
         /\ UNCHANGED round \/ round'.calls = exec[e].calls
<1>0. /\ exec[e].batch \in Batches \cup {NoBatch} /\ exec[e].calls \in Nat
      /\ exec[e].disp \in [Participants -> Dispositions]
  BY DEF RoundTypeOK, ExecType
<1>1. CASE BudgetFails(e) \/ OpenFails(e) \/ CloseFails(e)
  <2>1. FailRound(e) /\ GoTo(e, "leaving") /\ called' = called
    BY <1>1 DEF BudgetFails, OpenFails, CloseFails
  <2>2. Writes("failed", exec[e].batch, exec[e].disp, exec[e].calls) /\ MovesTo(e, "leaving")
    BY <2>1, FailWrites, GoToMoves
  <2> QED
    BY <2>1, <2>2 DEF Writes, MovesTo, Moves
<1>2. CASE WaitInRecord(e) \/ DecideReveal(e)
  <2>1. /\ \E pc \in InTurn \cup {"leaving"} :
             exec' = [exec EXCEPT ![e].pc = pc, ![e].disp = Merged(e)]
        /\ called' = called
    BY <1>2 DEF WaitInRecord, DecideReveal, InTurn
  <2>2. exec'[e].calls = exec[e].calls /\ Merged(e) \in [Participants -> Dispositions]
    BY <2>1, MergeMoves DEF Moves
  <2>3. UNCHANGED round \/ \E status \in Statuses :
          SetRound(e, status, exec[e].batch, Merged(e), exec[e].calls)
    BY <1>2 DEF WaitInRecord, DecideReveal, Statuses
  <2> QED
    BY <1>0, <2>1, <2>2, <2>3, SetWrites DEF Writes
<1>3. CASE RecordReveal(e)
  <2>1. /\ SetRound(e, "revealed", exec[e].batch, exec[e].disp, exec[e].calls)
        /\ GoTo(e, "leaving") /\ called' = called
    BY <1>3 DEF RecordReveal
  <2>2. /\ Writes("revealed", exec[e].batch, exec[e].disp, exec[e].calls)
        /\ MovesTo(e, "leaving")
    BY <1>0, <2>1, SetWrites, GoToMoves DEF Statuses
  <2> QED
    BY <2>1, <2>2 DEF Writes, MovesTo, Moves
<1>4. CASE \E b \in Batches : OpenBatch(e, b)
  <2>1. PICK batch : exec' = [exec EXCEPT ![e].pc = "opened", ![e].batch = batch]
    BY <1>4 DEF OpenBatch
  <2>2. exec'[e].calls = exec[e].calls
    BY <2>1 DEF RoundTypeOK, ExecType
  <2> QED
    BY <1>4, <2>2 DEF OpenBatch
<1>5. CASE AdapterTurn(e)
  <2>1. PICK p \in Participants, result \in Results : ResultIs(e, p, result)
    BY <1>5 DEF AdapterTurn, Answer, AnswerRejected, AdapterFails, Results
  <2>2. called' = called /\ UNCHANGED round
    BY <1>5 DEF AdapterTurn, Answer, AnswerRejected, AdapterFails
  <2> QED
    BY <2>1, <2>2, ResultMoves DEF Moves
<1>6. CASE CloseBatch(e)
  <2>1. MovesTo(e, "closed")
    BY <1>6, GoToMoves DEF CloseBatch, InTurn
  <2> QED
    BY <1>6, <2>1 DEF CloseBatch, MovesTo, Moves
<1> QED
  BY <1>1, <1>2, <1>3, <1>4, <1>5, <1>6 DEF Proceed, FirstTurn, LastTurns

\* What an execution is going to ask after the opening of the batch is what it
\* was budgeted for before.
LEMMA OpeningKeepsEstimate ==
  ASSUME RoundTypeOK, RoundNext, plan.revealPolicy # "deadline", NEW e \in Execs,
         exec'[e].disp = exec[e].disp, exec'[e].retry = exec[e].retry,
         exec'[e].auto = exec[e].auto
  PROVE  /\ ToExecute(e)' = ToExecute(e)
         /\ \A S : RunnerReveals(e, S)' <=> RunnerReveals(e, S)
  BY DEF ToExecute, RunnerReveals, plan, RoundNext

LEMMA CallsOfOpening ==
  ASSUME RoundTypeOK, NEW e \in Execs, NEW b \in Batches, OpenBatch(e, b)
  PROVE  /\ exec[e].pc = "claimed" /\ exec'[e].pc = "opened"
         /\ exec'[e].calls = exec[e].calls /\ exec'[e].disp = exec[e].disp
         /\ exec'[e].retry = exec[e].retry /\ exec'[e].auto = exec[e].auto
         /\ exec'[e].round = exec[e].round
         /\ UNCHANGED <<round, called>>
<1>1. PICK batch : exec' = [exec EXCEPT ![e].pc = "opened", ![e].batch = batch]
  BY DEF OpenBatch
<1>2. /\ exec'[e].calls = exec[e].calls /\ exec'[e].disp = exec[e].disp
      /\ exec'[e].retry = exec[e].retry /\ exec'[e].auto = exec[e].auto
      /\ exec'[e].round = exec[e].round /\ exec'[e].pc = "opened"
  BY <1>1 DEF RoundTypeOK, ExecType
<1> QED
  BY <1>2 DEF OpenBatch

CountsCalls(r) ==
  run.rounds = {r} => /\ called[r] <= run.callBudget
                      /\ round.id = r => called[r] = round.calls

LEMMA KeepsCallsInv ==
  ASSUME RoundTypeOK, ClaimInv, TypeOK, CallsInv, RoundNext
  PROVE  CallsInv'
<1>0. /\ round \in RecordType /\ called \in [Rounds -> Nat] /\ run.callBudget \in Nat
      /\ exec \in [Execs -> ExecType] /\ run' = run /\ run.rounds \subseteq Rounds
  BY RunFacts DEF RoundTypeOK, RoundNext
<1> DEFINE Empty == round'.id = NoRound => round'.calls = 0 /\ \A r \in Rounds : called'[r] = 0
           Asked == round'.id \in Rounds => round'.id \in run.rounds
           Counted == \A r \in Rounds : CountsCalls(r)'
           Copied(e) ==
             /\ Owns(e)' /\ exec'[e].pc \notin {"idle", "leaving"} =>
                  exec'[e].calls = round'.calls
             /\ exec'[e].pc = "opened" =>
                  exec'[e].calls + Cardinality(ToExecute(e)') <= run.callBudget
           All == Empty /\ Asked /\ Counted /\ \A e \in Execs : Copied(e)
<1>1. ASSUME round'.id = round.id, round'.calls = round.calls, called' = called
      PROVE  Empty /\ Asked /\ Counted
  BY <1>0, <1>1 DEF CallsInv, CountsCalls
<1>2. ASSUME NEW e \in Execs, exec'[e] = exec[e], Owns(e)' => Owns(e) /\ round'.calls = round.calls
      PROVE  Copied(e)
  <2>1. ToExecute(e)' = ToExecute(e)
    BY <1>2 DEF ToExecute
  <2> QED
    BY <1>2, <2>1 DEF CallsInv
<1>3. ASSUME NEW e \in Execs, exec'[e] = Idle PROVE Copied(e)
  BY <1>3 DEF Idle
<1>4. ASSUME NEW e \in Execs, NEW r \in run.rounds, Claims(e, r) PROVE All
  <2>1. /\ round'.id = r /\ round'.claim = e /\ r \in Rounds
        /\ exec'[e].pc = "claimed" /\ exec'[e].calls = round'.calls
        /\ called' = called
    BY <1>4, ClaimChanges
  <2>2. /\ round.id = r => /\ round'.batch = round.batch
                           /\ round'.disp = round.disp /\ round'.calls = round.calls
        /\ round.id # r => /\ round'.batch = NoBatch
                           /\ round'.disp = Pending /\ round'.calls = 0
    BY <1>4, ClaimedRecord
  <2>2a. \A f \in Execs \ {e} : exec'[f] = exec[f]
    BY <1>4, ClaimChanges
  <2>3. Empty /\ Asked
    BY <2>1, NamesAssumption
  <2>4. ASSUME NEW s \in Rounds PROVE CountsCalls(s)'
    <3>1. CASE run.rounds = {s}
      <4>1. s = r /\ (round.id = r \/ round.id = NoRound)
        BY <1>0, <3>1 DEF CallsInv, RecordType
      <4>2. called[r] <= run.callBudget /\ called[r] = round'.calls
        BY <2>1, <2>2, <3>1, <4>1, NamesAssumption DEF CallsInv
      <4> QED
        BY <1>0, <2>1, <4>1, <4>2 DEF CountsCalls
    <3>2. CASE run.rounds # {s}
      BY <1>0, <3>2 DEF CountsCalls
    <3> QED
      BY <3>1, <3>2
  <2>5. ASSUME NEW f \in Execs \ {e} PROVE Copied(f)
    BY <1>2, <2>1, <2>2a DEF Owns
  <2>6. Copied(e)
    BY <2>1
  <2> QED
    BY <2>3, <2>4, <2>5, <2>6
<1>5. ASSUME NEW e \in Execs, Dispatch(e) PROVE All
  <2> DEFINE n == Cardinality(ToExecute(e))
             r == exec[e].round
  <2>1. /\ exec[e].pc \in {"claimed", "opened"}
        /\ exec[e].calls + n <= run.callBudget
    <3>1. CASE exec[e].pc = "opened"
      BY <3>1 DEF CallsInv
    <3>2. CASE exec[e].pc = "claimed" /\ BudgetAllows(e)
      BY <3>2 DEF BudgetAllows
    <3> QED
      BY <1>5, <3>1, <3>2 DEF Dispatch
  <2>2. Owns(e) /\ round.id = r /\ r \in Rounds /\ exec[e].calls = round.calls
    BY <2>1, TurnIsAlone DEF InTurn, Owns, CallsInv
  <2>3. /\ round'.id = round.id /\ round'.claim = round.claim
        /\ round'.calls = exec[e].calls + n
    BY <1>5, DispatchChanges DEF Writes
  <2>4. /\ exec'[e].pc = "waiting" /\ exec'[e].calls = exec[e].calls + n
        /\ \A f \in Execs \ {e} : exec'[f] = exec[f]
    BY <1>5, DispatchChanges DEF Moves
  <2>5. called' = [called EXCEPT ![r] = @ + n]
    BY <1>5, DispatchChanges
  <2>6. n \in Nat
    BY AskedCount DEF ToExecute
  <2> HIDE DEF n
  <2>7. Empty /\ Asked
    BY <2>2, <2>3, NamesAssumption DEF CallsInv
  <2>8. ASSUME NEW s \in Rounds PROVE CountsCalls(s)'
    <3>1. CASE run.rounds = {s}
      <4>1. s = r /\ called[r] = round.calls
        BY <2>2, <3>1 DEF CallsInv
      <4>2. called'[r] = called[r] + n
        BY <1>0, <2>2, <2>5
      <4> QED
        BY <1>0, <2>1, <2>2, <2>3, <4>1, <4>2 DEF CountsCalls
    <3>2. CASE run.rounds # {s}
      BY <1>0, <3>2 DEF CountsCalls
    <3> QED
      BY <3>1, <3>2
  <2>9. ASSUME NEW f \in Execs \ {e} PROVE Copied(f)
    BY <1>2, <2>2, <2>3, <2>4 DEF Owns
  <2>10. Copied(e)
    BY <2>3, <2>4
  <2> QED
    BY <2>7, <2>8, <2>9, <2>10
<1>6. ASSUME NEW e \in Execs, Proceed(e), ~Release(e), ~Dispatch(e) PROVE All
  <2>1. /\ exec'[e].calls = exec[e].calls /\ called' = called
        /\ UNCHANGED round \/ round'.calls = exec[e].calls
    BY <1>6, ProceedCalls
  <2>2. /\ exec[e].pc \notin {"idle", "leaving"} /\ exec'[e].round = exec[e].round
        /\ \A f \in Execs \ {e} : exec'[f] = exec[f]
    BY <1>6, ProceedMoves
  <2>3. UNCHANGED round \/ /\ Owns(e)
                           /\ round'.id = round.id /\ round'.claim = round.claim
    BY <1>6, OwnersWrite
  <2>4. round'.id = round.id /\ round'.claim = round.claim /\ round'.calls = round.calls
    BY <2>1, <2>2, <2>3 DEF CallsInv
  <2>5. Empty /\ Asked /\ Counted
    BY <1>1, <2>1, <2>4
  <2>6. ASSUME NEW f \in Execs \ {e} PROVE Copied(f)
    BY <1>2, <2>2, <2>4 DEF Owns
  <2>7. Owns(e)' => exec'[e].calls = round'.calls
    BY <2>1, <2>2, <2>4 DEF Owns, CallsInv
  <2>8. ASSUME exec'[e].pc = "opened"
        PROVE  exec'[e].calls + Cardinality(ToExecute(e)') <= run.callBudget
    <3>1. PICK b \in Batches : OpenBatch(e, b)
      BY <1>6, <2>8, Arrives
    <3>2. exec'[e].disp = exec[e].disp /\ exec'[e].retry = exec[e].retry
      BY <3>1, CallsOfOpening
    <3>3. ToExecute(e)' = ToExecute(e)
      BY <3>2 DEF ToExecute
    <3> QED
      BY <2>1, <3>1, <3>3 DEF OpenBatch, BudgetAllows
  <2> QED
    BY <2>5, <2>6, <2>7, <2>8
<1>7. ASSUME NEW e \in Execs, Release(e) PROVE All
  <2>1. /\ round'.id = round.id /\ round'.calls = round.calls
        /\ round'.claim = IF Owns(e) THEN NoExec ELSE round.claim
        /\ exec'[e] = Idle /\ \A f \in Execs \ {e} : exec'[f] = exec[f]
        /\ called' = called
    BY <1>7, ReleaseChanges DEF Release
  <2>2. ASSUME NEW f \in Execs \ {e} PROVE Copied(f)
    BY <1>2, <2>1, NamesAssumption DEF Owns
  <2> QED
    BY <1>1, <1>3, <2>1, <2>2
<1>8. ASSUME Crash PROVE All
  BY <1>1, <1>3, <1>8 DEF Crash
<1>9. ASSUME \/ ExpireClaim \/ Clock
             \/ \E b \in Batches : \/ \E a \in Participants, payload \in run.payloads :
                                        HttpContribution(b, a, payload)
                                   \/ HttpClose(b)
      PROVE All
  <2>1. UNCHANGED <<round, exec, called>>
    BY <1>9 DEF ExpireClaim, Clock, HttpContribution, HttpClose
  <2> QED
    BY <1>1, <1>2, <2>1 DEF Owns
<1> HIDE DEF All
<1>10. All
  BY <1>4, <1>5, <1>6, <1>7, <1>8, <1>9 DEF RoundNext, RunStep, Claims
<1> QED
  BY <1>0, <1>10 DEF All, CallsInv, CountsCalls

LEMMA OneEventAtMost ==
  ASSUME RoundTypeOK, IInv, ClaimInv, BatchInv, RoundNext
  PROVE  /\ Len(ledger) \in Nat /\ Len(ledger') \in Nat
         /\ Len(ledger') <= Len(ledger) + 1
  BY StepEvents DEF IInv, TypeOK

\* Of the executions only the owner of the claim appends.
LEMMA OwnersAppend ==
  ASSUME RoundTypeOK, ClaimInv, NEW e \in Execs, Proceed(e), ledger' # ledger
  PROVE  /\ Owns(e)
         /\ \/ \E b \in Batches : OpenBatch(e, b)
            \/ \E p \in Participants, payload \in run.payloads : Answer(e, p, payload)
            \/ CloseBatch(e)
<1>1. ASSUME ~(\E b \in Batches : OpenBatch(e, b)), ~CloseBatch(e),
             ~(\E p \in Participants, payload \in run.payloads : Answer(e, p, payload))
      PROVE  FALSE
  BY <1>1 DEF Proceed, FirstTurn, AdapterTurn, LastTurns, BudgetFails, OpenFails, Dispatch,
              AnswerRejected, AdapterFails, WaitInRecord, DecideReveal, CloseFails,
              RecordReveal, Release
<1>2. (\E b \in Batches : OpenBatch(e, b)) \/ CloseBatch(e) => Owns(e)
  BY TurnIsAlone DEF OpenBatch, CloseBatch, InTurn
<1>3. (\E p \in Participants, payload \in run.payloads : Answer(e, p, payload)) => Owns(e)
  BY DEF Answer
<1> QED
  BY <1>1, <1>2, <1>3

\* The runner's policies but the deadline are monotone.
LEMMA RunnerGrows ==
  ASSUME RoundTypeOK, NEW e \in Execs, plan.revealPolicy # "deadline",
         NEW S, NEW T \in SUBSET Participants, S \subseteq T, RunnerReveals(e, S)
  PROVE  RunnerReveals(e, T)
<1>1. /\ Cardinality(S) <= Cardinality(T)
      /\ Cardinality(S) \in Nat /\ Cardinality(T) \in Nat
  BY AskedCount, FS_Subset
<1>2. plan.quorumCount \in Nat
  BY RunFacts DEF RoundTypeOK, BatchConfig
<1> QED
  BY <1>1, <1>2 DEF RunnerReveals

\* What execution e may still append at the points of its way.
Reserved(e) ==
  /\ exec[e].pc = "opened" =>
       Len(ledger) + Cardinality(ToExecute(e))
         + One(RunnerReveals(e, Submitted(exec[e].disp) \cup ToExecute(e)))
         <= run.maxEvents
  /\ exec[e].pc = "waiting" =>
       Len(ledger) + Cardinality(AwaitedBy(e))
         + One(RunnerReveals(e, Submitted(exec[e].disp) \cup AskedBy(e)))
         <= run.maxEvents
  /\ exec[e].pc = "closing" => Len(ledger) + 1 <= run.maxEvents

LEMMA KeepsReservation ==
  ASSUME RoundTypeOK, IInv, ClaimInv, BatchInv, RoundNext,
         plan.revealPolicy # "deadline", Len(ledger) <= run.maxEvents,
         NEW e \in Execs, Owns(e), Reserved(e), Proceed(e), ~Release(e)
  PROVE  Len(ledger') <= run.maxEvents /\ Reserved(e)'
<1> DEFINE S == Submitted(exec[e].disp) \cup ToExecute(e)
           W == Submitted(exec[e].disp) \cup AskedBy(e)
<1>0. /\ Len(ledger) \in Nat /\ Len(ledger') \in Nat /\ Len(ledger') <= Len(ledger) + 1
      /\ run.maxEvents \in Nat /\ run' = run /\ plan' = plan /\ TypeOK
      /\ exec[e].disp \in [Participants -> Dispositions]
      /\ exec[e].res \in [Participants -> Results]
      /\ exec[e] \in ExecType
  BY OneEventAtMost, RunFacts DEF RoundTypeOK, RoundNext, plan, ExecType, IInv
<1>1. /\ ToExecute(e) \in SUBSET Participants /\ AwaitedBy(e) \in SUBSET Participants
      /\ AskedBy(e) \in SUBSET Participants /\ Submitted(exec[e].disp) \in SUBSET Participants
  BY <1>0 DEF ToExecute, AwaitedBy, AskedBy, Submitted
<1>2. /\ Cardinality(ToExecute(e)) \in Nat /\ Cardinality(AwaitedBy(e)) \in Nat
      /\ IsFiniteSet(AwaitedBy(e))
  BY <1>1, AskedCount
<1>3. \A condition : One(condition) \in {0, 1}
  BY DEF One
<1>4. ASSUME NEW b \in Batches, OpenBatch(e, b)
      PROVE  Len(ledger') <= run.maxEvents /\ Reserved(e)'
  <2>1. /\ exec[e].pc = "claimed" /\ exec'[e].pc = "opened"
        /\ exec'[e].disp = exec[e].disp
        /\ exec'[e].retry = exec[e].retry /\ exec'[e].auto = exec[e].auto
    BY <1>4, CallsOfOpening
  <2>2. Len(ledger) + 1 + Cardinality(ToExecute(e)) + One(RunnerReveals(e, S)) <= run.maxEvents
    BY <1>0, <1>2, <1>4 DEF OpenBatch, BudgetAllows, EstimatedEvents, One
  <2>3. ToExecute(e)' = ToExecute(e) /\ (RunnerReveals(e, S)' <=> RunnerReveals(e, S))
    BY <2>1, OpeningKeepsEstimate
  <2>4. One(RunnerReveals(e, S)') = One(RunnerReveals(e, S))
    BY <2>3 DEF One
  <2>5. S' = S
    BY <2>1, <2>3
  <2>6. Len(ledger') + Cardinality(ToExecute(e)') + One(RunnerReveals(e, S)') <= run.maxEvents
    BY <1>0, <1>2, <1>3, <2>2, <2>3, <2>4
  <2> QED
    BY <1>0, <1>2, <1>3, <2>1, <2>2, <2>6 DEF Reserved
<1>5. ASSUME Dispatch(e) PROVE Len(ledger') <= run.maxEvents /\ Reserved(e)'
  <2>1. /\ exec'[e].pc = "waiting" /\ exec'[e].disp = DispatchDisp(e)
        /\ exec'[e].res = DispatchRes(e) /\ exec'[e].auto = exec[e].auto
    BY <1>5, DispatchChanges DEF Moves
  <2>2. ledger' = ledger /\ now' = now
    BY <1>5 DEF Dispatch
  <2>3. Len(ledger) + Cardinality(ToExecute(e)) + One(RunnerReveals(e, S)) <= run.maxEvents
    <3>1. CASE exec[e].pc = "opened"
      BY <3>1 DEF Reserved
    <3>2. CASE exec[e].pc = "claimed" /\ exec[e].batch # NoBatch /\ BudgetAllows(e)
      BY <1>0, <1>2, <3>2 DEF BudgetAllows, EstimatedEvents, One
    <3> QED
      BY <1>5, <3>1, <3>2 DEF Dispatch
  <2>4. AskedBy(e)' = ToExecute(e) /\ AwaitedBy(e)' = ToExecute(e)
    BY <1>1, <2>1 DEF AskedBy, AwaitedBy, DispatchRes
  <2>5. W' = S
    <3>1. Submitted(DispatchDisp(e)) \cup ToExecute(e) = Submitted(exec[e].disp) \cup ToExecute(e)
      BY <1>0, <1>1 DEF DispatchDisp, Submitted
    <3> QED
      BY <2>1, <2>4, <3>1
  <2>6. RunnerReveals(e, W)' <=> RunnerReveals(e, S)
    BY <1>0, <2>1, <2>2, <2>5 DEF RunnerReveals
  <2>7. One(RunnerReveals(e, W)') = One(RunnerReveals(e, S))
    BY <2>6 DEF One
  <2> QED
    BY <1>0, <2>1, <2>2, <2>3, <2>4, <2>7 DEF Reserved
<1>6. ASSUME NEW p \in Participants, NEW result \in Results \ {"asked", "skipped"},
             exec[e].res[p] = "asked", exec[e].pc = "waiting", ResultIs(e, p, result)
      PROVE  Len(ledger') <= run.maxEvents /\ Reserved(e)'
  <2>1. Moves(e, exec[e].pc, exec[e].batch, exec[e].disp, exec[e].calls,
              [exec[e].res EXCEPT ![p] = result], exec[e].saw)
    BY <1>6, ResultMoves
  <2>2. /\ exec'[e].pc = "waiting" /\ exec'[e].disp = exec[e].disp
        /\ exec'[e].res = [exec[e].res EXCEPT ![p] = result]
        /\ exec'[e].auto = exec[e].auto
    BY <1>6, <2>1 DEF Moves
  <2>3. AwaitedBy(e)' = AwaitedBy(e) \ {p} /\ p \in AwaitedBy(e) /\ AskedBy(e)' = AskedBy(e)
    BY <1>0, <1>6, <2>2 DEF AwaitedBy, AskedBy
  <2>4. Cardinality(AwaitedBy(e)') = Cardinality(AwaitedBy(e)) - 1
    BY <1>2, <2>3, FS_RemoveElement
  <2>5. W' = W
    BY <2>2, <2>3
  <2>6. RunnerReveals(e, W)' <=> RunnerReveals(e, W)
    BY <1>0, <2>2, <2>5 DEF RunnerReveals
  <2>7. One(RunnerReveals(e, W)') = One(RunnerReveals(e, W))
    BY <2>6 DEF One
  <2>8. Len(ledger) + Cardinality(AwaitedBy(e)) + One(RunnerReveals(e, W)) <= run.maxEvents
    BY <1>6 DEF Reserved
  <2>9. Cardinality(AwaitedBy(e)') \in Nat
    BY <1>1, <2>3, AskedCount
  <2>10. Len(ledger') + Cardinality(AwaitedBy(e)') + One(RunnerReveals(e, W)') <= run.maxEvents
    BY <1>0, <1>2, <1>3, <2>4, <2>7, <2>8
  <2>11. Len(ledger') <= run.maxEvents
    BY <1>0, <1>3, <2>9, <2>10
  <2> QED
    BY <1>0, <2>2, <2>10, <2>11 DEF Reserved
<1>7. ASSUME AdapterTurn(e) PROVE Len(ledger') <= run.maxEvents /\ Reserved(e)'
  <2>1. \E p \in Participants, result \in Results \ {"asked", "skipped"} :
          exec[e].res[p] = "asked" /\ exec[e].pc = "waiting" /\ ResultIs(e, p, result)
    BY <1>7 DEF AdapterTurn, Answer, AnswerRejected, AdapterFails, Awaits, Results
  <2> QED
    BY <1>6, <2>1
<1>8. ASSUME DecideReveal(e) PROVE Len(ledger') <= run.maxEvents /\ Reserved(e)'
  <2>1. /\ exec' = [exec EXCEPT ![e].pc = "closing", ![e].disp = Merged(e)]
        /\ ledger' = ledger /\ AllAnswered(e) /\ RunnerReveals(e, Submitted(Merged(e)))
    BY <1>8 DEF DecideReveal
  <2>2. Submitted(Merged(e)) \subseteq W /\ W \in SUBSET Participants
    <3>1. ASSUME NEW p \in Participants, Merged(e)[p] = "submitted"
          PROVE  exec[e].res[p] # "skipped" \/ exec[e].disp[p] = "submitted"
      BY <3>1 DEF Merged
    <3>2. DOMAIN Merged(e) = Participants /\ DOMAIN exec[e].disp = Participants
      BY <1>0 DEF Merged
    <3>3. \A p \in Submitted(Merged(e)) : p \in Participants /\ Merged(e)[p] = "submitted"
      BY <3>2 DEF Submitted
    <3>4. \A p \in Participants : exec[e].disp[p] = "submitted" => p \in Submitted(exec[e].disp)
      BY <3>2 DEF Submitted
    <3> QED
      BY <1>1, <3>1, <3>3, <3>4 DEF AskedBy
  <2>3. RunnerReveals(e, W)
    BY <2>1, <2>2, RunnerGrows
  <2>4. Len(ledger) + 1 <= run.maxEvents
    <3>1. exec[e].pc = "waiting"
      BY <2>1 DEF AllAnswered
    <3>2. Len(ledger) + Cardinality(AwaitedBy(e)) + One(RunnerReveals(e, W)) <= run.maxEvents
      BY <3>1 DEF Reserved
    <3>3. One(RunnerReveals(e, W)) = 1
      BY <2>3 DEF One
    <3> QED
      BY <1>0, <1>2, <3>2, <3>3
  <2>5. exec'[e].pc = "closing"
    BY <2>1 DEF RoundTypeOK, ExecType
  <2> QED
    BY <1>0, <2>1, <2>4, <2>5 DEF Reserved
<1>9. ASSUME CloseBatch(e) PROVE Len(ledger') <= run.maxEvents
  <2>1. exec[e].pc = "closing"
    BY <1>9 DEF CloseBatch
  <2> QED
    BY <1>0, <2>1 DEF Reserved
<1>10. ~(\E b \in Batches : OpenBatch(e, b)) /\ ~AdapterTurn(e) /\ ~CloseBatch(e)
         => ledger' = ledger
  BY OwnersAppend DEF AdapterTurn
<1>11. Len(ledger') <= run.maxEvents
  BY <1>4, <1>7, <1>9, <1>10
<1> QED
  <2>1. CASE \E b \in Batches : OpenBatch(e, b)
    BY <1>4, <2>1
  <2>2. CASE Dispatch(e) \/ AdapterTurn(e) \/ DecideReveal(e)
    BY <1>5, <1>7, <1>8, <2>2
  <2>3. CASE ~(\E b \in Batches : OpenBatch(e, b)) /\ ~Dispatch(e) /\ ~AdapterTurn(e)
               /\ ~DecideReveal(e)
    <3>1. exec'[e].pc \notin {"opened", "waiting", "closing"}
      BY <2>3, Arrives
    <3> QED
      BY <1>11, <3>1 DEF Reserved
  <2> QED
    BY <2>1, <2>2, <2>3

LEMMA ReservationStays ==
  ASSUME NEW e \in Execs, plan.revealPolicy # "deadline",
         ledger' = ledger, exec'[e] = exec[e], run' = run, Reserved(e)
  PROVE  Reserved(e)'
<1>1. /\ ToExecute(e)' = ToExecute(e) /\ AskedBy(e)' = AskedBy(e)
      /\ AwaitedBy(e)' = AwaitedBy(e)
  BY DEF ToExecute, AskedBy, AwaitedBy
<1>2. /\ RunnerReveals(e, Submitted(exec[e].disp) \cup ToExecute(e))' <=>
           RunnerReveals(e, Submitted(exec[e].disp) \cup ToExecute(e))
      /\ RunnerReveals(e, Submitted(exec[e].disp) \cup AskedBy(e))' <=>
           RunnerReveals(e, Submitted(exec[e].disp) \cup AskedBy(e))
  BY <1>1 DEF RunnerReveals, plan
<1>3. /\ One(RunnerReveals(e, Submitted(exec[e].disp) \cup ToExecute(e)))' =
           One(RunnerReveals(e, Submitted(exec[e].disp) \cup ToExecute(e)))
      /\ One(RunnerReveals(e, Submitted(exec[e].disp) \cup AskedBy(e)))' =
           One(RunnerReveals(e, Submitted(exec[e].disp) \cup AskedBy(e)))
  BY <1>2 DEF One
<1> QED
  BY <1>1, <1>3 DEF Reserved

LEMMA KeepsEventsInv ==
  ASSUME RoundTypeOK, IInv, ClaimInv, BatchInv, EventsInv, RoundNext
  PROVE  EventsInv'
<1> SUFFICES ASSUME plan.revealPolicy # "deadline", ~run.http
             PROVE  /\ Len(ledger') <= run.maxEvents
                    /\ \A e \in Execs : Owns(e)' => Reserved(e)'
  BY DEF EventsInv, Reserved, RoundNext, plan
<1>0. /\ Len(ledger) <= run.maxEvents /\ run' = run /\ plan' = plan /\ TypeOK
      /\ \A e \in Execs : Owns(e) => Reserved(e)
  BY DEF EventsInv, Reserved, RoundNext, plan, IInv
<1>1. ASSUME NEW e \in Execs, ledger' = ledger, exec'[e] = exec[e], Reserved(e) PROVE Reserved(e)'
  BY <1>0, <1>1, ReservationStays
<1> DEFINE Within == /\ Len(ledger') <= run.maxEvents
                     /\ \A e \in Execs : Owns(e)' => Reserved(e)'
<1>2. ASSUME NEW e \in Execs, NEW r \in run.rounds, Claims(e, r) PROVE Within
  <2>1. /\ round'.claim = e /\ exec'[e].pc = "claimed" /\ ledger' = ledger
    BY <1>2, ClaimChanges
  <2>2. ASSUME NEW f \in Execs, Owns(f)' PROVE f = e
    BY <2>1, <2>2 DEF Owns
  <2>3. Reserved(e)'
    BY <2>1 DEF Reserved
  <2> QED
    BY <1>0, <2>1, <2>2, <2>3
<1>3. ASSUME NEW e \in Execs, Proceed(e), ~Release(e) PROVE Within
  <2>1. /\ exec'[e].round = exec[e].round /\ \A f \in Execs \ {e} : exec'[f] = exec[f]
        /\ round'.id = round.id /\ round'.claim = round.claim
    BY <1>0, <1>3, ProceedMoves, OwnersWrite
  <2>2. \A f \in Execs : Owns(f)' = Owns(f)
    BY <2>1 DEF Owns
  <2>3. CASE Owns(e)
    <3>1. Len(ledger') <= run.maxEvents /\ Reserved(e)'
      BY <1>0, <1>3, <2>3, KeepsReservation
    <3>2. ASSUME NEW f \in Execs, Owns(f) PROVE f = e
      BY <2>3, <3>2 DEF Owns
    <3> QED
      BY <2>2, <3>1, <3>2
  <2>4. CASE ~Owns(e)
    <3>1. ledger' = ledger
      BY <1>3, <2>4, OwnersAppend
    <3>2. ASSUME NEW f \in Execs, Owns(f) PROVE Reserved(f)'
      BY <1>0, <1>1, <2>1, <2>4, <3>1, <3>2
    <3> QED
      BY <1>0, <2>2, <3>1, <3>2
  <2> QED
    BY <2>3, <2>4
<1>4. ASSUME NEW e \in Execs, Release(e) PROVE Within
  <2>0. /\ ledger' = ledger /\ exec'[e] = Idle /\ \A f \in Execs \ {e} : exec'[f] = exec[f]
        /\ round'.id = round.id
        /\ round'.claim = IF Owns(e) THEN NoExec ELSE round.claim
    BY <1>4, ReleaseChanges DEF Release
  <2>1. /\ ledger' = ledger /\ exec'[e] = Idle /\ \A f \in Execs \ {e} : exec'[f] = exec[f]
        /\ \A f \in Execs \ {e} : Owns(f)' => Owns(f)
    BY <2>0, NamesAssumption DEF Owns
  <2>2. Reserved(e)'
    BY <2>1 DEF Reserved, Idle
  <2> QED
    BY <1>0, <1>1, <2>1, <2>2
<1>5. ASSUME Crash PROVE Within
  <2>1. ledger' = ledger /\ \A e \in Execs : exec'[e] = Idle
    BY <1>5 DEF Crash
  <2>2. \A e \in Execs : Reserved(e)'
    BY <2>1 DEF Reserved, Idle
  <2> QED
    BY <1>0, <2>1, <2>2
<1>6. ASSUME ExpireClaim \/ Clock PROVE Within
  <2>1. UNCHANGED <<ledger, round, exec>>
    BY <1>6 DEF ExpireClaim, Clock, Tick
  <2> QED
    BY <1>0, <1>1, <2>1 DEF Owns
<1> HIDE DEF Within
<1>7. Within
  BY <1>2, <1>3, <1>4, <1>5, <1>6
  DEF RoundNext, RunStep, Claims, HttpContribution, HttpClose
<1> QED
  BY <1>7 DEF Within
-----------------------------------------------------------------------------
(***************************************************************************)
(* The invariant, and what follows from it.                                *)
(***************************************************************************)
LEMMA InitRoundInv == RoundInit => RoundInv
<1> SUFFICES ASSUME RoundInit PROVE RoundInv
  OBVIOUS
<1>1. IInv /\ ledger = <<>>
  BY InitIInv DEF RoundInit, Init
<1>2. Pending \in [Participants -> Dispositions] /\ Unasked \in [Participants -> Results]
  BY DEF Pending, Unasked, Dispositions, Results
<1>3. /\ run \in Runs /\ round = NoRecord /\ expired = FALSE
      /\ exec = [e \in Execs |-> Idle] /\ crashes = 0 /\ called = [r \in Rounds |-> 0]
  BY DEF RoundInit
<1>4. RoundTypeOK
  BY <1>2, <1>3 DEF RoundTypeOK, NoRecord, RecordType, Statuses, Idle, ExecType
<1>5. \A e \in Execs : /\ exec[e].pc = "idle" /\ exec[e].batch = NoBatch
                       /\ exec[e].disp = Pending /\ exec[e].res = Unasked
                       /\ exec[e].saw = FALSE
  BY <1>3 DEF Idle
<1>6. ClaimInv
  BY <1>3, <1>5 DEF ClaimInv, NoRecord, InTurn
<1>7. BatchInv
  BY <1>1, <1>3, <1>5 DEF BatchInv, OneEventPerKey, NoRecord, IsOpen, Opened, OfType
<1>8. Submitted(Pending) = {} /\ \A p \in Participants : Unasked[p] # "submitted"
  BY DEF Submitted, Pending, Unasked
<1>9. RecordNeverAhead
  BY <1>3, <1>8 DEF RecordNeverAhead, NoRecord
<1>10. CopyInv /\ PoliciesAgree /\ ViewInv
  BY <1>5, <1>8 DEF CopyInv, PoliciesAgree, ViewInv
<1>11. CallsInv
  <2>1. run.callBudget \in Nat
    BY <1>3, RunFacts
  <2> QED
    BY <1>3, <1>5, <2>1, NamesAssumption DEF CallsInv, NoRecord
<1>12. EventsInv
  <2>1. run.maxEvents \in Nat /\ Len(ledger) = 0
    BY <1>1, <1>3, RunFacts
  <2> QED
    BY <1>5, <2>1 DEF EventsInv
<1> QED
  BY <1>1, <1>4, <1>6, <1>7, <1>9, <1>10, <1>11, <1>12 DEF RoundInv

LEMMA NextRoundInv == RoundInv /\ [RoundNext]_roundVars => RoundInv'
<1> SUFFICES ASSUME RoundInv, [RoundNext]_roundVars PROVE RoundInv'
  OBVIOUS
<1>0. TypeOK
  BY DEF RoundInv, IInv
<1>1. CASE RoundNext
  <2>1. IInv'
    BY <1>1, StepOfBatches, NextIInv DEF RoundInv
  <2>2. RoundTypeOK' /\ ClaimInv'
    BY <1>0, <1>1, Types, KeepsClaimInv DEF RoundInv
  <2>3. BatchInv'
    BY <1>1, KeepsBatchInv DEF RoundInv
  <2>4. RecordNeverAhead' /\ CopyInv'
    BY <1>1, KeepsRecord DEF RoundInv
  <2>5. PoliciesAgree' /\ ViewInv'
    BY <1>1, KeepsPoliciesAgree, KeepsViewInv DEF RoundInv
  <2>6. CallsInv' /\ EventsInv'
    BY <1>0, <1>1, KeepsCallsInv, KeepsEventsInv DEF RoundInv
  <2> QED
    BY <2>1, <2>2, <2>3, <2>4, <2>5, <2>6 DEF RoundInv
<1>2. CASE UNCHANGED roundVars
  <2>1. /\ UNCHANGED <<ledger, now>>
        /\ UNCHANGED <<run, round, expired, exec, crashes, called>>
    BY <1>2 DEF roundVars
  <2>2. IInv'
    BY <2>1, NextIInv DEF RoundInv, vars
  <2>3. RoundTypeOK' /\ ClaimInv'
    BY <2>1 DEF RoundInv, RoundTypeOK, ClaimInv, Owns
  <2>4. BatchInv'
    BY <2>1 DEF RoundInv, BatchInv
  <2>5. RecordNeverAhead' /\ CopyInv' /\ ViewInv'
    BY <2>1 DEF RoundInv, RecordNeverAhead, CopyInv, ViewInv
  <2>6. PoliciesAgree'
    BY <2>1 DEF RoundInv, PoliciesAgree, plan
  <2>7. CallsInv'
    BY <2>1 DEF RoundInv, CallsInv, Owns, ToExecute
  <2>8. EventsInv'
    <3>1. ASSUME NEW e \in Execs, plan.revealPolicy # "deadline", Reserved(e)
          PROVE  Reserved(e)'
      BY <2>1, <3>1, ReservationStays
    <3>2. UNCHANGED plan /\ \A e \in Execs : Owns(e)' = Owns(e)
      BY <2>1 DEF plan, Owns
    <3> QED
      BY <2>1, <3>1, <3>2 DEF RoundInv, EventsInv, Reserved
  <2> QED
    BY <2>2, <2>3, <2>4, <2>5, <2>6, <2>7, <2>8 DEF RoundInv
<1> QED
  BY <1>1, <1>2

LEMMA RoundInvAlways == RoundSpec => []RoundInv
  BY InitRoundInv, NextRoundInv, PTL DEF RoundSpec

\* Every step of a round is a step of the batch protocol or leaves the session's
\* ledger and its clock alone: runSealedDivergenceRound writes batches only through
\* the core's three operations, with inputs they take.
THEOREM RoundRefinesBatches == RoundSpec => Spec
<1>1. RoundInit => Init
  BY DEF RoundInit
<1>2. RoundInv /\ [RoundNext]_roundVars => [Next]_vars
  BY StepOfBatches DEF RoundInv, roundVars, vars
<1> QED
  BY <1>1, <1>2, RoundInvAlways, PTL DEF RoundSpec, Spec

\* The types of the record, the working copies and the histories.
THEOREM RoundTypesCorrect == RoundSpec => []RoundTypeOK
<1>1. RoundInv => RoundTypeOK
  BY DEF RoundInv
<1> QED
  BY <1>1, RoundInvAlways, PTL

\* At every moment, crashes and evictions included, what the run's record says of a
\* round was in the event ledger first (setRoundState after each append).
THEOREM RecordIsNeverAhead == RoundSpec => []RecordNeverAhead
<1>1. RoundInv => RecordNeverAhead
  BY DEF RoundInv
<1> QED
  BY <1>1, RoundInvAlways, PTL

\* A run never has two open batches, although opening one and recording it are
\* two writes (the idempotency key of the opening, createRoundIdempotencyKey).
THEOREM AtMostOneBatchIsOpen == RoundSpec => []AtMostOneOpenBatch
<1>1. RoundInv => AtMostOneOpenBatch
  BY OneOpenBatch DEF RoundInv
<1> QED
  BY <1>1, RoundInvAlways, PTL

\* Whoever contributes was not shown another contribution of the batch when it was
\* asked, in a takeover after the reveal neither.
THEOREM ContributionsIndependent == RoundSpec => []Independence
<1>1. RoundInv => Independence
  BY DEF RoundInv, ViewInv, Independence
<1> QED
  BY <1>1, RoundInvAlways, PTL

\* When the runner's canRevealWithPolicy decides for the reveal, the core's
\* assertRevealPolicyCanClose allows it.
THEOREM RunnerAndCoreAgree == RoundSpec => []PoliciesAgree
<1>1. RoundInv => PoliciesAgree
  BY DEF RoundInv
<1> QED
  BY <1>1, RoundInvAlways, PTL

\* assertBudgetAllowsRound, asked once per execution, bounds the adapter calls of
\* all executions of a round together, and the events that they append.
THEOREM BudgetsHold == RoundSpec => []WithinBudgets
<1>1. RoundInv => WithinBudgets
  BY DEF RoundInv, CallsInv, EventsInv, WithinBudgets
<1> QED
  BY <1>1, RoundInvAlways, PTL

\* No execution writes over a revealed record, late and evicted ones included.
THEOREM RevealedRecordStays == RoundSpec => RevealedStays
<1>1. RoundInv /\ [RoundNext]_roundVars =>
        [round.status = "revealed" /\ round'.id = round.id =>
           [round' EXCEPT !.claim = NoExec] = [round EXCEPT !.claim = NoExec]]_roundVars
  BY RecordStepSafe DEF RoundInv, IInv
<1> QED
  BY <1>1, RoundInvAlways, PTL DEF RoundSpec, RevealedStays

\* Nobody takes or releases the claim of a running execution before it expired.
THEOREM ClaimIsKept == RoundSpec => ClaimLostOnlyWhenExpired
<1>1. RoundInv /\ [RoundNext]_roundVars =>
        [\A e \in Execs :
           Owns(e) /\ exec[e].pc \notin {"idle", "leaving"} /\ ~expired
             => round'.claim = e]_roundVars
  BY RecordStepSafe DEF RoundInv, IInv
<1> QED
  BY <1>1, RoundInvAlways, PTL DEF RoundSpec, ClaimLostOnlyWhenExpired
=============================================================================
