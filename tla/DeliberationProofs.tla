-------------------------- MODULE DeliberationProofs --------------------------
(***************************************************************************)
(* Theorems about the ledger of a deliberation: conclusions rest on what   *)
(* was accepted before, an outcome covers the frontier of today, and a     *)
(* call repeated under its key finds its event.  Every call ends in one    *)
(* append, so each proof is about one input more at the end of a ledger:   *)
(* what the projections read from it, and what they read as before.        *)
(***************************************************************************)
EXTENDS Deliberation, FiniteSetTheorems, SequenceTheorems, WellFoundedInduction, TLAPS

-----------------------------------------------------------------------------
(***************************************************************************)
(* Ledgers.                                                                *)
(***************************************************************************)
IsLog(l) == Len(l) \in Nat /\ l = [i \in 1..Len(l) |-> l[i]]

\* m is l and event e behind it.
Extends(l, e, m) ==
  /\ IsLog(m) /\ DOMAIN l = 1..Len(l) /\ DOMAIN m = DOMAIN l \cup {Len(l) + 1}
  /\ Len(l) \in Nat
  /\ m[Len(l) + 1] = e
  /\ \A i \in DOMAIN l : m[i] = l[i]

LEMMA AppendExtends ==
  ASSUME NEW l, IsLog(l), NEW e
  PROVE  Extends(l, e, Append(l, e))
<1> DEFINE S == {l[i] : i \in 1..Len(l)} \cup {e}
<1>1. [i \in 1..Len(l) |-> l[i]] \in [1..Len(l) -> S]
  OBVIOUS
<1>2. l \in [1..Len(l) -> S] /\ Len(l) \in Nat
  BY <1>1 DEF IsLog
<1>3. l \in Seq(S)
  BY <1>2, SeqDef
<1>4. /\ Append(l, e) \in Seq(S)
      /\ Len(Append(l, e)) = Len(l) + 1
      /\ \A i \in 1..Len(l) : Append(l, e)[i] = l[i]
      /\ Append(l, e)[Len(l) + 1] = e
  BY <1>3, AppendProperties
<1> HIDE DEF S
<1>5. Append(l, e) \in [1..Len(Append(l, e)) -> S]
  BY <1>4, LenProperties
<1>6. /\ Append(l, e) = [i \in 1..Len(Append(l, e)) |-> Append(l, e)[i]]
      /\ DOMAIN Append(l, e) = 1..(Len(l) + 1)
  BY <1>4, <1>5
<1>7. DOMAIN l = 1..Len(l) /\ 1..(Len(l) + 1) = 1..Len(l) \cup {Len(l) + 1}
  BY <1>2
<1> QED
  BY <1>2, <1>4, <1>6, <1>7 DEF IsLog, Extends

\* appendEventResult writes the event behind the others, or nothing.
LEMMA StoreExtends ==
  ASSUME IsLog(ledger), NEW e, Store(e)
  PROVE  UNCHANGED ledger \/ (IsNew(ledger, e) /\ Extends(ledger, e, ledger'))
BY AppendExtends DEF Store, AfterAppend

\* Of finitely many positions one is the last.
LEMMA LastExists ==
  ASSUME NEW n \in Nat, NEW S \in SUBSET (1..n), S # {}
  PROVE  \E i \in S : \A j \in S : j <= i
<1> DEFINE After(i) == {j \in S : i < j}
           R == StrictSubsetOrdering(S)
           F == {After(i) : i \in S}
<1>0. IsFiniteSet(S)
  <2>1. IsFiniteSet(1..n)
    BY FS_Interval
  <2> QED
    BY <2>1, FS_Subset
<1>1. F \subseteq FiniteSubsetsOf(S) /\ F # {}
  <2>1. \A i \in S : After(i) \in SUBSET S
    OBVIOUS
  <2>2. \A i \in S : After(i) \in FiniteSubsetsOf(S)
    BY <1>0, <2>1, FS_Subset DEF FiniteSubsetsOf
  <2> QED
    BY <2>2
<1>2. IsWellFoundedOn(R, FiniteSubsetsOf(S))
  BY FS_StrictSubsetOrderingWellFounded
<1> HIDE DEF R, F
<1>3. PICK X \in F : \A Y \in F : <<Y, X>> \notin R
  BY <1>1, <1>2, WFMin
<1> USE DEF R, F
<1>4. PICK i \in S : X = After(i)
  BY <1>3
<1>5. ASSUME NEW j \in S, ~(j <= i) PROVE FALSE
  <2>1. /\ After(j) \subseteq After(i) /\ j \in After(i) /\ j \notin After(j)
        /\ After(j) \in SUBSET S /\ After(i) \in SUBSET S
    <3>1. i \in Nat /\ j \in Nat /\ \A k \in S : k \in Nat
      BY <1>4, <1>5
    <3>2. i < j /\ ~(j < j) /\ \A k \in S : j < k => i < k
      BY <1>5, <3>1
    <3> QED
      BY <1>4, <1>5, <3>2
  <2>2. <<After(j), After(i)>> \in R
    BY <2>1 DEF StrictSubsetOrdering
  <2> QED
    BY <1>3, <1>4, <2>2
<1> QED
  BY <1>5

\* And one is the first.
LEMMA FirstExists ==
  ASSUME NEW n \in Nat, NEW S \in SUBSET (1..n), S # {}
  PROVE  \E i \in S : \A j \in S : i <= j
<1> DEFINE Before(i) == {j \in S : j < i}
           R == StrictSubsetOrdering(S)
           F == {Before(i) : i \in S}
<1>0. IsFiniteSet(S)
  <2>1. IsFiniteSet(1..n)
    BY FS_Interval
  <2> QED
    BY <2>1, FS_Subset
<1>1. F \subseteq FiniteSubsetsOf(S) /\ F # {}
  <2>1. \A i \in S : Before(i) \in SUBSET S
    OBVIOUS
  <2>2. \A i \in S : Before(i) \in FiniteSubsetsOf(S)
    BY <1>0, <2>1, FS_Subset DEF FiniteSubsetsOf
  <2> QED
    BY <2>2
<1>2. IsWellFoundedOn(R, FiniteSubsetsOf(S))
  BY FS_StrictSubsetOrderingWellFounded
<1> HIDE DEF R, F
<1>3. PICK X \in F : \A Y \in F : <<Y, X>> \notin R
  BY <1>1, <1>2, WFMin
<1> USE DEF R, F
<1>4. PICK i \in S : X = Before(i)
  BY <1>3
<1>5. ASSUME NEW j \in S, ~(i <= j) PROVE FALSE
  <2>1. /\ Before(j) \subseteq Before(i) /\ j \in Before(i) /\ j \notin Before(j)
        /\ Before(j) \in SUBSET S /\ Before(i) \in SUBSET S
    <3>1. i \in Nat /\ j \in Nat /\ \A k \in S : k \in Nat
      BY <1>4, <1>5
    <3>2. j < i /\ ~(j < j) /\ \A k \in S : k < j => k < i
      BY <1>5, <3>1
    <3> QED
      BY <1>4, <1>5, <3>2
  <2>2. <<Before(j), Before(i)>> \in R
    BY <2>1 DEF StrictSubsetOrdering
  <2> QED
    BY <1>3, <1>4, <2>2
<1> QED
  BY <1>5

-----------------------------------------------------------------------------
(***************************************************************************)
(* What a call passes to the store, given the ledger it reads.             *)
(***************************************************************************)
ExtractionCalled(l, e) ==
  \E a, key : \E draft \in Drafts, sources \in SUBSET DOMAIN l :
    e = ExtractionInput(l, a, key, draft, sources)

ProposalResponded(l, e) ==
  \E a, key : \E type \in {"proposal_challenged", "proposal_accepted"},
                 target \in OfType(l, "extraction_proposed") :
    e = ResponseInput(l, type, a, key, target)

ProcessCalled(l, e) ==
  \E a, key :
    \/ \E process : \E sources \in SUBSET DOMAIN l : e = ProcessInput(a, key, process, sources)
    \/ \E target \in OfType(l, "process_proposal_proposed") :
         \/ e = ResponseInput(l, "process_proposal_challenged", a, key, target)
         \/ \E status : e = DecisionInput(l, a, key, target, status)

FinalCalled(l, e) ==
  \E a, key : \E names \in SUBSET Names(Frontier(l)) :
    names # {} /\ e = FinalInput(l, a, key, names)

AuditCalled(l, e) ==
  \E a, key : \E target \in OfType(l, "final_candidate_proposed") :
    e = ResponseInput(l, "final_audit_recorded", a, key, target)

EvidenceCalled(l, e) ==
  \E a, key : \E name \in Names(AcceptedObjects(l, "need")) : e = EvidenceInput(l, a, key, name)

IsInput(l, e) ==
  \/ ExtractionCalled(l, e) \/ ProposalResponded(l, e) \/ ProcessCalled(l, e)
  \/ FinalCalled(l, e) \/ AuditCalled(l, e) \/ EvidenceCalled(l, e)

LEMMA NextStores ==
  ASSUME Next
  PROVE  \E e : IsInput(ledger, e) /\ Store(e)
<1>1. PICK a \in Authors, key \in CallKeys :
        ExtractionCall(a, key) \/ ProcessCall(a, key) \/ OutcomeCall(a, key)
  BY DEF Next
<1>2. CASE ExtractionCall(a, key)
  <2>1. ASSUME NEW draft \in Drafts, NEW source, ProposeExtraction(a, key, draft, source)
        PROVE  \E e : IsInput(ledger, e) /\ Store(e)
    <3>1. {source} \in SUBSET DOMAIN ledger
      BY <2>1 DEF ProposeExtraction
    <3>2. ExtractionCalled(ledger, ExtractionInput(ledger, a, key, draft, {source}))
      BY <3>1 DEF ExtractionCalled
    <3> QED
      BY <2>1, <3>2 DEF ProposeExtraction, IsInput
  <2>2. ASSUME NEW target, ChallengeProposal(a, key, target)
        PROVE  \E e : IsInput(ledger, e) /\ Store(e)
    <3>1. ProposalResponded(ledger, ResponseInput(ledger, "proposal_challenged", a, key, target))
      BY <2>2 DEF ChallengeProposal, ProposalResponded
    <3> QED
      BY <2>2, <3>1 DEF ChallengeProposal, IsInput
  <2>3. ASSUME NEW target, AcceptProposal(a, key, target)
        PROVE  \E e : IsInput(ledger, e) /\ Store(e)
    <3>1. ProposalResponded(ledger, ResponseInput(ledger, "proposal_accepted", a, key, target))
      BY <2>3 DEF AcceptProposal, ProposalResponded
    <3> QED
      BY <2>3, <3>1 DEF AcceptProposal, IsInput
  <2> QED
    BY <1>2, <2>1, <2>2, <2>3 DEF ExtractionCall
<1>3. CASE ProcessCall(a, key)
  <2>1. ASSUME NEW process, NEW source \in DOMAIN ledger,
               ProposeProcessProposal(a, key, process, source)
        PROVE  \E e : IsInput(ledger, e) /\ Store(e)
    <3>1. {source} \in SUBSET DOMAIN ledger
      OBVIOUS
    <3>2. ProcessCalled(ledger, ProcessInput(a, key, process, {source}))
      BY <3>1 DEF ProcessCalled
    <3> QED
      BY <2>1, <3>2 DEF ProposeProcessProposal, IsInput
  <2>2. ASSUME NEW target, ChallengeProcessProposal(a, key, target)
        PROVE  \E e : IsInput(ledger, e) /\ Store(e)
    <3>1. ProcessCalled(ledger, ResponseInput(ledger, "process_proposal_challenged", a, key, target))
      BY <2>2 DEF ChallengeProcessProposal, ProcessCalled
    <3> QED
      BY <2>2, <3>1 DEF ChallengeProcessProposal, IsInput
  <2>3. ASSUME NEW target, NEW status, DecideProcessProposal(a, key, target, status)
        PROVE  \E e : IsInput(ledger, e) /\ Store(e)
    <3>1. ProcessCalled(ledger, DecisionInput(ledger, a, key, target, status))
      BY <2>3 DEF DecideProcessProposal, ProcessCalled
    <3> QED
      BY <2>3, <3>1 DEF DecideProcessProposal, IsInput
  <2> QED
    BY <1>3, <2>1, <2>2, <2>3 DEF ProcessCall
<1>4. CASE OutcomeCall(a, key)
  <2>1. ASSUME NEW names, ProposeFinalCandidate(a, key, names)
        PROVE  \E e : IsInput(ledger, e) /\ Store(e)
    <3>1. FinalCalled(ledger, FinalInput(ledger, a, key, names))
      BY <2>1 DEF ProposeFinalCandidate, FinalCalled
    <3> QED
      BY <2>1, <3>1 DEF ProposeFinalCandidate, IsInput
  <2>2. ASSUME NEW target, AuditFinalCandidate(a, key, target)
        PROVE  \E e : IsInput(ledger, e) /\ Store(e)
    <3>1. AuditCalled(ledger, ResponseInput(ledger, "final_audit_recorded", a, key, target))
      BY <2>2 DEF AuditFinalCandidate, AuditCalled
    <3> QED
      BY <2>2, <3>1 DEF AuditFinalCandidate, IsInput
  <2>3. ASSUME NEW name, RecordEvidenceResult(a, key, name)
        PROVE  \E e : IsInput(ledger, e) /\ Store(e)
    <3>1. EvidenceCalled(ledger, EvidenceInput(ledger, a, key, name))
      BY <2>3 DEF RecordEvidenceResult, EvidenceCalled
    <3> QED
      BY <2>3, <3>1 DEF RecordEvidenceResult, IsInput
  <2> QED
    BY <1>4, <2>1, <2>2, <2>3 DEF OutcomeCall
<1> QED
  BY <1>1, <1>2, <1>3, <1>4

-----------------------------------------------------------------------------
(***************************************************************************)
(* What the projections read from a ledger with more events.               *)
(***************************************************************************)
LEMMA ProjectionsGrow ==
  ASSUME NEW l, NEW m, DOMAIN l \subseteq DOMAIN m, \A i \in DOMAIN l : m[i] = l[i]
  PROVE  /\ \A type : OfType(l, type) \subseteq OfType(m, type)
         /\ \A i : Acceptances(l, i) \subseteq Acceptances(m, i)
         /\ AcceptedProposals(l) \subseteq AcceptedProposals(m)
         /\ \A kind : AcceptedObjects(l, kind) \subseteq AcceptedObjects(m, kind)
         /\ Frontier(l) \subseteq Frontier(m)
         /\ Names(Frontier(l)) \subseteq Names(Frontier(m))
<1>1. \A type : OfType(l, type) \subseteq OfType(m, type)
  BY DEF OfType
<1>2. \A i : Acceptances(l, i) \subseteq Acceptances(m, i)
  BY <1>1 DEF Acceptances, Lifecycle, OfType
<1>3. AcceptedProposals(l) \subseteq AcceptedProposals(m)
  BY <1>1, <1>2 DEF AcceptedProposals
<1>4. \A i \in AcceptedProposals(l) : m[i] = l[i]
  BY DEF AcceptedProposals, OfType
<1>5. ASSUME NEW kind
      PROVE  AcceptedObjects(l, kind) \subseteq AcceptedObjects(m, kind)
  BY <1>3, <1>4 DEF AcceptedObjects
<1>6. Frontier(l) \subseteq Frontier(m)
  BY <1>5 DEF Frontier
<1>7. Names(Frontier(l)) \subseteq Names(Frontier(m))
  BY <1>6 DEF Names
<1> QED
  BY <1>1, <1>2, <1>3, <1>5, <1>6, <1>7

\* Only an acceptance changes what is accepted.
LEMMA ProjectionsSame ==
  ASSUME NEW l, NEW e, NEW m, Extends(l, e, m), e.type # "proposal_accepted"
  PROVE  /\ OfType(m, "proposal_accepted") = OfType(l, "proposal_accepted")
         /\ \A i : Acceptances(m, i) = Acceptances(l, i)
         /\ AcceptedProposals(m) = AcceptedProposals(l)
         /\ \A kind : AcceptedObjects(m, kind) = AcceptedObjects(l, kind)
         /\ Frontier(m) = Frontier(l)
<1>1. OfType(m, "proposal_accepted") = OfType(l, "proposal_accepted")
  BY DEF Extends, OfType
<1>2. \A i \in OfType(l, "proposal_accepted") : m[i] = l[i] /\ i \in 1..Len(l)
  BY DEF OfType, Extends
<1>3. \A i : Acceptances(m, i) = Acceptances(l, i)
  BY <1>1, <1>2 DEF Acceptances, Lifecycle
<1>4. Acceptances(m, Len(l) + 1) = {}
  BY <1>1, <1>2 DEF Acceptances, Lifecycle, Extends
<1>5. AcceptedProposals(m) = AcceptedProposals(l)
  <2>1. \A i \in AcceptedProposals(m) : i \in DOMAIN l
    BY <1>4 DEF AcceptedProposals, OfType, Extends
  <2>2. \A i \in AcceptedProposals(m) : i \in OfType(l, "extraction_proposed")
    BY <2>1 DEF AcceptedProposals, OfType, Extends
  <2>3. AcceptedProposals(m) \subseteq AcceptedProposals(l)
    BY <1>3, <2>2 DEF AcceptedProposals
  <2> QED
    BY <2>3, ProjectionsGrow DEF Extends
<1>6. \A i \in AcceptedProposals(l) : m[i] = l[i]
  BY DEF AcceptedProposals, OfType, Extends
<1>7. ASSUME NEW kind
      PROVE  AcceptedObjects(m, kind) = AcceptedObjects(l, kind)
  <2>1. UNION {{[from |-> i, object |-> o] : o \in m[i].objects} : i \in AcceptedProposals(m)}
          = UNION {{[from |-> i, object |-> o] : o \in l[i].objects} : i \in AcceptedProposals(l)}
    BY <1>5, <1>6
  <2> QED
    BY <2>1 DEF AcceptedObjects
<1> QED
  BY <1>1, <1>3, <1>5, <1>7 DEF Frontier

\* What an accepted object is.
LEMMA AcceptedObject ==
  ASSUME NEW l, NEW kind, NEW d \in AcceptedObjects(l, kind)
  PROVE  /\ d.from \in AcceptedProposals(l) /\ d.object \in l[d.from].objects
         /\ d.object.kind = kind
         /\ d.from \in OfType(l, "extraction_proposed") /\ d.from \in DOMAIN l
         /\ Acceptances(l, d.from) # {} /\ Acceptances(l, d.from) \subseteq DOMAIN l
BY DEF AcceptedObjects, AcceptedProposals, Acceptances, Lifecycle, OfType

LEMMA FrontierObject ==
  ASSUME NEW l, NEW d \in Frontier(l)
  PROVE  d \in AcceptedObjects(l, "candidate") /\ d.object.live
BY DEF Frontier

\* candidatesById finds a candidate of that name, getAcceptedNeed a need.
LEMMA CandidateFound ==
  ASSUME NEW l, IsLog(l), NEW name \in Names(Frontier(l))
  PROVE  CandidateNamed(l, name) \in Frontier(l) /\ CandidateNamed(l, name).object.name = name
<1> DEFINE S == {d.from : d \in {x \in Frontier(l) : x.object.name = name}}
<1>1. DOMAIN l = 1..Len(l) /\ Len(l) \in Nat
  BY DEF IsLog
<1>2. \A d \in Frontier(l) : d.from \in 1..Len(l)
  BY <1>1, FrontierObject, AcceptedObject
<1>3. S \in SUBSET (1..Len(l)) /\ S # {}
  BY <1>2 DEF Names
<1>4. PICK n \in S : \A j \in S : j <= n
  BY <1>1, <1>3, LastExists
<1>5. \E d \in Frontier(l) :
        /\ d.object.name = name
        /\ \A other \in Frontier(l) : other.object.name = name => other.from <= d.from
  BY <1>4
<1> QED
  BY <1>5 DEF CandidateNamed

LEMMA NeedFound ==
  ASSUME NEW l, IsLog(l), NEW name \in Names(AcceptedObjects(l, "need"))
  PROVE  /\ NeedNamed(l, name) \in AcceptedObjects(l, "need")
         /\ NeedNamed(l, name).object.name = name
<1> DEFINE N == AcceptedObjects(l, "need")
           S == {d.from : d \in {x \in N : x.object.name = name}}
<1>1. DOMAIN l = 1..Len(l) /\ Len(l) \in Nat
  BY DEF IsLog
<1>2. \A d \in N : d.from \in 1..Len(l)
  BY <1>1, AcceptedObject
<1>3. S \in SUBSET (1..Len(l)) /\ S # {}
  BY <1>2 DEF Names
<1>4. PICK n \in S : \A j \in S : n <= j
  BY <1>1, <1>3, FirstExists
<1>5. \E d \in N : /\ d.object.name = name
                   /\ \A other \in N : other.object.name = name => d.from <= other.from
  BY <1>4
<1> QED
  BY <1>5 DEF NeedNamed

-----------------------------------------------------------------------------
(***************************************************************************)
(* The events of a ledger.                                                 *)
(***************************************************************************)
ResponseTypes == {"proposal_challenged", "proposal_accepted", "final_audit_recorded"}

UnrepeatableTypes ==
  {"process_proposal_challenged", "process_proposal_decided", "evidence_result_recorded"}

\* The fields of an event, by its type, and what of them repeats another.
HasShape(e) ==
  \/ /\ e.type = "topic_contract_published" /\ e.key = NoKey
  \/ /\ e.type = "extraction_proposed"
     /\ DOMAIN e = {"type", "key", "author", "basedOn", "objects", "payloadId"}
     /\ e.objects \in Drafts
  \/ /\ e.type \in ResponseTypes
     /\ DOMAIN e = {"type", "key", "author", "basedOn", "target", "payloadId"}
     /\ e.basedOn = {e.target}
  \/ /\ e.type = "process_proposal_proposed"
     /\ DOMAIN e = {"type", "key", "author", "basedOn", "process"}
  \/ /\ e.type = "final_candidate_proposed"
     /\ DOMAIN e = {"type", "key", "author", "basedOn", "candidates", "alternatives", "payloadId"}
  \/ e.type \in UnrepeatableTypes

\* What an acceptance, a final proposal and an evidence result refer to.
Refers(l, i, e) ==
  /\ e.basedOn \subseteq DOMAIN l
  /\ e.type = "proposal_accepted" =>
       e.target \in OfType(l, "extraction_proposed") /\ e.target < i
  /\ e.type = "final_candidate_proposed" =>
       e.candidates # {} /\ e.candidates \subseteq Names(Frontier(l))

LedgerOK ==
  /\ IsLog(ledger)
  /\ OneEventPerKey(ledger)
  /\ \A i \in DOMAIN ledger : HasShape(ledger[i]) /\ Refers(ledger, i, ledger[i])

\* The grounds of what is accepted are in the ledger.
LEMMA GroundsInLedger ==
  ASSUME NEW l, \A i \in DOMAIN l : l[i].basedOn \subseteq DOMAIN l,
         NEW kind, NEW d \in AcceptedObjects(l, kind)
  PROVE  Grounds(l, d) \subseteq DOMAIN l
BY AcceptedObject DEF Grounds

LEMMA InputOK ==
  ASSUME NEW l, IsLog(l), \A i \in DOMAIN l : l[i].basedOn \subseteq DOMAIN l,
         NEW e, IsInput(l, e)
  PROVE  HasShape(e) /\ Refers(l, Len(l) + 1, e)
<1>0. DOMAIN l = 1..Len(l) /\ Len(l) \in Nat
  BY DEF IsLog
<1>1. CASE ExtractionCalled(l, e)
  <2>1. PICK a, key : \E draft \in Drafts, sources \in SUBSET DOMAIN l :
          e = ExtractionInput(l, a, key, draft, sources)
    BY <1>1 DEF ExtractionCalled
  <2>2. PICK draft \in Drafts, sources \in SUBSET DOMAIN l :
          e = ExtractionInput(l, a, key, draft, sources)
    BY <2>1
  <2> QED
    BY <2>2 DEF ExtractionInput, HasShape, Refers
<1>2. CASE ProposalResponded(l, e)
  <2>1. PICK a, key : \E type \in {"proposal_challenged", "proposal_accepted"},
                        target \in OfType(l, "extraction_proposed") :
          e = ResponseInput(l, type, a, key, target)
    BY <1>2 DEF ProposalResponded
  <2>2. PICK type \in {"proposal_challenged", "proposal_accepted"},
             target \in OfType(l, "extraction_proposed") :
          e = ResponseInput(l, type, a, key, target)
    BY <2>1
  <2>3. target \in DOMAIN l /\ target < Len(l) + 1
    BY <1>0 DEF OfType
  <2> QED
    BY <2>2, <2>3 DEF ResponseInput, HasShape, ResponseTypes, Refers
<1>3. CASE ProcessCalled(l, e)
  <2>1. \/ \E a, key, process : \E sources \in SUBSET DOMAIN l :
             e = ProcessInput(a, key, process, sources)
        \/ \E a, key : \E target \in OfType(l, "process_proposal_proposed") :
             \/ e = ResponseInput(l, "process_proposal_challenged", a, key, target)
             \/ \E status : e = DecisionInput(l, a, key, target, status)
    BY <1>3 DEF ProcessCalled
  <2>2. CASE \E a, key, process : \E sources \in SUBSET DOMAIN l :
               e = ProcessInput(a, key, process, sources)
    <3>1. PICK a, key, process, sources :
            sources \in SUBSET DOMAIN l /\ e = ProcessInput(a, key, process, sources)
      BY <2>2
    <3> QED
      BY <3>1 DEF ProcessInput, HasShape, Refers
  <2>3. CASE \E a, key : \E target \in OfType(l, "process_proposal_proposed") :
               \/ e = ResponseInput(l, "process_proposal_challenged", a, key, target)
               \/ \E status : e = DecisionInput(l, a, key, target, status)
    <3>1. /\ e.type \in {"process_proposal_challenged", "process_proposal_decided"}
          /\ \E target \in OfType(l, "process_proposal_proposed") : e.basedOn = {target}
      BY <2>3 DEF ResponseInput, DecisionInput
    <3> QED
      BY <3>1 DEF HasShape, UnrepeatableTypes, Refers, OfType
  <2> QED
    BY <2>1, <2>2, <2>3
<1>4. CASE FinalCalled(l, e)
  <2>1. PICK a, key, names : /\ names \in SUBSET Names(Frontier(l)) /\ names # {}
                             /\ e = FinalInput(l, a, key, names)
    BY <1>4 DEF FinalCalled
  <2>2. /\ e.type = "final_candidate_proposed" /\ e.candidates = names
        /\ e.basedOn = UNION {Grounds(l, CandidateNamed(l, n)) : n \in names}
        /\ DOMAIN e = {"type", "key", "author", "basedOn", "candidates", "alternatives", "payloadId"}
    BY <2>1 DEF FinalInput
  <2>3. \A n \in names : Grounds(l, CandidateNamed(l, n)) \subseteq DOMAIN l
    BY <2>1, CandidateFound, FrontierObject, GroundsInLedger
  <2> QED
    BY <2>1, <2>2, <2>3 DEF HasShape, Refers
<1>5. CASE AuditCalled(l, e)
  <2>1. PICK a, key, target : /\ target \in OfType(l, "final_candidate_proposed")
                              /\ e = ResponseInput(l, "final_audit_recorded", a, key, target)
    BY <1>5 DEF AuditCalled
  <2> QED
    BY <2>1 DEF ResponseInput, HasShape, ResponseTypes, Refers, OfType
<1>6. CASE EvidenceCalled(l, e)
  <2>1. PICK a, key, name : /\ name \in Names(AcceptedObjects(l, "need"))
                            /\ e = EvidenceInput(l, a, key, name)
    BY <1>6 DEF EvidenceCalled
  <2>2. Grounds(l, NeedNamed(l, name)) \subseteq DOMAIN l
    BY <2>1, NeedFound, GroundsInLedger
  <2> QED
    BY <2>1, <2>2 DEF EvidenceInput, HasShape, UnrepeatableTypes, Refers
<1> QED
  BY <1>1, <1>2, <1>3, <1>4, <1>5, <1>6 DEF IsInput

\* What an event refers to is still there later.
LEMMA RefersLater ==
  ASSUME NEW l, NEW m, DOMAIN l \subseteq DOMAIN m, \A j \in DOMAIN l : m[j] = l[j],
         NEW i, NEW e, Refers(l, i, e)
  PROVE  Refers(m, i, e)
<1>1. /\ OfType(l, "extraction_proposed") \subseteq OfType(m, "extraction_proposed")
      /\ Names(Frontier(l)) \subseteq Names(Frontier(m))
  BY ProjectionsGrow
<1> QED
  BY <1>1 DEF Refers

LEMMA OneMoreKey ==
  ASSUME NEW l, NEW e, NEW m, Extends(l, e, m), OneEventPerKey(l), IsNew(l, e)
  PROVE  OneEventPerKey(m)
<1>1. \A i \in DOMAIN l : e.key # NoKey => l[i].key # e.key
  BY DEF IsNew, KeyHolders
<1>2. \A i \in DOMAIN m : \/ i \in DOMAIN l /\ m[i] = l[i]
                          \/ i = Len(l) + 1 /\ m[i] = e
  BY DEF Extends
<1> QED
  BY <1>1, <1>2 DEF OneEventPerKey

LEMMA LedgerOKStep ==
  ASSUME LedgerOK, NEW e, IsInput(ledger, e), IsNew(ledger, e), Extends(ledger, e, ledger')
  PROVE  LedgerOK'
<1>1. IsLog(ledger') /\ OneEventPerKey(ledger')
  BY OneMoreKey DEF LedgerOK, Extends
<1>2. HasShape(e) /\ Refers(ledger, Len(ledger) + 1, e)
  BY InputOK DEF LedgerOK, Refers
<1>3. ASSUME NEW i \in DOMAIN ledger'
      PROVE  HasShape(ledger'[i]) /\ Refers(ledger', i, ledger'[i])
  <2>1. CASE i \in DOMAIN ledger
    <3>1. ledger'[i] = ledger[i]
      BY <2>1 DEF Extends
    <3>2. HasShape(ledger[i]) /\ Refers(ledger, i, ledger[i])
      BY <2>1 DEF LedgerOK
    <3> QED
      BY <3>1, <3>2, RefersLater DEF Extends
  <2>2. CASE i = Len(ledger) + 1
    BY <1>2, <2>2, RefersLater DEF Extends
  <2> QED
    BY <2>1, <2>2 DEF Extends
<1> QED
  BY <1>1, <1>3 DEF LedgerOK

-----------------------------------------------------------------------------
(***************************************************************************)
(* No conclusion without acceptance.                                       *)
(***************************************************************************)
RestsIn(l, e, o) ==
  \E p, q \in e.basedOn :
    /\ l[p].type = "extraction_proposed" /\ o \in l[p].objects
    /\ l[q].type = "proposal_accepted" /\ l[q].target = p

\* The clauses of ConclusionsGrounded, of one event.
Grounded(l, e) ==
  /\ e.type = "final_candidate_proposed" =>
       \A n \in e.candidates :
         \E o \in UNION Drafts : o.name = n /\ o.kind = "candidate" /\ o.live /\ RestsIn(l, e, o)
  /\ e.type = "evidence_result_recorded" =>
       \E o \in UNION Drafts : o.name = e.need /\ o.kind = "need" /\ RestsIn(l, e, o)

LEMMA GroundedConclusions ==
  ConclusionsGrounded <=> \A i \in DOMAIN ledger : Grounded(ledger, ledger[i])
BY DEF ConclusionsGrounded, RestsOn, Grounded, RestsIn

\* What is proposed are objects of drafts.
FromDrafts(l) == \A i \in OfType(l, "extraction_proposed") : l[i].objects \subseteq UNION Drafts

LEMMA ShapesAreDrafted ==
  ASSUME NEW l, \A i \in DOMAIN l : HasShape(l[i])
  PROVE  FromDrafts(l)
<1>1. \A i \in OfType(l, "extraction_proposed") : l[i].objects \in Drafts
  BY DEF HasShape, OfType, ResponseTypes, UnrepeatableTypes
<1> QED
  BY <1>1 DEF FromDrafts

\* An event that names the grounds of an accepted object rests on it.
LEMMA AcceptedRests ==
  ASSUME NEW l, FromDrafts(l), NEW e,
         NEW kind, NEW d \in AcceptedObjects(l, kind), Grounds(l, d) \subseteq e.basedOn
  PROVE  d.object \in UNION Drafts /\ d.object.kind = kind /\ RestsIn(l, e, d.object)
<1>1. /\ d.object \in l[d.from].objects /\ d.object.kind = kind
      /\ d.from \in DOMAIN l /\ l[d.from].type = "extraction_proposed"
      /\ Acceptances(l, d.from) # {}
  BY AcceptedObject DEF OfType
<1>2. l[d.from].objects \subseteq UNION Drafts
  BY <1>1 DEF FromDrafts, OfType
<1>3. PICK q \in Acceptances(l, d.from) : TRUE
  BY <1>1
<1>4. l[q].type = "proposal_accepted" /\ l[q].target = d.from
  BY <1>3 DEF Acceptances, Lifecycle, OfType
<1>5. d.from \in e.basedOn /\ q \in e.basedOn
  BY <1>3 DEF Grounds
<1> QED
  BY <1>1, <1>2, <1>4, <1>5 DEF RestsIn

LEMMA GroundedInput ==
  ASSUME NEW l, IsLog(l), FromDrafts(l), NEW e, IsInput(l, e)
  PROVE  Grounded(l, e)
<1>1. CASE FinalCalled(l, e)
  <2>1. PICK a, key, names : /\ names \in SUBSET Names(Frontier(l)) /\ names # {}
                             /\ e = FinalInput(l, a, key, names)
    BY <1>1 DEF FinalCalled
  <2>2. /\ e.type = "final_candidate_proposed" /\ e.candidates = names
        /\ e.basedOn = UNION {Grounds(l, CandidateNamed(l, n)) : n \in names}
    BY <2>1 DEF FinalInput
  <2>3. ASSUME NEW n \in names
        PROVE  \E o \in UNION Drafts :
                 o.name = n /\ o.kind = "candidate" /\ o.live /\ RestsIn(l, e, o)
    <3>1. CandidateNamed(l, n) \in Frontier(l) /\ CandidateNamed(l, n).object.name = n
      BY <2>1, CandidateFound
    <3>2. CandidateNamed(l, n) \in AcceptedObjects(l, "candidate") /\ CandidateNamed(l, n).object.live
      BY <3>1, FrontierObject
    <3>3. Grounds(l, CandidateNamed(l, n)) \subseteq e.basedOn
      BY <2>2
    <3> QED
      BY <3>1, <3>2, <3>3, AcceptedRests
  <2> QED
    BY <2>2, <2>3 DEF Grounded
<1>2. CASE EvidenceCalled(l, e)
  <2>1. PICK a, key, name : /\ name \in Names(AcceptedObjects(l, "need"))
                            /\ e = EvidenceInput(l, a, key, name)
    BY <1>2 DEF EvidenceCalled
  <2>2. /\ e.type = "evidence_result_recorded" /\ e.need = name
        /\ e.basedOn = Grounds(l, NeedNamed(l, name))
    BY <2>1 DEF EvidenceInput
  <2>3. NeedNamed(l, name) \in AcceptedObjects(l, "need") /\ NeedNamed(l, name).object.name = name
    BY <2>1, NeedFound
  <2> QED
    BY <2>2, <2>3, AcceptedRests DEF Grounded
<1>3. CASE e.type \notin {"final_candidate_proposed", "evidence_result_recorded"}
  BY <1>3 DEF Grounded
<1>4. CASE ExtractionCalled(l, e) \/ ProposalResponded(l, e) \/ ProcessCalled(l, e)
             \/ AuditCalled(l, e)
  BY <1>3, <1>4
  DEF ExtractionCalled, ProposalResponded, ProcessCalled, AuditCalled, ExtractionInput,
      ResponseInput, ProcessInput, DecisionInput
<1> QED
  BY <1>1, <1>2, <1>4 DEF IsInput

LEMMA GroundedLater ==
  ASSUME NEW l, NEW m, DOMAIN l \subseteq DOMAIN m, \A j \in DOMAIN l : m[j] = l[j],
         NEW e, Grounded(l, e), e.basedOn \subseteq DOMAIN l
  PROVE  Grounded(m, e)
<1>1. \A p \in e.basedOn : m[p] = l[p]
  OBVIOUS
<1>2. ASSUME NEW o, RestsIn(l, e, o) PROVE RestsIn(m, e, o)
  BY <1>1, <1>2 DEF RestsIn
<1> QED
  BY <1>2 DEF Grounded

LEMMA GroundedStep ==
  ASSUME LedgerOK, ConclusionsGrounded, NEW e, IsInput(ledger, e), Extends(ledger, e, ledger')
  PROVE  ConclusionsGrounded'
<1>1. Grounded(ledger, e) /\ e.basedOn \subseteq DOMAIN ledger
  BY GroundedInput, InputOK, ShapesAreDrafted DEF LedgerOK, Refers
<1>2. ASSUME NEW i \in DOMAIN ledger'
      PROVE  Grounded(ledger', ledger'[i])
  <2>1. CASE i \in DOMAIN ledger
    <3>1. ledger'[i] = ledger[i] /\ Grounded(ledger, ledger[i])
          /\ ledger[i].basedOn \subseteq DOMAIN ledger
      BY <2>1, GroundedConclusions DEF Extends, LedgerOK, Refers
    <3> QED
      BY <3>1, GroundedLater DEF Extends
  <2>2. CASE i = Len(ledger) + 1
    BY <1>1, <2>2, GroundedLater DEF Extends
  <2> QED
    BY <2>1, <2>2 DEF Extends
<1> QED
  BY <1>2 DEF ConclusionsGrounded, RestsOn, Grounded, RestsIn

LEMMA GroundedInit == Init => LedgerOK /\ ConclusionsGrounded
<1> SUFFICES ASSUME Init PROVE LedgerOK /\ ConclusionsGrounded
  OBVIOUS
<1>1. ledger = <<TopicContract>> /\ DOMAIN ledger = {1} /\ ledger[1] = TopicContract
  BY DEF Init
<1>2. IsLog(ledger) /\ OneEventPerKey(ledger)
  BY <1>1 DEF IsLog, OneEventPerKey
<1>3. HasShape(TopicContract) /\ Refers(ledger, 1, TopicContract) /\ Grounded(ledger, TopicContract)
  BY DEF TopicContract, HasShape, Refers, Grounded
<1> QED
  BY <1>1, <1>2, <1>3, GroundedConclusions DEF LedgerOK

\* A step is one input more, or none.
LEMMA OneMoreInput ==
  ASSUME LedgerOK, [Next]_ledger
  PROVE  \/ UNCHANGED ledger
         \/ \E e : IsInput(ledger, e) /\ IsNew(ledger, e) /\ Extends(ledger, e, ledger')
<1>1. CASE Next
  <2>1. PICK e : IsInput(ledger, e) /\ Store(e)
    BY <1>1, NextStores
  <2> QED
    BY <2>1, StoreExtends DEF LedgerOK
<1> QED
  BY <1>1

LEMMA UnchangedLedger ==
  ASSUME LedgerOK, ConclusionsGrounded, UNCHANGED ledger
  PROVE  LedgerOK' /\ ConclusionsGrounded'
BY DEF LedgerOK, ConclusionsGrounded, RestsOn, Refers, OneEventPerKey, IsLog

\* What the theorems below rest on: every event has the shape of a call and
\* refers to events and objects that are in the ledger, one event to a key.
THEOREM LedgerIsSound == Spec => [](LedgerOK /\ ConclusionsGrounded)
<1>1. LedgerOK /\ ConclusionsGrounded /\ [Next]_ledger => LedgerOK' /\ ConclusionsGrounded'
  BY OneMoreInput, LedgerOKStep, GroundedStep, UnchangedLedger
<1> QED
  BY <1>1, GroundedInit, PTL DEF Spec

(***************************************************************************)
(* For any drafts, callers and keys, calls in any order and repeated: no   *)
(* final proposal names a candidate, and no evidence result a need, that   *)
(* was not accepted before, and each names what it rests on.               *)
(***************************************************************************)
THEOREM NoConclusionWithoutAcceptance == Spec => []ConclusionsGrounded
BY LedgerIsSound, PTL

-----------------------------------------------------------------------------
(***************************************************************************)
(* The outcome.                                                            *)
(***************************************************************************)
LEMMA OutcomeOfToday ==
  ASSUME \A i \in DOMAIN ledger : Refers(ledger, i, ledger[i]),
         NEW requested \in FinalProposals(ledger) \cup {Unrequested}
  PROVE  LET outcome == Outcome(ledger, requested)
         IN  /\ outcome.recommended \subseteq Names(Frontier(ledger))
             /\ outcome.recommended \cup Names(outcome.alternatives) = Names(Frontier(ledger))
             /\ outcome.status = "draft" =>
                  /\ outcome.recommended # {}
                  /\ \A d \in AcceptedObjects(ledger, "need") :
                       \E j \in OfType(ledger, "evidence_result_recorded") :
                         ledger[j].need = d.object.name
                  /\ \A i \in OfType(ledger, "proposal_accepted") :
                       \A o \in ledger[ledger[i].target].objects :
                         o.kind \in {"objection", "obligation"} => ~o.live
<1> DEFINE outcome == Outcome(ledger, requested)
           selected == Selected(ledger, requested)
           chosen == UNION {ledger[f].candidates : f \in selected}
<1>1. /\ outcome.recommended = chosen
      /\ outcome.alternatives = {d \in Frontier(ledger) : d.object.name \notin chosen}
      /\ outcome.status = DraftStatus(ledger, selected)
  BY DEF Outcome
<1>2. selected \subseteq FinalProposals(ledger)
  BY DEF Selected
<1>3. \A f \in FinalProposals(ledger) :
        ledger[f].candidates # {} /\ ledger[f].candidates \subseteq Names(Frontier(ledger))
  BY DEF FinalProposals, OfType, Refers
<1> HIDE DEF outcome, selected
<1>4. chosen \subseteq Names(Frontier(ledger)) /\ (selected # {} => chosen # {})
  BY <1>2, <1>3
<1>5. chosen \cup Names(outcome.alternatives) = Names(Frontier(ledger))
  BY <1>1, <1>4 DEF Names
<1>6. ASSUME outcome.status = "draft"
      PROVE  /\ chosen # {}
             /\ \A d \in AcceptedObjects(ledger, "need") :
                  \E j \in OfType(ledger, "evidence_result_recorded") :
                    ledger[j].need = d.object.name
             /\ \A i \in OfType(ledger, "proposal_accepted") :
                  \A o \in ledger[ledger[i].target].objects :
                    o.kind \in {"objection", "obligation"} => ~o.live
  <2>1. Unanswered(ledger) = {} /\ Unchecked(ledger) = {} /\ selected # {}
    BY <1>1, <1>6 DEF DraftStatus
  <2>2. ASSUME NEW d \in AcceptedObjects(ledger, "need")
        PROVE  \E j \in OfType(ledger, "evidence_result_recorded") :
                 ledger[j].need = d.object.name
    BY <2>1 DEF Unchecked, Reported
  <2>3. ASSUME NEW i \in OfType(ledger, "proposal_accepted"),
               NEW o \in ledger[ledger[i].target].objects,
               o.kind \in {"objection", "obligation"}
        PROVE  ~o.live
    <3> DEFINE p == ledger[i].target
               d == [from |-> p, object |-> o]
    <3>1. p \in OfType(ledger, "extraction_proposed") /\ p < i
      BY DEF Refers, OfType
    <3>2. i \in Acceptances(ledger, p)
      BY <3>1 DEF Acceptances, Lifecycle
    <3>3. p \in AcceptedProposals(ledger)
      BY <3>1, <3>2 DEF AcceptedProposals
    <3>4. d \in AcceptedObjects(ledger, o.kind) /\ d.object = o
      BY <3>3 DEF AcceptedObjects
    <3> QED
      BY <2>1, <2>3, <3>4 DEF Unanswered
  <2> QED
    BY <1>4, <2>1, <2>2, <2>3
<1> QED
  BY <1>1, <1>4, <1>5, <1>6 DEF outcome

(***************************************************************************)
(* Whatever was challenged, accepted or proposed since: an outcome, of     *)
(* whichever final candidate, recommends candidates of the frontier as it  *)
(* is, shows all others, and is a draft only when everything accepted is   *)
(* answered and checked.                                                   *)
(***************************************************************************)
THEOREM OutcomesCoverTheFrontier == Spec => []OutcomeCoversFrontier
<1>1. LedgerOK => OutcomeCoversFrontier
  BY OutcomeOfToday DEF OutcomeCoversFrontier, LedgerOK
<1> QED
  BY <1>1, LedgerIsSound, PTL

-----------------------------------------------------------------------------
(***************************************************************************)
(* Calls that are repeated.                                                *)
(***************************************************************************)
\* What a final candidate is based on and what it leaves aside, read today.
GroundsToday(l, names) == UNION {Grounds(l, CandidateNamed(l, n)) : n \in names}
OthersToday(l, names) == {d \in Frontier(l) : d.object.name \notin names}

AcceptedBefore(l, i) == \A j \in OfType(l, "proposal_accepted") : j < i

\* A final candidate that no acceptance follows is what it would be today.
FinalsAsToday(l) ==
  \A i \in DOMAIN l :
    l[i].type = "final_candidate_proposed" /\ AcceptedBefore(l, i) =>
      /\ l[i].basedOn = GroundsToday(l, l[i].candidates)
      /\ l[i].alternatives = OthersToday(l, l[i].candidates)

\* CandidateNamed, of a frontier.
LatestIn(frontier, name) ==
  CHOOSE d \in frontier :
    /\ d.object.name = name
    /\ \A other \in frontier : other.object.name = name => other.from <= d.from

LEMMA CandidateIsLatest ==
  ASSUME NEW l, NEW name
  PROVE  CandidateNamed(l, name) = LatestIn(Frontier(l), name)
BY DEF CandidateNamed, LatestIn

LEMMA TodayIsTheSame ==
  ASSUME NEW l, IsLog(l), NEW e, NEW m, Extends(l, e, m), e.type # "proposal_accepted",
         NEW names, names \subseteq Names(Frontier(l))
  PROVE  /\ GroundsToday(m, names) = GroundsToday(l, names)
         /\ OthersToday(m, names) = OthersToday(l, names)
<1>1. Frontier(m) = Frontier(l) /\ \A i : Acceptances(m, i) = Acceptances(l, i)
  BY ProjectionsSame
<1>2. ASSUME NEW n \in names
      PROVE  Grounds(m, CandidateNamed(m, n)) = Grounds(l, CandidateNamed(l, n))
  <2>1. CandidateNamed(m, n) = CandidateNamed(l, n)
    BY <1>1, CandidateIsLatest
  <2>2. CandidateNamed(l, n) \in AcceptedObjects(l, "candidate")
    BY CandidateFound, FrontierObject
  <2>3. m[CandidateNamed(l, n).from] = l[CandidateNamed(l, n).from]
    BY <2>2, AcceptedObject DEF Extends
  <2> QED
    BY <1>1, <2>1, <2>3 DEF Grounds
<1> QED
  BY <1>1, <1>2 DEF GroundsToday, OthersToday

LEMMA FinalsAsTodayStep ==
  ASSUME LedgerOK, FinalsAsToday(ledger), NEW e, IsInput(ledger, e), Extends(ledger, e, ledger')
  PROVE  FinalsAsToday(ledger')
<1> SUFFICES ASSUME NEW i \in DOMAIN ledger', ledger'[i].type = "final_candidate_proposed",
                    AcceptedBefore(ledger', i)
             PROVE  /\ ledger'[i].basedOn = GroundsToday(ledger', ledger'[i].candidates)
                    /\ ledger'[i].alternatives = OthersToday(ledger', ledger'[i].candidates)
  BY DEF FinalsAsToday
<1>1. \/ i \in DOMAIN ledger /\ ledger'[i] = ledger[i]
      \/ i = Len(ledger) + 1 /\ ledger'[i] = e
  BY DEF Extends
<1>2. /\ i \in Nat /\ Len(ledger) \in Nat /\ i <= Len(ledger) + 1
      /\ DOMAIN ledger' = DOMAIN ledger \cup {Len(ledger) + 1}
      /\ ledger'[Len(ledger) + 1] = e
  BY DEF Extends
<1>3. e.type # "proposal_accepted"
  <2>1. SUFFICES ASSUME e.type = "proposal_accepted" PROVE FALSE
    OBVIOUS
  <2>2. Len(ledger) + 1 \in OfType(ledger', "proposal_accepted")
    BY <1>2, <2>1 DEF OfType
  <2> QED
    BY <1>2, <2>2 DEF AcceptedBefore
<1>4. CASE i \in DOMAIN ledger /\ ledger'[i] = ledger[i]
  <2>1. ledger[i].candidates \subseteq Names(Frontier(ledger))
    BY <1>4 DEF LedgerOK, Refers
  <2>2. AcceptedBefore(ledger, i)
    BY <1>3, ProjectionsSame DEF AcceptedBefore
  <2>3. /\ ledger[i].basedOn = GroundsToday(ledger, ledger[i].candidates)
        /\ ledger[i].alternatives = OthersToday(ledger, ledger[i].candidates)
    BY <1>4, <2>2 DEF FinalsAsToday
  <2>4. IsLog(ledger)
    BY DEF LedgerOK
  <2> QED
    BY <1>3, <1>4, <2>1, <2>3, <2>4, TodayIsTheSame
<1>5. CASE ledger'[i] = e
  <2>1. FinalCalled(ledger, e)
    BY <1>5
    DEF IsInput, ExtractionCalled, ProposalResponded, ProcessCalled, AuditCalled, EvidenceCalled,
        ExtractionInput, ResponseInput, ProcessInput, DecisionInput, EvidenceInput
  <2>2. PICK a, key, names : /\ names \in SUBSET Names(Frontier(ledger)) /\ names # {}
                             /\ e = FinalInput(ledger, a, key, names)
    BY <2>1 DEF FinalCalled
  <2>3. /\ e.basedOn = GroundsToday(ledger, names)
        /\ e.alternatives = OthersToday(ledger, names)
        /\ e.candidates = names
    BY <2>2 DEF FinalInput, GroundsToday, OthersToday
  <2>4. IsLog(ledger)
    BY DEF LedgerOK
  <2> QED
    BY <1>3, <1>5, <2>2, <2>3, <2>4, TodayIsTheSame
<1> QED
  BY <1>1, <1>4, <1>5

\* An input that says what event i says finds event i.
Repeats(e, input) ==
  /\ input.type = e.type /\ input.key = e.key
  /\ DOMAIN input = DOMAIN e
  /\ \A f \in DOMAIN e \ {"payloadId"} : input[f] = e[f]
  /\ "payloadId" \in DOMAIN e => e.type \in TypesWithIgnoredPayloadId

LEMMA RepeatIsCompatible ==
  ASSUME NEW e, NEW input, Repeats(e, input)
  PROVE  IsCompatible(e, input)
<1>1. GeneratedFields(e) = GeneratedFields(input)
  BY DEF Repeats, GeneratedFields
<1>2. \A f \in DOMAIN e \ GeneratedFields(e) : input[f] = e[f]
  BY DEF Repeats, GeneratedFields
<1>3. Comparable(e) = Comparable(input)
  BY <1>1, <1>2 DEF Comparable, Repeats
<1> QED
  BY <1>3 DEF IsCompatible, Repeats

LEMMA RepeatReplays ==
  ASSUME NEW l, OneEventPerKey(l), NEW i \in DOMAIN l, l[i].key # NoKey,
         NEW input, Repeats(l[i], input)
  PROVE  IsReplay(l, input) /\ ReturnedEvent(l, input) = i
<1>1. i \in KeyHolders(l, input)
  BY DEF KeyHolders, Repeats
<1>2. i \in Replays(l, input)
  BY <1>1, RepeatIsCompatible DEF Replays
<1>3. \A j \in Replays(l, input) : j = i
  BY DEF Replays, KeyHolders, OneEventPerKey, Repeats
<1>4. (CHOOSE j \in Replays(l, input) : TRUE) = i
  BY <1>2, <1>3
<1> QED
  BY <1>1, <1>2, <1>4 DEF IsReplay, ReturnedEvent, IsNew

\* A call whose events can be repeated repeats them.
LEMMA InputRepeats ==
  ASSUME LedgerOK, FinalsAsToday(ledger), NEW i \in DOMAIN ledger, ledger[i].key # NoKey,
         ledger[i].type \notin UnrepeatableTypes,
         ledger[i].type = "final_candidate_proposed" => AcceptedBefore(ledger, i)
  PROVE  Repeats(ledger[i], RepeatedInput(i))
<1> DEFINE e == ledger[i]
<1>1. HasShape(e) /\ e.key # NoKey /\ e.type \notin UnrepeatableTypes
  BY DEF LedgerOK
<1>2. CASE e.type = "extraction_proposed"
  <2>1. RepeatedInput(i) = ExtractionInput(ledger, e.author, e.key, e.objects, e.basedOn)
    BY <1>2 DEF RepeatedInput
  <2>2. DOMAIN e = {"type", "key", "author", "basedOn", "objects", "payloadId"}
    BY <1>1, <1>2 DEF HasShape, ResponseTypes, UnrepeatableTypes
  <2> HIDE DEF e
  <2>3. Repeats(e, ExtractionInput(ledger, e.author, e.key, e.objects, e.basedOn))
    BY <1>2, <2>2 DEF ExtractionInput, Repeats, TypesWithIgnoredPayloadId
  <2> QED
    BY <2>1, <2>3 DEF e
<1>3. CASE e.type \in ResponseTypes
  <2>1. RepeatedInput(i) = ResponseInput(ledger, e.type, e.author, e.key, e.target)
    <3>1. CASE e.type = "proposal_challenged"
      BY <3>1 DEF RepeatedInput
    <3>2. CASE e.type = "proposal_accepted"
      BY <3>2 DEF RepeatedInput
    <3>3. CASE e.type = "final_audit_recorded"
      BY <3>3 DEF RepeatedInput
    <3> QED
      BY <1>3, <3>1, <3>2, <3>3 DEF ResponseTypes
  <2>2. /\ DOMAIN e = {"type", "key", "author", "basedOn", "target", "payloadId"}
        /\ e.basedOn = {e.target}
    BY <1>1, <1>3 DEF HasShape, ResponseTypes, UnrepeatableTypes
  <2> HIDE DEF e
  <2>3. Repeats(e, ResponseInput(ledger, e.type, e.author, e.key, e.target))
    BY <1>3, <2>2 DEF ResponseInput, Repeats, TypesWithIgnoredPayloadId, ResponseTypes
  <2> QED
    BY <2>1, <2>3 DEF e
<1>4. CASE e.type = "process_proposal_proposed"
  <2>1. RepeatedInput(i) = ProcessInput(e.author, e.key, e.process, e.basedOn)
    BY <1>4 DEF RepeatedInput
  <2>2. DOMAIN e = {"type", "key", "author", "basedOn", "process"}
    BY <1>1, <1>4 DEF HasShape, ResponseTypes, UnrepeatableTypes
  <2> HIDE DEF e
  <2>3. Repeats(e, ProcessInput(e.author, e.key, e.process, e.basedOn))
    BY <1>4, <2>2 DEF ProcessInput, Repeats
  <2> QED
    BY <2>1, <2>3 DEF e
<1>5. CASE e.type = "final_candidate_proposed"
  <2>1. RepeatedInput(i) = FinalInput(ledger, e.author, e.key, e.candidates)
    BY <1>5 DEF RepeatedInput
  <2>2. DOMAIN e = {"type", "key", "author", "basedOn", "candidates", "alternatives", "payloadId"}
    BY <1>1, <1>5 DEF HasShape, ResponseTypes, UnrepeatableTypes
  <2>3. /\ e.basedOn = GroundsToday(ledger, e.candidates)
        /\ e.alternatives = OthersToday(ledger, e.candidates)
    BY <1>5 DEF FinalsAsToday
  <2> HIDE DEF e
  <2> DEFINE input == FinalInput(ledger, e.author, e.key, e.candidates)
  <2>4. /\ input.type = e.type /\ input.key = e.key /\ input.author = e.author
        /\ input.candidates = e.candidates
        /\ DOMAIN input = DOMAIN e
    BY <1>5, <2>2 DEF FinalInput
  <2>5. input.basedOn = e.basedOn /\ input.alternatives = e.alternatives
    BY <2>3 DEF FinalInput, GroundsToday, OthersToday
  <2> HIDE DEF e, input
  <2>6. Repeats(e, input)
    BY <1>5, <2>2, <2>4, <2>5 DEF Repeats, TypesWithIgnoredPayloadId
  <2> QED
    BY <2>1, <2>6 DEF e, input
<1> QED
  BY <1>1, <1>2, <1>3, <1>4, <1>5 DEF HasShape

(***************************************************************************)
(* A client that lost its answer and repeats its call under the same key,  *)
(* after whatever others called meanwhile, is given the event it wrote; a  *)
(* final candidate as long as nothing was accepted since.                  *)
(***************************************************************************)
THEOREM RepeatedCallsFindTheirEvent == Spec => []RepeatedCallReplays
<1>1. Init => FinalsAsToday(ledger)
  BY DEF Init, FinalsAsToday, TopicContract
<1>2. LedgerOK /\ FinalsAsToday(ledger) /\ [Next]_ledger => FinalsAsToday(ledger')
  BY OneMoreInput, FinalsAsTodayStep
<1>3. LedgerOK /\ FinalsAsToday(ledger) => RepeatedCallReplays
  <2> SUFFICES ASSUME LedgerOK, FinalsAsToday(ledger), NEW i \in DOMAIN ledger,
                      ledger[i].key # NoKey, ledger[i].type \notin UnrepeatableTypes,
                      ledger[i].type = "final_candidate_proposed" => AcceptedBefore(ledger, i)
               PROVE  /\ IsReplay(ledger, RepeatedInput(i))
                      /\ ReturnedEvent(ledger, RepeatedInput(i)) = i
    BY DEF RepeatedCallReplays, UnrepeatableTypes, AcceptedBefore
  <2> QED
    BY InputRepeats, RepeatReplays DEF LedgerOK
<1>4. FinalsAsToday(ledger)' <=> FinalsAsToday(ledger')
  BY DEF FinalsAsToday, AcceptedBefore, GroundsToday, OthersToday
<1> QED
  BY <1>1, <1>2, <1>3, <1>4, LedgerIsSound, PTL DEF Spec
=============================================================================
