--------------------------- MODULE AdaptiveRunProofs ---------------------------
(***************************************************************************)
(* Theorems about the runs of a deliberation.  The record of their rounds  *)
(* stays true to what the rounds wrote, whichever stages and clients write *)
(* in between; this makes scheduler and executor agree, though they judge  *)
(* a run by rules of their own.                                            *)
(***************************************************************************)
EXTENDS AdaptiveRun, DeliberationProofs

-----------------------------------------------------------------------------
(***************************************************************************)
(* What is true of a run in every state.  Each event is right about the    *)
(* ledger, and each round's record too (RoundOK): of a review, all that it *)
(* answered is in one extraction round, the one it names; of a             *)
(* finalization, its audits are of its one final candidate, and it has the *)
(* candidate it was begun for.                                             *)
(***************************************************************************)
DivergenceStates == {"none", "failed", "waiting", "revealed"}

\* An event at a position behind a ledger, or in it, names what is there.
Right(l, i, e) ==
  /\ Refers(l, i, e) /\ Grounded(l, e)
  /\ e.type = "extraction_proposed" =>
       IsFiniteSet(e.objects) /\ e.objects \subseteq UNION Drafts

LedgerRight(l) == \A i \in DOMAIN l : Right(l, i, l[i])

IsRound(r) == r = [id |-> r.id, source |-> r.source, status |-> r.status,
                   events |-> r.events, final |-> r.final]

Reviews(l, extractions, r) ==
  \E j \in DOMAIN extractions :
    /\ extractions[j].id = r.source
    /\ \A e \in r.events : l[e].target \in extractions[j].events

AtMostOne(set) == set = {} \/ \E x : set = {x}

Finalizes(l, r) ==
  /\ r.final \subseteq FinalProposals(l) /\ AtMostOne(r.final)
  /\ r.source.candidate \in {{}, r.final}
  /\ \A e \in r.events : /\ l[e].type = "final_audit_recorded"
                         /\ {l[e].target} = r.final /\ l[e].target < e

RoundOK(l, extractions, stage, r) ==
  /\ IsRound(r) /\ r.events \subseteq DOMAIN l
  /\ stage = "extraction" => r.events \subseteq OfType(l, "extraction_proposed")
  /\ stage = "review" => Reviews(l, extractions, r)
  /\ stage = "evidence" => {l[e].need : e \in r.events} \subseteq r.source
  /\ stage = "finalization" => Finalizes(l, r)

RoundsAreLogs == /\ rounds = [stage \in Stages |-> rounds[stage]]
                 /\ \A stage \in Stages : IsLog(rounds[stage])

OneRoundPerId == \A stage \in Stages : \A i, j \in DOMAIN rounds[stage] :
                   rounds[stage][i].id = rounds[stage][j].id => i = j

RoundsOK == \A stage \in Stages : \A i \in DOMAIN rounds[stage] :
              RoundOK(ledger, rounds["extraction"], stage, rounds[stage][i])

RunInv ==
  /\ divergence \in DivergenceStates
  /\ IsLog(ledger) /\ LedgerRight(ledger)
  /\ RoundsAreLogs /\ OneRoundPerId /\ RoundsOK

(***************************************************************************)
(* Sequences.                                                              *)
(***************************************************************************)
\* m is l, or l and more.
Grows(l, m) ==
  /\ IsLog(l) /\ IsLog(m) /\ DOMAIN l \subseteq DOMAIN m
  /\ \A i \in DOMAIN l : m[i] = l[i]

LEMMA LogOverDomain == ASSUME NEW l, IsLog(l) PROVE DOMAIN l = 1..Len(l) /\ Len(l) \in Nat
BY DEF IsLog

LEMMA FunctionIsLog ==
  ASSUME NEW n \in Nat, NEW f, f = [i \in 1..n |-> f[i]]
  PROVE  IsLog(f) /\ Len(f) = n
<1> DEFINE S == {f[i] : i \in 1..n}
<1>1. [i \in 1..n |-> f[i]] \in [1..n -> S]
  OBVIOUS
<1>2. f \in [1..n -> S]
  BY <1>1
<1> HIDE DEF S
<1>3. f \in Seq(S)
  BY <1>2, SeqDef
<1>4. Len(f) = n
  BY <1>2, <1>3, LenProperties
<1> QED
  BY <1>4 DEF IsLog

LEMMA ConcatGrows ==
  ASSUME NEW l, IsLog(l), NEW n, IsLog(n)
  PROVE  /\ Grows(l, l \o n) /\ Len(l \o n) = Len(l) + Len(n)
         /\ DOMAIN (l \o n) = DOMAIN l \cup ((Len(l) + 1)..(Len(l) + Len(n)))
         /\ \A i \in DOMAIN n : (l \o n)[Len(l) + i] = n[i]
         /\ \A j \in (Len(l) + 1)..(Len(l) + Len(n)) :
              \E i \in DOMAIN n : j = Len(l) + i /\ (l \o n)[j] = n[i]
<1> DEFINE S == {l[i] : i \in 1..Len(l)} \cup {n[i] : i \in 1..Len(n)}
<1>1. /\ [i \in 1..Len(l) |-> l[i]] \in [1..Len(l) -> S]
      /\ [i \in 1..Len(n) |-> n[i]] \in [1..Len(n) -> S]
  OBVIOUS
<1>2. /\ l \in [1..Len(l) -> S] /\ Len(l) \in Nat
      /\ n \in [1..Len(n) -> S] /\ Len(n) \in Nat
  BY <1>1 DEF IsLog
<1> HIDE DEF S
<1>3. l \in Seq(S) /\ n \in Seq(S)
  BY <1>2, SeqDef
<1>4. /\ l \o n \in Seq(S) /\ Len(l \o n) = Len(l) + Len(n)
      /\ \A i \in 1..(Len(l) + Len(n)) :
           (l \o n)[i] = IF i <= Len(l) THEN l[i] ELSE n[i - Len(l)]
  BY <1>3, ConcatProperties
<1>5. l \o n \in [1..Len(l \o n) -> S]
  BY <1>4, LenProperties
<1>6. IsLog(l \o n) /\ DOMAIN (l \o n) = 1..(Len(l) + Len(n))
  <2>1. PICK m : m = l \o n
    OBVIOUS
  <2>2. m \in [1..Len(m) -> S] /\ Len(m) = Len(l) + Len(n) /\ Len(m) \in Nat
    BY <1>2, <1>4, <1>5, <2>1
  <2>3. m = [i \in 1..Len(m) |-> m[i]] /\ DOMAIN m = 1..(Len(l) + Len(n))
    BY <2>2
  <2> QED
    BY <2>1, <2>2, <2>3 DEF IsLog
<1>7. DOMAIN l = 1..Len(l) /\ DOMAIN n = 1..Len(n)
  BY <1>2
<1>8. ASSUME NEW i \in DOMAIN l PROVE i \in 1..(Len(l) + Len(n)) /\ (l \o n)[i] = l[i]
  BY <1>2, <1>4, <1>7
<1>9. ASSUME NEW i \in DOMAIN n
      PROVE  Len(l) + i \in 1..(Len(l) + Len(n)) /\ (l \o n)[Len(l) + i] = n[i]
  <2>1. i \in Nat /\ 1 <= i /\ i <= Len(n) /\ ~(Len(l) + i <= Len(l)) /\ Len(l) + i - Len(l) = i
    BY <1>2, <1>7
  <2>2. Len(l) + i \in 1..(Len(l) + Len(n))
    BY <1>2, <2>1
  <2> QED
    BY <1>4, <2>1, <2>2
<1>10. ASSUME NEW j \in (Len(l) + 1)..(Len(l) + Len(n))
       PROVE  \E i \in DOMAIN n : j = Len(l) + i /\ (l \o n)[j] = n[i]
  <2>1. j - Len(l) \in DOMAIN n /\ j = Len(l) + (j - Len(l))
    BY <1>2, <1>7
  <2> QED
    BY <1>9, <2>1
<1>11. 1..(Len(l) + Len(n)) = 1..Len(l) \cup ((Len(l) + 1)..(Len(l) + Len(n)))
  BY <1>2
<1> QED
  BY <1>4, <1>6, <1>7, <1>8, <1>9, <1>10, <1>11 DEF Grows

LEMMA ConcatTail ==
  ASSUME NEW l, IsLog(l), NEW n, IsLog(n),
         NEW j \in (Len(l) + 1)..(Len(l) + Len(n))
  PROVE  \E i \in DOMAIN n : j = Len(l) + i /\ (l \o n)[j] = n[i]
<1>1. \A i \in (Len(l) + 1)..(Len(l) + Len(n)) :
        \E k \in DOMAIN n : i = Len(l) + k /\ (l \o n)[i] = n[k]
  BY ConcatGrows
<1> QED
  BY <1>1

LEMMA EmptyIsLog == IsLog(<<>>) /\ DOMAIN (<<>>) = {} /\ Len(<<>>) = 0
BY DEF IsLog

LEMMA SingleIsLog == ASSUME NEW e PROVE IsLog(<<e>>) /\ DOMAIN <<e>> = {1} /\ <<e>>[1] = e /\ Len(<<e>>) = 1
BY DEF IsLog

LEMMA GrowsFurther == ASSUME NEW l, NEW m, NEW n, Grows(l, m), Grows(m, n) PROVE Grows(l, n)
BY DEF Grows

LEMMA ExtendsGrows == ASSUME NEW l, IsLog(l), NEW e, NEW m, Extends(l, e, m) PROVE Grows(l, m)
BY DEF Grows, Extends

\* SetToSeq enumerates a finite set.
LEMMA Enumerated ==
  ASSUME NEW S, IsFiniteSet(S)
  PROVE  /\ Cardinality(S) \in Nat
         /\ \A i \in 1..Cardinality(S) : SetToSeq(S)[i] \in S
<1>1. Cardinality(S) \in Nat /\ ExistsBijection(1..Cardinality(S), S)
  BY FS_CardinalityType
<1>2. PICK f \in Bijection(1..Cardinality(S), S) : TRUE
  BY <1>1 DEF ExistsBijection
<1>3. f \in [1..Cardinality(S) -> S] /\ IsInjective(f)
  BY <1>2 DEF Bijection, Injection
<1>4. SetToSeq(S) \in [1..Cardinality(S) -> S]
  BY <1>3 DEF SetToSeq
<1> QED
  BY <1>1, <1>4

-----------------------------------------------------------------------------
(***************************************************************************)
(* The record of the rounds.                                               *)
(***************************************************************************)
\* y has the rounds of x, with what they wrote, and perhaps more.
Keeps(x, y) ==
  \A j \in DOMAIN x : /\ j \in DOMAIN y /\ y[j].id = x[j].id
                      /\ x[j].events \subseteq y[j].events

\* A record stays right when the ledger grows and the extraction rounds go on.
LEMMA RoundStaysOK ==
  ASSUME NEW l, NEW m, Grows(l, m), NEW x, NEW y, Keeps(x, y),
         NEW stage, NEW r, RoundOK(l, x, stage, r)
  PROVE  RoundOK(m, y, stage, r)
<1>1. IsRound(r) /\ r.events \subseteq DOMAIN m /\ \A e \in r.events : m[e] = l[e]
  BY DEF RoundOK, Grows
<1>5. ASSUME stage = "extraction" PROVE r.events \subseteq OfType(m, "extraction_proposed")
  BY <1>1, <1>5 DEF RoundOK, OfType
<1>2. ASSUME stage = "review" PROVE Reviews(m, y, r)
  <2>1. PICK j \in DOMAIN x : /\ x[j].id = r.source
                              /\ \A e \in r.events : l[e].target \in x[j].events
    BY <1>2 DEF RoundOK, Reviews
  <2>2. j \in DOMAIN y /\ y[j].id = r.source
    BY <2>1 DEF Keeps
  <2>3. \A e \in r.events : m[e].target \in y[j].events
    BY <1>1, <2>1 DEF Keeps
  <2> QED
    BY <2>2, <2>3 DEF Reviews
<1>3. ASSUME stage = "evidence" PROVE {m[e].need : e \in r.events} \subseteq r.source
  BY <1>1, <1>3 DEF RoundOK
<1>4. ASSUME stage = "finalization" PROVE Finalizes(m, r)
  <2>1. Finalizes(l, r)
    BY <1>4 DEF RoundOK
  <2>2. r.final \subseteq FinalProposals(m)
    BY <2>1 DEF Finalizes, FinalProposals, OfType, Grows
  <2> QED
    BY <1>1, <2>1, <2>2 DEF Finalizes
<1> QED
  BY <1>1, <1>2, <1>3, <1>4, <1>5 DEF RoundOK

\* A round is written over the one of its id, or behind the others.
LEMMA UpsertEffect ==
  ASSUME RoundsAreLogs, OneRoundPerId, NEW stage \in Stages, NEW round, Upsert(stage, round)
  PROVE  /\ RoundsAreLogs' /\ OneRoundPerId'
         /\ \A other \in Stages \ {stage} : rounds'[other] = rounds[other]
         /\ DOMAIN rounds[stage] \subseteq DOMAIN rounds'[stage]
         /\ \A i \in DOMAIN rounds[stage] :
              rounds'[stage][i] = IF rounds[stage][i].id = round.id THEN round
                                  ELSE rounds[stage][i]
         /\ \A i \in DOMAIN rounds'[stage] :
              i \in DOMAIN rounds[stage] \/ rounds'[stage][i] = round
<1> DEFINE old == rounds[stage]
<1>1. /\ DOMAIN rounds = Stages /\ IsLog(old)
      /\ \A i, j \in DOMAIN old : old[i].id = old[j].id => i = j
  BY DEF RoundsAreLogs, OneRoundPerId
<1>2. PICK new : rounds' = [rounds EXCEPT ![stage] = new] /\
                 new = IF Recorded(stage, round.id) = {} THEN Append(old, round)
                       ELSE [i \in DOMAIN old |-> IF old[i].id = round.id THEN round ELSE old[i]]
  BY DEF Upsert
<1>3. /\ rounds'[stage] = new /\ DOMAIN rounds' = Stages
      /\ \A other \in Stages \ {stage} : rounds'[other] = rounds[other]
      /\ rounds' = [s \in Stages |-> rounds'[s]]
  BY <1>1, <1>2
<1>4. /\ IsLog(new) /\ DOMAIN old \subseteq DOMAIN new
      /\ \A i \in DOMAIN old : new[i] = IF old[i].id = round.id THEN round ELSE old[i]
      /\ \A i \in DOMAIN new : i \in DOMAIN old \/ new[i] = round
      /\ \A i, j \in DOMAIN new : new[i].id = new[j].id => i = j
  <2>1. CASE Recorded(stage, round.id) = {}
    <3>1. new = Append(old, round)
      BY <1>2, <2>1
    <3>2. Extends(old, round, new)
      BY <1>1, <3>1, AppendExtends
    <3>3. \A i \in DOMAIN old : old[i].id # round.id
      BY <2>1 DEF Recorded
    <3>4. IsLog(new) /\ DOMAIN new = DOMAIN old \cup {Len(old) + 1} /\ new[Len(old) + 1] = round
          /\ \A i \in DOMAIN old : new[i] = old[i]
      BY <3>2 DEF Extends
    <3> HIDE DEF old
    <3> QED
      BY <1>1, <3>3, <3>4
  <2>2. CASE Recorded(stage, round.id) # {}
    <3>1. new = [i \in DOMAIN old |-> IF old[i].id = round.id THEN round ELSE old[i]]
      BY <1>2, <2>2
    <3>2. DOMAIN old = 1..Len(old) /\ Len(old) \in Nat
      BY <1>1, LogOverDomain
    <3> HIDE DEF old
    <3>3. IsLog(new)
      <4>1. new = [i \in 1..Len(old) |-> new[i]]
        BY <3>1, <3>2
      <4> QED
        BY <3>2, <4>1, FunctionIsLog
    <3>4. DOMAIN new = DOMAIN old /\ \A i \in DOMAIN old : new[i].id = old[i].id
      BY <3>1
    <3> QED
      BY <1>1, <3>1, <3>3, <3>4
  <2> QED
    BY <2>1, <2>2
<1>5. RoundsAreLogs'
  <2>1. \A s \in Stages : IsLog(rounds'[s])
    BY <1>3, <1>4 DEF RoundsAreLogs
  <2> QED
    BY <1>3, <2>1 DEF RoundsAreLogs, IsLog
<1>6. OneRoundPerId'
  BY <1>3, <1>4 DEF OneRoundPerId
<1> QED
  BY <1>3, <1>4, <1>5, <1>6

\* The round a stage works on: what the record of that id has written.
LEMMA BegunRound ==
  ASSUME RunInv, NEW stage \in Stages, NEW id, NEW source
  PROVE  LET r == Begun(stage, id, source)
         IN  /\ IsRound(r) /\ r.id = id /\ r.source = source
             /\ \/ Recorded(stage, id) = {} /\ r.events = {} /\ r.final = {}
                \/ \E i \in Recorded(stage, id) :
                     r.events = rounds[stage][i].events /\ r.final = rounds[stage][i].final
<1>1. CASE Recorded(stage, id) = {}
  BY <1>1 DEF Begun, NewRound, IsRound
<1>2. CASE Recorded(stage, id) # {}
  <2>1. PICK i \in Recorded(stage, id) :
          Begun(stage, id, source) = [rounds[stage][i] EXCEPT !.source = source]
    BY <1>2 DEF Begun
  <2>2. IsRound(rounds[stage][i]) /\ rounds[stage][i].id = id
    BY <2>1 DEF RunInv, RoundsOK, RoundOK, Recorded
  <2>3. PICK old : old = rounds[stage][i]
    OBVIOUS
  <2>4. Begun(stage, id, source) = [id |-> old.id, source |-> source, status |-> old.status,
                                    events |-> old.events, final |-> old.final]
    BY <2>1, <2>2, <2>3 DEF IsRound
  <2> QED
    BY <2>1, <2>2, <2>3, <2>4 DEF IsRound
<1> QED
  BY <1>1, <1>2

-----------------------------------------------------------------------------
(***************************************************************************)
(* Steps.                                                                  *)
(***************************************************************************)
\* A step that leaves the rounds alone.
LEMMA LedgerStep ==
  ASSUME RunInv, Grows(ledger, ledger'), LedgerRight(ledger'), UNCHANGED rounds,
         divergence' \in DivergenceStates
  PROVE  RunInv'
<1>1. RoundsAreLogs' /\ OneRoundPerId'
  BY DEF RunInv, RoundsAreLogs, OneRoundPerId, IsLog
<1>2. RoundsOK'
  BY RoundStaysOK DEF RunInv, RoundsOK, Keeps
<1>3. IsLog(ledger') /\ (IsLog(ledger') <=> IsLog(ledger)')
  BY DEF Grows, IsLog
<1>4. LedgerRight(ledger') <=> LedgerRight(ledger)'
  BY DEF LedgerRight
<1> QED
  BY <1>1, <1>2, <1>3, <1>4 DEF RunInv

\* A step that begins a round, or goes on with it.
LEMMA RoundStep ==
  ASSUME RunInv, Grows(ledger, ledger'), LedgerRight(ledger'), UNCHANGED divergence,
         NEW stage \in Stages, NEW round, Upsert(stage, round),
         \A i \in Recorded(stage, round.id) : rounds[stage][i].events \subseteq round.events,
         RoundOK(ledger', rounds["extraction"], stage, round)
  PROVE  RunInv'
<1>1. /\ RoundsAreLogs' /\ OneRoundPerId'
      /\ \A other \in Stages \ {stage} : rounds'[other] = rounds[other]
      /\ DOMAIN rounds[stage] \subseteq DOMAIN rounds'[stage]
      /\ \A i \in DOMAIN rounds[stage] :
           rounds'[stage][i] = IF rounds[stage][i].id = round.id THEN round
                               ELSE rounds[stage][i]
      /\ \A i \in DOMAIN rounds'[stage] : i \in DOMAIN rounds[stage] \/ rounds'[stage][i] = round
  BY UpsertEffect DEF RunInv
<1>2. Keeps(rounds["extraction"], rounds'["extraction"])
  <2>1. CASE stage = "extraction"
    BY <1>1, <2>1 DEF Keeps, Recorded
  <2>2. CASE stage # "extraction"
    <3>1. rounds'["extraction"] = rounds["extraction"]
      BY <1>1, <2>2 DEF Stages
    <3> QED
      BY <3>1 DEF Keeps
  <2> QED
    BY <2>1, <2>2
<1>3. Grows(ledger', ledger')
  BY DEF Grows
<1>4. RoundOK(ledger', rounds'["extraction"], stage, round)
  BY <1>2, <1>3, RoundStaysOK
<1>5. ASSUME NEW s \in Stages, NEW i \in DOMAIN rounds'[s]
      PROVE  RoundOK(ledger', rounds'["extraction"], s, rounds'[s][i])
  <2>1. CASE s = stage /\ rounds'[s][i] = round
    BY <1>4, <2>1
  <2>2. CASE i \in DOMAIN rounds[s] /\ rounds'[s][i] = rounds[s][i]
    <3>1. RoundOK(ledger, rounds["extraction"], s, rounds[s][i])
      BY <2>2 DEF RunInv, RoundsOK
    <3> QED
      BY <1>2, <2>2, <3>1, RoundStaysOK
  <2> QED
    BY <1>1, <2>1, <2>2
<1>6. RoundsOK'
  BY <1>5 DEF RoundsOK
<1>7. IsLog(ledger') /\ (IsLog(ledger') <=> IsLog(ledger)')
  BY DEF Grows, IsLog
<1>8. LedgerRight(ledger') <=> LedgerRight(ledger)'
  BY DEF LedgerRight
<1>9. divergence' \in DivergenceStates
  BY DEF RunInv
<1> QED
  BY <1>1, <1>6, <1>7, <1>8, <1>9 DEF RunInv

\* What is appended is right about the ledger it is appended to.
RightInputs(l, inputs) == \A i \in DOMAIN inputs : Right(l, Len(l) + 1, inputs[i])

LEMMA RightLater ==
  ASSUME NEW l, NEW m, DOMAIN l \subseteq DOMAIN m, \A j \in DOMAIN l : m[j] = l[j],
         NEW i, NEW e, Right(l, i, e)
  PROVE  Right(m, i, e)
<1>1. Refers(l, i, e) /\ Grounded(l, e) /\ e.basedOn \subseteq DOMAIN l
  BY DEF Right, Refers
<1>2. Refers(m, i, e)
  BY <1>1, RefersLater
<1>3. Grounded(m, e)
  BY <1>1, GroundedLater
<1> QED
  BY <1>2, <1>3 DEF Right

LEMMA RightBehind ==
  ASSUME NEW l, IsLog(l), NEW e, Right(l, Len(l) + 1, e), NEW i \in Nat, Len(l) < i
  PROVE  Right(l, i, e)
<1>1. DOMAIN l = 1..Len(l) /\ Len(l) \in Nat
  BY LogOverDomain
<1>2. \A t \in OfType(l, "extraction_proposed") : t < i
  BY <1>1 DEF OfType
<1> QED
  BY <1>2 DEF Right, Refers

LEMMA RightConcat ==
  ASSUME NEW l, IsLog(l), LedgerRight(l), NEW n, IsLog(n), RightInputs(l, n)
  PROVE  LedgerRight(l \o n)
<1>1. PICK m : m = l \o n
  OBVIOUS
<1>2. /\ DOMAIN m = DOMAIN l \cup ((Len(l) + 1)..(Len(l) + Len(n)))
      /\ \A i \in DOMAIN l : m[i] = l[i]
      /\ \A j \in (Len(l) + 1)..(Len(l) + Len(n)) :
              \E i \in DOMAIN n : j = Len(l) + i /\ m[j] = n[i]
  <2>1. DOMAIN (l \o n) = DOMAIN l \cup ((Len(l) + 1)..(Len(l) + Len(n))) /\ Grows(l, l \o n)
    BY ConcatGrows
  <2>2. \A j \in (Len(l) + 1)..(Len(l) + Len(n)) :
          \E i \in DOMAIN n : j = Len(l) + i /\ (l \o n)[j] = n[i]
    BY ConcatGrows
  <2> QED
    BY <1>1, <2>1, <2>2 DEF Grows
<1>3. ASSUME NEW j \in DOMAIN m PROVE Right(m, j, m[j])
  <2>1. CASE j \in DOMAIN l
    <3>1. Right(l, j, m[j])
      BY <1>2, <2>1 DEF LedgerRight
    <3> QED
      BY <1>2, <3>1, RightLater
  <2>2. CASE j \in (Len(l) + 1)..(Len(l) + Len(n))
    <3>1. Right(l, Len(l) + 1, m[j])
      BY <1>2, <2>2 DEF RightInputs
    <3>2. j \in Nat /\ Len(l) < j
      BY <2>2, LogOverDomain
    <3>3. Right(l, j, m[j])
      BY <3>1, <3>2, RightBehind
    <3> QED
      BY <1>2, <3>3, RightLater
  <2> QED
    BY <1>2, <2>1, <2>2
<1> QED
  BY <1>1, <1>3 DEF LedgerRight

\* What a call passes to the store is right about the ledger it reads.
LEMMA InputRight ==
  ASSUME NEW l, IsLog(l), LedgerRight(l), NEW e, IsInput(l, e)
  PROVE  Right(l, Len(l) + 1, e)
<1>1. Refers(l, Len(l) + 1, e)
  BY InputOK DEF LedgerRight, Right, Refers
<1>2. FromDrafts(l)
  BY DEF FromDrafts, LedgerRight, Right, OfType
<1>3. Grounded(l, e)
  BY <1>2, GroundedInput
<1>4. ASSUME e.type = "extraction_proposed"
      PROVE  IsFiniteSet(e.objects) /\ e.objects \subseteq UNION Drafts
  <2>1. ExtractionCalled(l, e)
    BY <1>4
    DEF IsInput, ProposalResponded, ProcessCalled, FinalCalled, AuditCalled, EvidenceCalled,
        ResponseInput, ProcessInput, DecisionInput, FinalInput, EvidenceInput
  <2>2. PICK a, key : \E draft \in Drafts, sources \in SUBSET DOMAIN l :
          e = ExtractionInput(l, a, key, draft, sources)
    BY <2>1 DEF ExtractionCalled
  <2>3. e.objects \in Drafts
    BY <2>2 DEF ExtractionInput
  <2> QED
    BY <2>3, RunDraftsAssumption
<1> QED
  BY <1>1, <1>3, <1>4 DEF Right

\* The stages that record what they append, behind what their rounds wrote before; a
\* review answers proposals of one extraction round, and evidence is for the needs
\* it was started for.
LEMMA EndStageStep ==
  ASSUME RunInv, NEW stage \in Stages \ {"finalization"}, NEW id, NEW source, NEW status,
         NEW inputs, EndStage(stage, id, source, status, inputs),
         IsLog(inputs), RightInputs(ledger, inputs),
         stage = "extraction" => \A i \in DOMAIN inputs : inputs[i].type = "extraction_proposed",
         stage = "review" =>
           \E j \in DOMAIN rounds["extraction"] :
             /\ rounds["extraction"][j].id = source
             /\ \A i \in DOMAIN inputs : inputs[i].target \in rounds["extraction"][j].events,
         stage = "evidence" => \A i \in DOMAIN inputs : inputs[i].need \in source
  PROVE  RunInv'
<1>1. PICK begun : begun = Begun(stage, id, source)
  OBVIOUS
<1>2. /\ IsRound(begun) /\ begun.id = id /\ begun.source = source
      /\ \/ Recorded(stage, id) = {} /\ begun.events = {} /\ begun.final = {}
         \/ \E i \in Recorded(stage, id) :
              begun.events = rounds[stage][i].events /\ begun.final = rounds[stage][i].final
  BY <1>1, BegunRound
<1>3. PICK events : events = begun.events \cup NextEvents(inputs)
  OBVIOUS
<1>4. PICK round : round = [begun EXCEPT !.status = status, !.events = events]
  OBVIOUS
<1>5. /\ CanBegin(stage, id, source) /\ ledger' = ledger \o inputs
      /\ Upsert(stage, round) /\ UNCHANGED divergence
  BY <1>1, <1>3, <1>4 DEF EndStage
<1>6. /\ IsRound(round) /\ round.id = id /\ round.source = source
      /\ round.events = begun.events \cup NextEvents(inputs)
  <2>1. begun = [id |-> begun.id, source |-> begun.source, status |-> begun.status,
                 events |-> begun.events, final |-> begun.final]
    BY <1>2 DEF IsRound
  <2>2. round = [id |-> begun.id, source |-> begun.source, status |-> status,
                 events |-> events, final |-> begun.final]
    BY <1>4, <2>1
  <2> QED
    BY <1>2, <1>3, <2>2 DEF IsRound
<1>7. IsLog(ledger) /\ LedgerRight(ledger)
  BY DEF RunInv
<1>8. /\ Grows(ledger, ledger') /\ LedgerRight(ledger')
      /\ DOMAIN ledger' = DOMAIN ledger \cup NextEvents(inputs)
      /\ \A e \in NextEvents(inputs) : \E i \in DOMAIN inputs : ledger'[e] = inputs[i]
  BY <1>5, <1>7, ConcatGrows, RightConcat DEF NextEvents
<1>9. ASSUME NEW i \in Recorded(stage, id)
      PROVE  /\ i \in DOMAIN rounds[stage]
             /\ RoundOK(ledger, rounds["extraction"], stage, rounds[stage][i])
             /\ rounds[stage][i].source = source /\ rounds[stage][i].id = id
             /\ begun.events = rounds[stage][i].events
  <2>1. i \in DOMAIN rounds[stage] /\ rounds[stage][i].id = id
    BY DEF Recorded
  <2>2. RoundOK(ledger, rounds["extraction"], stage, rounds[stage][i])
    BY <2>1 DEF RunInv, RoundsOK
  <2>3. rounds[stage][i].source = source
    BY <1>5 DEF CanBegin, SameSource
  <2>4. \A j \in Recorded(stage, id) : j = i
    BY <2>1 DEF RunInv, OneRoundPerId, Recorded
  <2> QED
    BY <1>2, <2>1, <2>2, <2>3, <2>4
<1>10. \A i \in Recorded(stage, round.id) : rounds[stage][i].events \subseteq round.events
  BY <1>6, <1>9
<1>11. ASSUME NEW e \in begun.events
       PROVE  /\ e \in DOMAIN ledger' /\ ledger'[e] = ledger[e]
              /\ \E i \in Recorded(stage, id) : e \in rounds[stage][i].events
  <2>1. PICK i \in Recorded(stage, id) : begun.events = rounds[stage][i].events
    BY <1>2, <1>11
  <2>2. e \in DOMAIN ledger
    BY <1>9, <1>11, <2>1 DEF RoundOK
  <2> QED
    BY <1>8, <1>11, <2>1, <2>2 DEF Grows
<1>12. round.events \subseteq DOMAIN ledger'
  BY <1>6, <1>8, <1>11
<1>13. stage = "extraction" => round.events \subseteq OfType(ledger', "extraction_proposed")
  <2> SUFFICES ASSUME stage = "extraction", NEW e \in round.events
               PROVE  ledger'[e].type = "extraction_proposed"
    BY <1>12 DEF OfType
  <2>1. CASE e \in NextEvents(inputs)
    BY <1>8, <2>1
  <2>2. CASE e \in begun.events
    BY <1>9, <1>11, <2>2 DEF RoundOK, OfType
  <2> QED
    BY <1>6, <2>1, <2>2
<1>14. stage = "review" => Reviews(ledger', rounds["extraction"], round)
  <2> SUFFICES ASSUME stage = "review" PROVE Reviews(ledger', rounds["extraction"], round)
    OBVIOUS
  <2>1. PICK j \in DOMAIN rounds["extraction"] :
          /\ rounds["extraction"][j].id = source
          /\ \A i \in DOMAIN inputs : inputs[i].target \in rounds["extraction"][j].events
    OBVIOUS
  <2>2. ASSUME NEW e \in begun.events PROVE ledger'[e].target \in rounds["extraction"][j].events
    <3>1. PICK i \in Recorded(stage, id) : e \in rounds[stage][i].events
      BY <1>11, <2>2
    <3>2. PICK k \in DOMAIN rounds["extraction"] :
            /\ rounds["extraction"][k].id = source
            /\ \A x \in rounds[stage][i].events : ledger[x].target \in rounds["extraction"][k].events
      BY <1>9, <3>1 DEF RoundOK, Reviews
    <3>3. k = j
      BY <2>1, <3>2 DEF RunInv, OneRoundPerId, Stages
    <3> QED
      BY <1>11, <2>2, <3>1, <3>2, <3>3
  <2>3. \A e \in NextEvents(inputs) : ledger'[e].target \in rounds["extraction"][j].events
    BY <1>8, <2>1
  <2> QED
    BY <1>6, <2>1, <2>2, <2>3 DEF Reviews
<1>15. stage = "evidence" => {ledger'[e].need : e \in round.events} \subseteq round.source
  <2> SUFFICES ASSUME stage = "evidence", NEW e \in round.events PROVE ledger'[e].need \in source
    BY <1>6
  <2>1. CASE e \in NextEvents(inputs)
    BY <1>8, <2>1
  <2>2. CASE e \in begun.events
    BY <1>9, <1>11, <2>2 DEF RoundOK
  <2> QED
    BY <1>6, <2>1, <2>2
<1>16. RoundOK(ledger', rounds["extraction"], stage, round)
  BY <1>6, <1>12, <1>13, <1>14, <1>15 DEF RoundOK
<1> QED
  BY <1>5, <1>8, <1>10, <1>16, RoundStep

-----------------------------------------------------------------------------
(***************************************************************************)
(* Finite sets.                                                            *)
(***************************************************************************)
LEMMA ImageFinite ==
  ASSUME NEW S, IsFiniteSet(S), NEW f, DOMAIN f = S
  PROVE  /\ IsFiniteSet({f[x] : x \in S})
         /\ Cardinality({f[x] : x \in S}) <= Cardinality(S)
<1> DEFINE T == {f[x] : x \in S}
<1>1. PICK g : g = [x \in S |-> f[x]]
  OBVIOUS
<1>2. g \in [S -> T] /\ \A t \in T : \E x \in S : g[x] = t
  BY <1>1
<1> HIDE DEF T
<1>3. g \in Surjection(S, T)
  BY <1>2 DEF Surjection
<1>4. IsFiniteSet(T) /\ Cardinality(T) <= Cardinality(S)
  BY <1>3, FS_Surjection
<1> QED
  BY <1>4 DEF T

LEMMA PositionsFinite ==
  ASSUME NEW l, IsLog(l), NEW S \in SUBSET DOMAIN l
  PROVE  IsFiniteSet(S)
<1>1. IsFiniteSet(1..Len(l))
  BY LogOverDomain, FS_Interval
<1> QED
  BY <1>1, LogOverDomain, FS_Subset

LEMMA AcceptedFinite ==
  ASSUME NEW l, IsLog(l), LedgerRight(l), NEW kind
  PROVE  IsFiniteSet(AcceptedObjects(l, kind))
<1> DEFINE Of(i) == {[from |-> i, object |-> o] : o \in l[i].objects}
           A == AcceptedProposals(l)
           f == [i \in A |-> Of(i)]
           All == UNION {f[i] : i \in A}
<1>1. A \subseteq OfType(l, "extraction_proposed") /\ A \in SUBSET DOMAIN l
  BY DEF AcceptedProposals, OfType
<1>2. IsFiniteSet(A)
  BY <1>1, PositionsFinite
<1>3. ASSUME NEW i \in A PROVE IsFiniteSet(Of(i))
  <2>1. IsFiniteSet(l[i].objects)
    BY <1>1 DEF LedgerRight, Right, OfType
  <2>2. PICK g : g = [o \in l[i].objects |-> [from |-> i, object |-> o]]
    OBVIOUS
  <2>3. IsFiniteSet({g[o] : o \in l[i].objects})
    BY <2>1, <2>2, ImageFinite
  <2>4. {g[o] : o \in l[i].objects} = Of(i)
    BY <2>2
  <2> QED
    BY <2>3, <2>4
<1> HIDE DEF Of
<1>4. DOMAIN f = A /\ \A i \in A : IsFiniteSet(f[i])
  BY <1>3
<1>5. IsFiniteSet({f[i] : i \in A})
  <2> HIDE DEF f, A
  <2> QED
    BY <1>2, <1>4, ImageFinite
<1>6. IsFiniteSet(All)
  BY <1>4, <1>5, FS_UNION
<1>7. AcceptedObjects(l, kind) \in SUBSET All
  BY DEF AcceptedObjects, Of
<1> HIDE DEF All
<1> QED
  BY <1>6, <1>7, FS_Subset

LEMMA NamesFinite ==
  ASSUME NEW S, IsFiniteSet(S)
  PROVE  IsFiniteSet(Names(S)) /\ Cardinality(Names(S)) <= Cardinality(S)
<1>1. PICK f : f = [d \in S |-> d.object.name]
  OBVIOUS
<1>2. {f[d] : d \in S} = Names(S)
  BY <1>1 DEF Names
<1> QED
  BY <1>1, <1>2, ImageFinite

LEMMA FrontierFinite ==
  ASSUME NEW l, IsLog(l), LedgerRight(l)
  PROVE  IsFiniteSet(Frontier(l))
<1>1. Frontier(l) \in SUBSET AcceptedObjects(l, "candidate")
  BY DEF Frontier
<1> QED
  BY <1>1, AcceptedFinite, FS_Subset

-----------------------------------------------------------------------------
(***************************************************************************)
(* The stages.                                                             *)
(***************************************************************************)
LEMMA DivergenceStep ==
  ASSUME RunInv, RunDivergence
  PROVE  RunInv'
<1>1. PICK status \in {"failed", "waiting", "revealed"}, n \in 0..1, a \in Authors :
        /\ divergence' = status
        /\ ledger' = IF status # "revealed" THEN ledger
                     ELSE ledger \o [i \in 1..n |-> [TopicContract EXCEPT
                                       !.type = "sealed_contribution_submitted", !.author = a]]
                                 \o <<[TopicContract EXCEPT !.type = "sealed_batch_revealed"]>>
        /\ UNCHANGED rounds
  BY DEF RunDivergence
<1>2. PICK first : first = [i \in 1..n |-> [TopicContract EXCEPT
                              !.type = "sealed_contribution_submitted", !.author = a]]
  OBVIOUS
<1>3. PICK second : second = <<[TopicContract EXCEPT !.type = "sealed_batch_revealed"]>>
  OBVIOUS
<1>4. IsLog(first) /\ RightInputs(ledger, first)
  <2>1. first = [i \in 1..n |-> first[i]] /\ n \in Nat
    BY <1>2
  <2>2. \A i \in DOMAIN first :
          first[i].type = "sealed_contribution_submitted" /\ first[i].basedOn = {}
    BY <1>2 DEF TopicContract
  <2> QED
    BY <2>1, <2>2, FunctionIsLog DEF RightInputs, Right, Refers, Grounded
<1>5. IsLog(second) /\ RightInputs(ledger \o first, second)
  <2>1. PICK e : e = [TopicContract EXCEPT !.type = "sealed_batch_revealed"]
    OBVIOUS
  <2>2. e.type = "sealed_batch_revealed" /\ e.basedOn = {}
    BY <2>1 DEF TopicContract
  <2>3. second = <<e>>
    BY <1>3, <2>1
  <2>4. IsLog(second) /\ DOMAIN second = {1} /\ second[1] = e
    BY <2>3, SingleIsLog
  <2> QED
    BY <2>2, <2>4 DEF RightInputs, Right, Refers, Grounded
<1>6. IsLog(ledger) /\ LedgerRight(ledger)
  BY DEF RunInv
<1>7. Grows(ledger, ledger \o first) /\ LedgerRight(ledger \o first) /\ IsLog(ledger \o first)
  BY <1>4, <1>6, ConcatGrows, RightConcat DEF Grows
<1>8. PICK m : m = ledger \o first
  OBVIOUS
<1>9. Grows(m, m \o second) /\ LedgerRight(m \o second)
  BY <1>5, <1>7, <1>8, ConcatGrows, RightConcat
<1>10. Grows(ledger, ledger') /\ LedgerRight(ledger')
  <2>1. CASE status = "revealed"
    <3>1. ledger' = m \o second
      BY <1>1, <1>2, <1>3, <1>8, <2>1
    <3> QED
      BY <1>7, <1>8, <1>9, <3>1, GrowsFurther
  <2>2. CASE status # "revealed"
    BY <1>1, <1>6, <2>2 DEF Grows
  <2> QED
    BY <2>1, <2>2
<1> QED
  BY <1>1, <1>10, LedgerStep DEF DivergenceStates

LEMMA SingleExtraction ==
  ASSUME NEW l, NEW a, NEW draft \in Extracted \cup Repaired, NEW sources \in SUBSET DOMAIN l,
         NEW inputs, inputs = <<ExtractionInput(l, a, NoKey, draft, sources)>>
  PROVE  /\ IsLog(inputs) /\ RightInputs(l, inputs)
         /\ \A i \in DOMAIN inputs : inputs[i].type = "extraction_proposed"
<1>1. PICK e : e = ExtractionInput(l, a, NoKey, draft, sources)
  OBVIOUS
<1>2. e.objects = draft /\ e.type = "extraction_proposed" /\ e.basedOn = sources
  BY <1>1 DEF ExtractionInput
<1>3. IsFiniteSet(draft) /\ draft \subseteq UNION Drafts
  BY RunDraftsAssumption
<1>4. Right(l, Len(l) + 1, e)
  BY <1>2, <1>3 DEF Right, Refers, Grounded
<1>5. IsLog(inputs) /\ DOMAIN inputs = {1} /\ inputs[1] = e
  BY <1>1, SingleIsLog
<1> QED
  BY <1>2, <1>4, <1>5 DEF RightInputs

LEMMA EmptyInputs ==
  ASSUME NEW l
  PROVE  /\ IsLog(<<>>) /\ RightInputs(l, <<>>)
         /\ \A i \in DOMAIN (<<>>) : (<<>>)[i].type = "extraction_proposed"
BY EmptyIsLog DEF RightInputs

\* What a generator of extractions or repairs drafted, if it did.
LEMMA DraftOrNone ==
  ASSUME NEW l, NEW a, NEW draft \in Extracted \cup Repaired \cup {{}},
         NEW sources \in SUBSET DOMAIN l, NEW inputs,
         inputs = IF draft = {} THEN <<>> ELSE <<ExtractionInput(l, a, NoKey, draft, sources)>>
  PROVE  /\ IsLog(inputs) /\ RightInputs(l, inputs)
         /\ \A i \in DOMAIN inputs : inputs[i].type = "extraction_proposed"
<1>1. CASE draft = {}
  BY <1>1, EmptyInputs
<1>2. CASE draft # {}
  <2>1. draft \in Extracted \cup Repaired /\ inputs = <<ExtractionInput(l, a, NoKey, draft, sources)>>
    BY <1>2
  <2> QED
    BY <2>1, SingleExtraction
<1> QED
  BY <1>1, <1>2

LEMMA ExtractionStep ==
  ASSUME RunInv, NEW id, RunExtraction(id)
  PROVE  RunInv'
<1>1. PICK status \in Outcomes, g \in Generators, draft \in Extracted \cup {{}} :
        EndStage("extraction", id, Divergence, status,
            IF draft = {} THEN <<>>
            ELSE <<ExtractionInput(ledger, g, NoKey, draft, Contributions)>>)
  BY DEF RunExtraction
<1>2. PICK inputs : inputs = IF draft = {} THEN <<>>
                             ELSE <<ExtractionInput(ledger, g, NoKey, draft, Contributions)>>
  OBVIOUS
<1>3. Contributions \in SUBSET DOMAIN ledger
  BY DEF Contributions, OfType
<1>4. /\ IsLog(inputs) /\ RightInputs(ledger, inputs)
      /\ \A i \in DOMAIN inputs : inputs[i].type = "extraction_proposed"
  BY <1>2, <1>3, DraftOrNone
<1>5. EndStage("extraction", id, Divergence, status, inputs)
  BY <1>1, <1>2
<1> QED
  BY <1>4, <1>5, EndStageStep DEF Stages

LEMMA RepairStep ==
  ASSUME RunInv, NEW id, NEW targets, RunRepair(id, targets)
  PROVE  RunInv'
<1> DEFINE Sources == UNION {Grounds(ledger, CandidateNamed(ledger, n)) : n \in targets}
<1>1. PICK status \in Outcomes, g \in Generators, draft \in Repaired \cup {{}} :
        EndStage("repair", id, targets, status,
          IF draft = {} THEN <<>>
          ELSE <<ExtractionInput(ledger, g, NoKey, draft, Sources)>>)
  BY DEF RunRepair
<1> HIDE DEF Sources
<1>2. PICK inputs : inputs = IF draft = {} THEN <<>>
                             ELSE <<ExtractionInput(ledger, g, NoKey, draft, Sources)>>
  OBVIOUS
<1>5. IsLog(ledger) /\ LedgerRight(ledger) /\ \A i \in DOMAIN ledger : ledger[i].basedOn \subseteq DOMAIN ledger
  BY DEF RunInv, LedgerRight, Right, Refers
<1>6. Sources \in SUBSET DOMAIN ledger
  <2>1. targets \subseteq Names(Frontier(ledger))
    BY DEF RunRepair, RepairContext
  <2>2. \A n \in targets : CandidateNamed(ledger, n) \in AcceptedObjects(ledger, "candidate")
    BY <1>5, <2>1, CandidateFound, FrontierObject
  <2>3. \A n \in targets : Grounds(ledger, CandidateNamed(ledger, n)) \subseteq DOMAIN ledger
    BY <1>5, <2>2, GroundsInLedger
  <2> QED
    BY <2>3 DEF Sources
<1>3. IsLog(inputs) /\ RightInputs(ledger, inputs)
  BY <1>2, <1>6, DraftOrNone
<1>4. EndStage("repair", id, targets, status, inputs)
  BY <1>1, <1>2
<1> QED
  BY <1>3, <1>4, EndStageStep DEF Stages

LEMMA EvidenceStep ==
  ASSUME RunInv, NEW id, NEW targets, RunEvidence(id, targets)
  PROVE  RunInv'
<1>1. targets \subseteq Names(AcceptedObjects(ledger, "need"))
  BY DEF RunEvidence, EvidenceContext
<1>2. PICK status \in Outcomes, g \in Generators, needs \in SUBSET targets :
        EndStage("evidence", id, targets, status,
          [i \in 1..Cardinality(needs) |-> EvidenceInput(ledger, g, NoKey, SetToSeq(needs)[i])])
  BY DEF RunEvidence
<1>3. IsFiniteSet(needs)
  <2>1. IsFiniteSet(Names(AcceptedObjects(ledger, "need")))
    BY AcceptedFinite, NamesFinite DEF RunInv
  <2>2. needs \in SUBSET Names(AcceptedObjects(ledger, "need"))
    BY <1>1, <1>2
  <2> QED
    BY <2>1, <2>2, FS_Subset
<1>4. PICK n : n = Cardinality(needs)
  OBVIOUS
<1>5. PICK inputs : inputs = [i \in 1..n |-> EvidenceInput(ledger, g, NoKey, SetToSeq(needs)[i])]
  OBVIOUS
<1>6. n \in Nat /\ \A i \in 1..n : SetToSeq(needs)[i] \in needs
  BY <1>3, <1>4, Enumerated
<1>7. ASSUME NEW i \in 1..n
      PROVE  inputs[i].need \in targets /\ Right(ledger, Len(ledger) + 1, inputs[i])
  <2>1. PICK name : name = SetToSeq(needs)[i]
    OBVIOUS
  <2>2. inputs[i] = EvidenceInput(ledger, g, NoKey, name) /\ name \in needs
    BY <1>5, <1>6, <2>1
  <2>3. name \in Names(AcceptedObjects(ledger, "need"))
    BY <1>1, <1>2, <2>2
  <2>4. IsInput(ledger, inputs[i])
    BY <2>2, <2>3 DEF IsInput, EvidenceCalled
  <2> QED
    BY <1>2, <2>2, <2>4, InputRight DEF RunInv, EvidenceInput
<1>8. IsLog(inputs) /\ DOMAIN inputs = 1..n
  BY <1>5, <1>6, FunctionIsLog
<1>9. /\ IsLog(inputs) /\ RightInputs(ledger, inputs)
      /\ \A i \in DOMAIN inputs : inputs[i].need \in targets
  BY <1>7, <1>8 DEF RightInputs
<1>10. EndStage("evidence", id, targets, status, inputs)
  BY <1>2, <1>4, <1>5
<1> QED
  BY <1>9, <1>10, EndStageStep DEF Stages

LEMMA ResponsesTo ==
  ASSUME IsLog(ledger), LedgerRight(ledger),
         NEW type \in {"proposal_challenged", "proposal_accepted"}, NEW a,
         NEW targets \in SUBSET OfType(ledger, "extraction_proposed"), IsFiniteSet(targets),
         NEW r, r = Responses(type, a, targets)
  PROVE  /\ IsLog(r) /\ RightInputs(ledger, r)
         /\ \A i \in DOMAIN r : r[i].target \in targets
<1>1. PICK n : n = Cardinality(targets)
  OBVIOUS
<1>2. r = [i \in 1..n |-> ResponseInput(ledger, type, a, NoKey, SetToSeq(targets)[i])]
  BY <1>1 DEF Responses
<1>3. n \in Nat /\ \A i \in 1..n : SetToSeq(targets)[i] \in targets
  BY <1>1, Enumerated
<1>4. ASSUME NEW i \in 1..n
      PROVE  r[i].target \in targets /\ Right(ledger, Len(ledger) + 1, r[i])
  <2>1. PICK t : t = SetToSeq(targets)[i]
    OBVIOUS
  <2>2. r[i] = ResponseInput(ledger, type, a, NoKey, t) /\ t \in targets
    BY <1>2, <1>3, <2>1
  <2>3. IsInput(ledger, r[i])
    BY <2>2 DEF IsInput, ProposalResponded
  <2> QED
    BY <2>2, <2>3, InputRight DEF ResponseInput
<1>5. IsLog(r) /\ DOMAIN r = 1..n
  BY <1>2, <1>3, FunctionIsLog
<1> QED
  BY <1>4, <1>5 DEF RightInputs

LEMMA LatestRound ==
  ASSUME RunInv, NEW stage \in Stages, HasRound(stage)
  PROVE  \E j \in DOMAIN rounds[stage] : Latest(stage) = rounds[stage][j]
<1>1. IsLog(rounds[stage]) /\ rounds[stage] # <<>>
  BY DEF RunInv, RoundsAreLogs, HasRound
<1>2. PICK x : x = rounds[stage]
  OBVIOUS
<1>3. Len(x) # 0
  BY <1>1, <1>2 DEF IsLog
<1>4. Len(x) \in DOMAIN x
  BY <1>1, <1>2, <1>3, LogOverDomain
<1> QED
  BY <1>2, <1>4 DEF Latest, Last

LEMMA ReviewStep ==
  ASSUME RunInv, NEW id, NEW policy, RunReview(id, policy)
  PROVE  RunInv'
<1>1. HasRound("extraction")
  BY DEF RunReview
<1>2. PICK j \in DOMAIN rounds["extraction"] : Latest("extraction") = rounds["extraction"][j]
  BY <1>1, LatestRound DEF Stages
<1>3. PICK events : events = Latest("extraction").events
  OBVIOUS
<1>4. events \subseteq OfType(ledger, "extraction_proposed")
  BY <1>2, <1>3 DEF RunInv, RoundsOK, RoundOK, Stages
<1>5. PICK status \in Outcomes, g \in Generators, a \in Authors, disputed \in SUBSET events,
           accepted \in SUBSET events :
        EndStage("review", id, Latest("extraction").id, status,
                 Responses("proposal_challenged", g, disputed)
                   \o Responses("proposal_accepted", a, accepted))
  BY <1>3 DEF RunReview
<1>7. /\ disputed \in SUBSET OfType(ledger, "extraction_proposed")
      /\ accepted \in SUBSET OfType(ledger, "extraction_proposed")
  BY <1>4, <1>5
<1>8. IsFiniteSet(disputed) /\ IsFiniteSet(accepted)
  BY <1>7, PositionsFinite DEF RunInv, OfType
<1>9. PICK first : first = Responses("proposal_challenged", g, disputed)
  OBVIOUS
<1>10. PICK second : second = Responses("proposal_accepted", a, accepted)
  OBVIOUS
<1>11. /\ IsLog(first) /\ RightInputs(ledger, first)
       /\ \A i \in DOMAIN first : first[i].target \in events
       /\ IsLog(second) /\ RightInputs(ledger, second)
       /\ \A i \in DOMAIN second : second[i].target \in events
  BY <1>5, <1>7, <1>8, <1>9, <1>10, ResponsesTo DEF RunInv
<1>12. PICK inputs : inputs = first \o second
  OBVIOUS
<1>13. /\ IsLog(first \o second)
       /\ \A i \in DOMAIN (first \o second) :
            \/ i \in DOMAIN first /\ (first \o second)[i] = first[i]
            \/ \E k \in DOMAIN second : (first \o second)[i] = second[k]
  BY <1>11, ConcatGrows DEF Grows
<1>14. /\ IsLog(inputs) /\ RightInputs(ledger, inputs)
       /\ \A i \in DOMAIN inputs : inputs[i].target \in events
  BY <1>11, <1>12, <1>13 DEF RightInputs
<1>15. EndStage("review", id, Latest("extraction").id, status, inputs)
  BY <1>5, <1>9, <1>10, <1>12
<1> QED
  BY <1>2, <1>3, <1>14, <1>15, EndStageStep DEF Stages

\* One event, another, both or none.
LEMMA UpToTwo ==
  ASSUME NEW d, NEW b, NEW first, NEW second, NEW inputs, inputs = first \o second,
         first = <<>> \/ first = <<d>>, second = <<>> \/ second = <<b>>
  PROVE  /\ IsLog(first) /\ IsLog(second) /\ IsLog(inputs)
         /\ first # <<>> => 1 \in DOMAIN inputs /\ inputs[1] = d
         /\ \A k \in DOMAIN inputs :
              /\ k \in Nat /\ 1 <= k
              /\ \/ first # <<>> /\ k = 1 /\ inputs[k] = d
                 \/ second # <<>> /\ inputs[k] = b /\ (first # <<>> => k = 2)
<1>3. /\ IsLog(first)
      /\ first # <<>> => Len(first) = 1 /\ DOMAIN first = {1} /\ first[1] = d
      /\ first = <<>> => Len(first) = 0 /\ DOMAIN first = {}
  BY SingleIsLog, EmptyIsLog
<1>4. /\ IsLog(second)
      /\ second # <<>> => Len(second) = 1 /\ DOMAIN second = {1} /\ second[1] = b
      /\ second = <<>> => Len(second) = 0 /\ DOMAIN second = {}
  BY SingleIsLog, EmptyIsLog
<1>5. /\ Grows(first, first \o second)
      /\ DOMAIN (first \o second) =
           DOMAIN first \cup ((Len(first) + 1)..(Len(first) + Len(second)))
  BY <1>3, <1>4, ConcatGrows
<1>6. \A j \in (Len(first) + 1)..(Len(first) + Len(second)) :
        \E i \in DOMAIN second : j = Len(first) + i /\ (first \o second)[j] = second[i]
  BY <1>3, <1>4, ConcatGrows
<1>8. /\ IsLog(inputs) /\ DOMAIN first \subseteq DOMAIN inputs
      /\ \A k \in DOMAIN first : inputs[k] = first[k]
      /\ \A k \in DOMAIN inputs :
           \/ k \in DOMAIN first
           \/ \E i \in DOMAIN second : k = Len(first) + i /\ inputs[k] = second[i]
  BY <1>5, <1>6 DEF Grows
<1>9. CASE first # <<>>
  <2>1. 1 \in DOMAIN inputs /\ inputs[1] = d /\ Len(first) = 1 /\ DOMAIN first = {1}
    BY <1>3, <1>8, <1>9
  <2>2. \A k \in DOMAIN inputs : k = 1 \/ (second # <<>> /\ k = 2 /\ inputs[k] = b)
    BY <1>4, <1>8, <2>1
  <2> QED
    BY <1>3, <1>4, <1>8, <1>9, <2>1, <2>2
<1>10. CASE first = <<>>
  BY <1>3, <1>4, <1>8, <1>10
<1> QED
  BY <1>9, <1>10

LEMMA AppendedInTurn ==
  ASSUME NEW l, IsLog(l), NEW m, IsLog(m), NEW n, IsLog(n)
  PROVE  (l \o m) \o n = l \o (m \o n)
<1> DEFINE S == {l[i] : i \in DOMAIN l} \cup {m[i] : i \in DOMAIN m} \cup {n[i] : i \in DOMAIN n}
<1>1. ASSUME NEW x \in {l, m, n} PROVE x \in Seq(S)
  <2>1. /\ x = [i \in 1..Len(x) |-> x[i]] /\ Len(x) \in Nat
        /\ DOMAIN x = 1..Len(x) /\ \A i \in DOMAIN x : x[i] \in S
    BY DEF IsLog
  <2> HIDE DEF S
  <2>2. x \in [1..Len(x) -> S]
    BY <2>1
  <2> QED
    BY <2>1, <2>2, SeqDef
<1> HIDE DEF S
<1> QED
  BY <1>1, ConcatAssociative

\* What a finalization finds under its id.
LEMMA FinalizationBegun ==
  ASSUME RunInv, NEW id, NEW source, CanBegin("finalization", id, source),
         source.candidate \subseteq FinalProposals(ledger), AtMostOne(source.candidate),
         NEW begun, begun = Begun("finalization", id, source)
  PROVE  /\ IsRound(begun) /\ begun.id = id /\ begun.source = source
         /\ begun.events \subseteq DOMAIN ledger
         /\ begun.final \subseteq FinalProposals(ledger) /\ AtMostOne(begun.final)
         /\ AtMostOne(source.candidate \cup begun.final)
         /\ source.candidate \in {{}, source.candidate \cup begun.final}
         /\ \A e \in begun.events : /\ ledger[e].type = "final_audit_recorded"
                                    /\ {ledger[e].target} = source.candidate \cup begun.final
                                    /\ ledger[e].target < e
         /\ \A i \in Recorded("finalization", id) :
              rounds["finalization"][i].events \subseteq begun.events
<1> DEFINE stage == "finalization"
<1>0. stage \in Stages
  BY DEF Stages
<1>1. /\ IsRound(begun) /\ begun.id = id /\ begun.source = source
      /\ \/ Recorded(stage, id) = {} /\ begun.events = {} /\ begun.final = {}
         \/ \E i \in Recorded(stage, id) :
              begun.events = rounds[stage][i].events /\ begun.final = rounds[stage][i].final
  BY <1>0, BegunRound
<1>2. CASE Recorded(stage, id) = {}
  <2>1. begun.events = {} /\ begun.final = {}
    BY <1>1, <1>2
  <2> QED
    BY <1>1, <1>2, <2>1 DEF AtMostOne
<1>3. CASE Recorded(stage, id) # {}
  <2>1. PICK i \in Recorded(stage, id) :
          begun.events = rounds[stage][i].events /\ begun.final = rounds[stage][i].final
    BY <1>1, <1>3
  <2>2. PICK old : old = rounds[stage][i]
    OBVIOUS
  <2>3. RoundOK(ledger, rounds["extraction"], stage, old)
    BY <1>0, <2>1, <2>2 DEF RunInv, RoundsOK, Recorded
  <2>4. old.source.candidate = source.candidate
    BY <2>1, <2>2 DEF CanBegin, SameSource
  <2>5. /\ begun.events = old.events /\ begun.final = old.final
        /\ Finalizes(ledger, old) /\ old.events \subseteq DOMAIN ledger
    BY <2>1, <2>2, <2>3 DEF RoundOK
  <2>6. source.candidate \cup begun.final = begun.final
    BY <2>4, <2>5 DEF Finalizes
  <2>7. \A j \in Recorded(stage, id) : j = i
    BY <1>0, <2>1 DEF RunInv, OneRoundPerId, Recorded
  <2> QED
    BY <1>1, <2>2, <2>4, <2>5, <2>6, <2>7 DEF Finalizes
<1> QED
  BY <1>2, <1>3

LEMMA FinalizationStep ==
  ASSUME RunInv, NEW id, NEW candidate, candidate \subseteq FinalProposals(ledger),
         AtMostOne(candidate), RunFinalization(id, candidate)
  PROVE  RunInv'
<1>0. PICK status \in Outcomes, g \in Generators, names \in SUBSET Names(Frontier(ledger)),
           audited \in BOOLEAN :
        LET source    == FinalizationOf(candidate)
            round     == Begun("finalization", id, source)
            generated == candidate \cup round.final = {} /\ names # {}
            final     == IF generated THEN {Len(ledger) + 1} ELSE candidate \cup round.final
            drafts    == IF generated THEN <<FinalInput(ledger, g, NoKey, names)>> ELSE <<>>
            audits    == IF audited /\ final # {} /\ Written(round, g) = {}
                         THEN <<ResponseInput(ledger, "final_audit_recorded", g, NoKey,
                                              CHOOSE f \in final : TRUE)>>
                         ELSE <<>>
        IN  /\ CanBegin("finalization", id, source)
            /\ status = "completed" => final # {}
            /\ names # {} => generated
            /\ audited => audits # <<>>
            /\ ledger' = ledger \o drafts \o audits
            /\ Upsert("finalization",
                 [round EXCEPT !.status = status, !.final = final,
                               !.events = @ \cup (NextEvents(drafts \o audits) \ final)])
            /\ UNCHANGED divergence
  BY DEF RunFinalization
<1>1. PICK source : source = FinalizationOf(candidate)
  OBVIOUS
<1>2. PICK begun : begun = Begun("finalization", id, source)
  OBVIOUS
<1>3. LET generated == candidate \cup begun.final = {} /\ names # {}
          final     == IF generated THEN {Len(ledger) + 1} ELSE candidate \cup begun.final
          drafts    == IF generated THEN <<FinalInput(ledger, g, NoKey, names)>> ELSE <<>>
          audits    == IF audited /\ final # {} /\ Written(begun, g) = {}
                       THEN <<ResponseInput(ledger, "final_audit_recorded", g, NoKey,
                                            CHOOSE f \in final : TRUE)>>
                       ELSE <<>>
      IN  /\ CanBegin("finalization", id, source)
          /\ ledger' = ledger \o drafts \o audits
          /\ Upsert("finalization",
               [begun EXCEPT !.status = status, !.final = final,
                             !.events = @ \cup (NextEvents(drafts \o audits) \ final)])
          /\ UNCHANGED divergence
  BY <1>0, <1>1, <1>2
<1>4. PICK drafts : drafts = IF candidate \cup begun.final = {} /\ names # {}
                              THEN <<FinalInput(ledger, g, NoKey, names)>> ELSE <<>>
  OBVIOUS
<1>5. PICK final : final = IF candidate \cup begun.final = {} /\ names # {}
                           THEN {Len(ledger) + 1} ELSE candidate \cup begun.final
  OBVIOUS
<1>6. PICK audits : audits = IF audited /\ final # {} /\ Written(begun, g) = {}
                             THEN <<ResponseInput(ledger, "final_audit_recorded", g, NoKey,
                                                  CHOOSE f \in final : TRUE)>>
                             ELSE <<>>
  OBVIOUS
<1>7. PICK events : events = begun.events \cup (NextEvents(drafts \o audits) \ final)
  OBVIOUS
<1>8. /\ CanBegin("finalization", id, source) /\ ledger' = (ledger \o drafts) \o audits
      /\ Upsert("finalization",
           [begun EXCEPT !.status = status, !.final = final, !.events = events])
      /\ UNCHANGED divergence
  BY <1>3, <1>4, <1>5, <1>6, <1>7
<1>9. PICK f : f = CHOOSE x \in final : TRUE
  OBVIOUS
<1>10. PICK draft : draft = FinalInput(ledger, g, NoKey, names)
  OBVIOUS
<1>11. PICK audit : audit = ResponseInput(ledger, "final_audit_recorded", g, NoKey, f)
  OBVIOUS
<1>12. PICK inputs : inputs = drafts \o audits
  OBVIOUS
<1>13. /\ drafts = <<>> \/ drafts = <<draft>>
       /\ audits = <<>> \/ audits = <<audit>>
       /\ drafts # <<>> =>
            candidate \cup begun.final = {} /\ final = {Len(ledger) + 1} /\ names # {}
       /\ drafts = <<>> => final = candidate \cup begun.final
       /\ audits # <<>> => final # {}
  <2>1. <<draft>> # <<>> /\ <<FinalInput(ledger, g, NoKey, names)>> = <<draft>>
    BY <1>10, SingleIsLog, EmptyIsLog
  <2>2. <<ResponseInput(ledger, "final_audit_recorded", g, NoKey, CHOOSE x \in final : TRUE)>>
          = <<audit>>
    BY <1>9, <1>11
  <2> QED
    BY <1>4, <1>5, <1>6, <2>1, <2>2
<1>14. events = begun.events \cup (NextEvents(inputs) \ final)
  BY <1>7, <1>12
<1>15. source.candidate = candidate
  BY <1>1 DEF FinalizationOf
<1>16. /\ IsRound(begun) /\ begun.id = id /\ begun.source = source
       /\ begun.events \subseteq DOMAIN ledger
       /\ begun.final \subseteq FinalProposals(ledger) /\ AtMostOne(begun.final)
       /\ AtMostOne(candidate \cup begun.final)
       /\ candidate \in {{}, candidate \cup begun.final}
       /\ \A e \in begun.events : /\ ledger[e].type = "final_audit_recorded"
                                  /\ {ledger[e].target} = candidate \cup begun.final
                                  /\ ledger[e].target < e
       /\ \A i \in Recorded("finalization", id) :
            rounds["finalization"][i].events \subseteq begun.events
  <2>1. CanBegin("finalization", id, source)
    BY <1>8
  <2>2. source.candidate \subseteq FinalProposals(ledger) /\ AtMostOne(source.candidate)
    BY <1>15
  <2> QED
    BY <1>2, <1>15, <2>1, <2>2, FinalizationBegun
<1>17. IsLog(ledger) /\ LedgerRight(ledger) /\ DOMAIN ledger = 1..Len(ledger) /\ Len(ledger) \in Nat
  BY LogOverDomain DEF RunInv
<1>18. /\ IsLog(drafts) /\ IsLog(audits) /\ IsLog(inputs)
       /\ drafts # <<>> => 1 \in DOMAIN inputs /\ inputs[1] = draft
       /\ \A k \in DOMAIN inputs :
            /\ k \in Nat /\ 1 <= k
            /\ \/ drafts # <<>> /\ k = 1 /\ inputs[k] = draft
               \/ audits # <<>> /\ inputs[k] = audit /\ (drafts # <<>> => k = 2)
  <2>1. (drafts = <<>> \/ drafts = <<draft>>) /\ (audits = <<>> \/ audits = <<audit>>)
    BY <1>13
  <2>2. IsLog(drafts) /\ IsLog(audits) /\ IsLog(inputs)
    BY <1>12, <2>1, UpToTwo
  <2>3. drafts # <<>> => 1 \in DOMAIN inputs /\ inputs[1] = draft
    BY <1>12, <2>1, UpToTwo
  <2>4. ASSUME NEW k \in DOMAIN inputs
        PROVE  /\ k \in Nat /\ 1 <= k
               /\ \/ drafts # <<>> /\ k = 1 /\ inputs[k] = draft
                  \/ audits # <<>> /\ inputs[k] = audit /\ (drafts # <<>> => k = 2)
    BY <1>12, <2>1, UpToTwo
  <2> QED
    BY <2>2, <2>3, <2>4
<1>19. ledger' = ledger \o inputs
  <2>1. (ledger \o drafts) \o audits = ledger \o (drafts \o audits)
    BY <1>17, <1>18, AppendedInTurn
  <2> QED
    BY <1>8, <1>12, <2>1
<1>20. draft.type = "final_candidate_proposed" /\ audit.type = "final_audit_recorded"
       /\ audit.target = f
  BY <1>10, <1>11 DEF FinalInput, ResponseInput
<1>21. LedgerRight(ledger')
  <2>1. RightInputs(ledger, drafts)
    <3>1. CASE drafts = <<>>
      BY <3>1, EmptyInputs
    <3>2. CASE drafts # <<>>
      <4>1. IsInput(ledger, draft)
        BY <1>10, <1>13, <3>2 DEF IsInput, FinalCalled
      <4>2. Right(ledger, Len(ledger) + 1, draft)
        BY <1>17, <4>1, InputRight
      <4>3. drafts = <<draft>>
        BY <1>13, <3>2
      <4> QED
        BY <4>2, <4>3, SingleIsLog DEF RightInputs
    <3> QED
      BY <3>1, <3>2
  <2>2. PICK m : m = ledger \o drafts
    OBVIOUS
  <2>3. LedgerRight(m) /\ Grows(ledger, m)
        /\ DOMAIN m = DOMAIN ledger \cup ((Len(ledger) + 1)..(Len(ledger) + Len(drafts)))
    BY <1>17, <1>18, <2>1, <2>2, RightConcat, ConcatGrows
  <2>4. RightInputs(m, audits)
    <3>1. CASE audits = <<>>
      BY <3>1, EmptyInputs
    <3>2. CASE audits # <<>>
      <4>1. f \in final /\ audits = <<audit>>
        BY <1>9, <1>13, <3>2
      <4>2. f \in DOMAIN m
        <5>1. CASE drafts = <<>>
          BY <1>13, <1>15, <1>16, <2>3, <4>1, <5>1 DEF FinalProposals, OfType
        <5>2. CASE drafts # <<>>
          <6>1. Len(drafts) = 1
            BY <1>13, <5>2, SingleIsLog
          <6> QED
            BY <1>13, <1>17, <2>3, <4>1, <5>2, <6>1
        <5> QED
          BY <5>1, <5>2
      <4>3. Right(m, Len(m) + 1, audit)
        BY <1>11, <4>2 DEF ResponseInput, Right, Refers, Grounded
      <4> QED
        BY <4>1, <4>3, SingleIsLog DEF RightInputs
    <3> QED
      BY <3>1, <3>2
  <2>5. ledger' = m \o audits /\ IsLog(m)
    BY <1>8, <2>2, <2>3 DEF Grows
  <2> QED
    BY <1>18, <2>3, <2>4, <2>5, RightConcat
<1>22. /\ Grows(ledger, ledger')
       /\ DOMAIN ledger' = DOMAIN ledger \cup NextEvents(inputs)
       /\ \A e \in NextEvents(inputs) :
            \E k \in DOMAIN inputs : e = Len(ledger) + k /\ ledger'[e] = inputs[k]
       /\ \A k \in DOMAIN inputs : ledger'[Len(ledger) + k] = inputs[k]
  <2>1. Grows(ledger, ledger \o inputs)
    BY <1>17, <1>18, ConcatGrows
  <2>2. DOMAIN (ledger \o inputs) = DOMAIN ledger \cup ((Len(ledger) + 1)..(Len(ledger) + Len(inputs)))
    BY <1>17, <1>18, ConcatGrows
  <2>3. \A k \in DOMAIN inputs : (ledger \o inputs)[Len(ledger) + k] = inputs[k]
    BY <1>17, <1>18, ConcatGrows
  <2>4. \A j \in (Len(ledger) + 1)..(Len(ledger) + Len(inputs)) :
          \E k \in DOMAIN inputs : j = Len(ledger) + k /\ (ledger \o inputs)[j] = inputs[k]
    BY <1>17, <1>18, ConcatTail
  <2> QED
    BY <1>19, <2>1, <2>2, <2>3, <2>4 DEF NextEvents
<1>23. /\ final \subseteq FinalProposals(ledger') /\ AtMostOne(final)
       /\ candidate \in {{}, final}
  <2>1. CASE drafts # <<>>
    <3>1. Len(ledger) + 1 \in FinalProposals(ledger')
      <4>1. ledger'[Len(ledger) + 1] = draft
        BY <1>18, <1>22, <2>1
      <4>2. Len(ledger) + 1 \in DOMAIN ledger'
        BY <1>17, <1>18, <1>22, <2>1, LogOverDomain DEF NextEvents
      <4> QED
        BY <1>20, <4>1, <4>2 DEF FinalProposals, OfType
    <3>2. final = {Len(ledger) + 1} /\ candidate = {}
      BY <1>13, <2>1
    <3> QED
      BY <3>1, <3>2 DEF AtMostOne
  <2>2. CASE drafts = <<>>
    <3>1. FinalProposals(ledger) \subseteq FinalProposals(ledger')
      BY <1>22 DEF FinalProposals, OfType, Grows
    <3> QED
      BY <1>13, <1>16, <2>2, <3>1
  <2> QED
    BY <2>1, <2>2
<1>24. ASSUME NEW e \in begun.events
       PROVE  /\ e \in DOMAIN ledger' /\ ledger'[e].type = "final_audit_recorded"
              /\ {ledger'[e].target} = final /\ ledger'[e].target < e
  <2>1. candidate \cup begun.final # {}
    BY <1>16
  <2>2. final = candidate \cup begun.final
    BY <1>13, <2>1
  <2>3. e \in DOMAIN ledger /\ ledger'[e] = ledger[e]
    BY <1>16, <1>22 DEF Grows
  <2> QED
    BY <1>16, <1>22, <2>2, <2>3
<1>25. ASSUME NEW e \in NextEvents(inputs) \ final
       PROVE  /\ e \in DOMAIN ledger' /\ ledger'[e].type = "final_audit_recorded"
              /\ {ledger'[e].target} = final /\ ledger'[e].target < e
  <2>1. PICK k \in DOMAIN inputs : e = Len(ledger) + k /\ ledger'[e] = inputs[k]
    BY <1>22
  <2>2. k \in Nat /\ 1 <= k /\ ~(drafts # <<>> /\ k = 1)
    BY <1>13, <1>18, <2>1
  <2>3. audits # <<>> /\ inputs[k] = audit /\ (drafts # <<>> => k = 2)
    BY <1>18, <2>2
  <2>4. f \in final /\ final = {f}
    BY <1>9, <1>13, <1>23, <2>3 DEF AtMostOne
  <2>5. f < e
    <3>1. CASE drafts # <<>>
      BY <1>13, <1>17, <2>1, <2>3, <2>4, <3>1
    <3>2. CASE drafts = <<>>
      <4>1. f \in FinalProposals(ledger)
        BY <1>13, <1>16, <2>4, <3>2
      <4>2. f \in 1..Len(ledger)
        BY <1>17, <4>1 DEF FinalProposals, OfType
      <4> QED
        BY <1>17, <2>1, <2>2, <4>2
    <3> QED
      BY <3>1, <3>2
  <2> QED
    BY <1>20, <1>22, <2>1, <2>3, <2>4, <2>5
<1>26. PICK round : round = [begun EXCEPT !.status = status, !.final = final, !.events = events]
  OBVIOUS
<1>27. /\ IsRound(round) /\ round.id = id /\ round.source = source
       /\ round.events = events /\ round.final = final
  <2>1. begun = [id |-> begun.id, source |-> begun.source, status |-> begun.status,
                 events |-> begun.events, final |-> begun.final]
    BY <1>16 DEF IsRound
  <2>2. round = [id |-> begun.id, source |-> begun.source, status |-> status,
                 events |-> events, final |-> final]
    BY <1>26, <2>1
  <2> QED
    BY <1>16, <2>2 DEF IsRound
<1>28. Finalizes(ledger', round)
  BY <1>14, <1>15, <1>23, <1>24, <1>25, <1>27 DEF Finalizes
<1>29. RoundOK(ledger', rounds["extraction"], "finalization", round)
  BY <1>14, <1>24, <1>25, <1>27, <1>28 DEF RoundOK
<1>30. \A i \in Recorded("finalization", round.id) :
         rounds["finalization"][i].events \subseteq round.events
  BY <1>14, <1>16, <1>27
<1> QED
  BY <1>8, <1>21, <1>22, <1>26, <1>29, <1>30, RoundStep DEF Stages

-----------------------------------------------------------------------------
(***************************************************************************)
(* The clients, and the whole run.                                         *)
(***************************************************************************)
\* A call of a client ends in one append.
LEMMA StoreStep ==
  ASSUME RunInv, NEW e, IsInput(ledger, e), Store(e), UNCHANGED <<divergence, rounds>>
  PROVE  RunInv'
<1>1. IsLog(ledger) /\ LedgerRight(ledger) /\ divergence' \in DivergenceStates
  BY DEF RunInv
<1>2. CASE UNCHANGED ledger
  BY <1>1, <1>2, LedgerStep DEF Grows
<1>3. CASE Extends(ledger, e, ledger')
  <2>1. Grows(ledger, ledger')
    BY <1>1, <1>3, ExtendsGrows
  <2>2. LedgerRight(ledger')
    <3>1. Right(ledger, Len(ledger) + 1, e)
      BY <1>1, InputRight
    <3>2. \A i \in DOMAIN ledger' : Right(ledger, i, ledger'[i])
      BY <1>1, <1>3, <3>1 DEF LedgerRight, Extends
    <3> QED
      BY <2>1, <3>2, RightLater DEF LedgerRight, Grows
  <2> QED
    BY <1>1, <2>1, <2>2, LedgerStep
<1> QED
  BY <1>1, <1>2, <1>3, StoreExtends

LEMMA ClientStep ==
  ASSUME RunInv, ClientCall, UNCHANGED <<divergence, rounds>>
  PROVE  RunInv'
<1>1. PICK a \in Authors :
        \/ \E t : AcceptProposal(a, NoKey, t)
        \/ \E gap : ProposeProcessProposal(a, NoKey, gap, 1)
        \/ \E p, status : DecideProcessProposal(a, NoKey, p, status)
  BY DEF ClientCall
<1>2. ASSUME NEW t, AcceptProposal(a, NoKey, t) PROVE RunInv'
  <2>1. IsInput(ledger, ResponseInput(ledger, "proposal_accepted", a, NoKey, t))
    BY <1>2 DEF AcceptProposal, IsInput, ProposalResponded
  <2> QED
    BY <1>2, <2>1, StoreStep DEF AcceptProposal
<1>3. ASSUME NEW gap, ProposeProcessProposal(a, NoKey, gap, 1) PROVE RunInv'
  <2>1. {1} \in SUBSET DOMAIN ledger
    BY <1>3 DEF ProposeProcessProposal
  <2>2. IsInput(ledger, ProcessInput(a, NoKey, gap, {1}))
    BY <2>1 DEF IsInput, ProcessCalled
  <2> QED
    BY <1>3, <2>2, StoreStep DEF ProposeProcessProposal
<1>4. ASSUME NEW p, NEW status, DecideProcessProposal(a, NoKey, p, status) PROVE RunInv'
  <2>1. IsInput(ledger, DecisionInput(ledger, a, NoKey, p, status))
    BY <1>4 DEF DecideProcessProposal, IsInput, ProcessCalled
  <2> QED
    BY <1>4, <2>1, StoreStep DEF DecideProcessProposal
<1> QED
  BY <1>1, <1>2, <1>3, <1>4

LEMMA StartStageStep ==
  ASSUME RunInv, NEW stage, NEW id, StartStage(stage, id)
  PROVE  RunInv'
<1>1. RunFinalization(id, {}) => RunInv'
  BY FinalizationStep DEF AtMostOne
<1> QED
  BY <1>1, DivergenceStep, ExtractionStep, ReviewStep, RepairStep, EvidenceStep DEF StartStage

LEMMA ExecuteStep ==
  ASSUME RunInv, NEW p, ExecuteAccepted(p)
  PROVE  RunInv'
<1> DEFINE targets == ledger[p].process.targets
           primitive == ledger[p].process.primitive
<1>1. primitive \in {"final_audit", "omission_audit"} =>
        Cardinality(targets) = 1 /\ targets \subseteq FinalProposals(ledger)
  BY DEF ExecuteAccepted, TargetsValid
<1>2. ASSUME primitive \in {"final_audit", "omission_audit"}, RunFinalization(p, targets)
      PROVE  RunInv'
  <2> HIDE DEF targets, primitive
  <2>1. targets \in SUBSET DOMAIN ledger
    BY <1>1, <1>2 DEF FinalProposals, OfType
  <2>2. IsFiniteSet(targets)
    BY <2>1, PositionsFinite DEF RunInv
  <2>3. AtMostOne(targets)
    BY <1>1, <1>2, <2>2, FS_Singleton DEF AtMostOne
  <2> QED
    BY <1>1, <1>2, <2>3, FinalizationStep
<1>3. RunFinalization(Initial, {}) => RunInv'
  BY FinalizationStep DEF AtMostOne
<1> QED
  BY <1>2, <1>3, DivergenceStep, ExtractionStep, ReviewStep, RepairStep, EvidenceStep
  DEF ExecuteAccepted

LEMMA RunBegins == RunInit => RunInv
<1> SUFFICES ASSUME RunInit PROVE RunInv
  OBVIOUS
<1>1. PICK s \in Starts : ledger = s.ledger /\ divergence = s.divergence /\ rounds = s.rounds
  BY DEF RunInit
<1>2. /\ s.divergence \in {"none", "failed", "waiting", "revealed"}
      /\ Len(s.ledger) \in Nat /\ s.ledger = [i \in 1..Len(s.ledger) |-> s.ledger[i]]
  BY StartsAssumption
<1>8. ASSUME NEW i \in DOMAIN s.ledger
      PROVE  Right(s.ledger, i, s.ledger[i])
  <2>1. PICK e : e = s.ledger[i]
    OBVIOUS
  <2>2. /\ e.type \in {"topic_contract_published", "sealed_contribution_submitted",
                       "sealed_batch_revealed", "extraction_proposed", "proposal_accepted"}
        /\ e.basedOn \subseteq DOMAIN s.ledger
        /\ e.type = "extraction_proposed" =>
             IsFiniteSet(e.objects) /\ e.objects \subseteq UNION Drafts
        /\ e.type = "proposal_accepted" =>
             e.target \in OfType(s.ledger, "extraction_proposed") /\ e.target < i
    BY <2>1, StartsAssumption
  <2>3. Right(s.ledger, i, e)
    BY <2>2 DEF Right, Refers, Grounded
  <2> QED
    BY <2>1, <2>3
<1>3. /\ s.rounds = [stage \in Stages |-> s.rounds[stage]]
      /\ \A stage \in Stages \ {"extraction"} : s.rounds[stage] = <<>>
      /\ \/ s.rounds["extraction"] = <<>>
         \/ \E id \in {Initial, Another}, events \in SUBSET OfType(s.ledger, "extraction_proposed") :
              /\ events # {}
              /\ s.rounds["extraction"] = <<[id |-> id, source |-> Divergence, status |-> "completed",
                                             events |-> events, final |-> {}]>>
  BY StartsAssumption
<1>4. divergence \in DivergenceStates /\ IsLog(ledger) /\ LedgerRight(ledger)
  BY <1>1, <1>2, <1>8 DEF DivergenceStates, IsLog, LedgerRight
<1>5. ASSUME NEW stage \in Stages
      PROVE  \/ rounds[stage] = <<>>
             \/ /\ stage = "extraction"
                /\ \E r : /\ rounds[stage] = <<r>>
                          /\ IsRound(r) /\ r.events \subseteq OfType(ledger, "extraction_proposed")
  <2>1. CASE stage # "extraction"
    BY <1>1, <1>3, <2>1
  <2>2. CASE s.rounds["extraction"] = <<>>
    BY <1>1, <1>3, <2>2
  <2>3. ASSUME NEW id \in {Initial, Another}, NEW events \in SUBSET OfType(s.ledger, "extraction_proposed"),
               s.rounds["extraction"] =
                 <<[id |-> id, source |-> Divergence, status |-> "completed",
                    events |-> events, final |-> {}]>>,
               stage = "extraction"
        PROVE  \E r : /\ rounds[stage] = <<r>>
                      /\ IsRound(r) /\ r.events \subseteq OfType(ledger, "extraction_proposed")
    <3>1. PICK r : r = [id |-> id, source |-> Divergence, status |-> "completed",
                        events |-> events, final |-> {}]
      OBVIOUS
    <3>2. IsRound(r) /\ r.events = events
      BY <3>1 DEF IsRound
    <3>3. rounds[stage] = <<r>>
      BY <1>1, <2>3, <3>1
    <3>4. r.events \subseteq OfType(ledger, "extraction_proposed")
      BY <1>1, <3>2
    <3> QED
      BY <3>2, <3>3, <3>4
  <2> QED
    BY <1>3, <2>1, <2>2, <2>3
<1>6. RoundsAreLogs
  <2>1. ASSUME NEW stage \in Stages PROVE IsLog(rounds[stage])
    <3>1. rounds[stage] = <<>> \/ \E r : rounds[stage] = <<r>>
      BY <1>5
    <3> QED
      BY <3>1, EmptyIsLog, SingleIsLog
  <2>2. rounds = [stage \in Stages |-> rounds[stage]]
    BY <1>1, <1>3
  <2> QED
    BY <2>1, <2>2 DEF RoundsAreLogs
<1>7. ASSUME NEW stage \in Stages
      PROVE  /\ \A i, j \in DOMAIN rounds[stage] : i = j
             /\ \A i \in DOMAIN rounds[stage] :
                  RoundOK(ledger, rounds["extraction"], stage, rounds[stage][i])
  <2>1. CASE rounds[stage] = <<>>
    BY <2>1, EmptyIsLog
  <2>2. CASE stage = "extraction" /\ \E r : /\ rounds[stage] = <<r>>
                                            /\ IsRound(r) /\ r.events \subseteq OfType(ledger, "extraction_proposed")
    <3>1. PICK r : rounds[stage] = <<r>> /\ IsRound(r) /\ r.events \subseteq OfType(ledger, "extraction_proposed")
      BY <2>2
    <3>2. RoundOK(ledger, rounds["extraction"], stage, r)
      BY <2>2, <3>1 DEF RoundOK, OfType
    <3>3. DOMAIN rounds[stage] = {1} /\ rounds[stage][1] = r
      BY <3>1, SingleIsLog
    <3> QED
      BY <3>2, <3>3
  <2> QED
    BY <1>5, <2>1, <2>2
<1> QED
  BY <1>4, <1>6, <1>7 DEF RunInv, OneRoundPerId, RoundsOK

(***************************************************************************)
(* Ledger and record agree in every run, whatever its clients, its start   *)
(* requests and its stages do: also when a round that wrote already is     *)
(* executed again and further generators write in it.                      *)
(***************************************************************************)
THEOREM RunsAgree == RunSpec => []RunInv
<1>1. RunInv /\ [RunNext]_runVars => RunInv'
  <2> SUFFICES ASSUME RunInv, [RunNext]_runVars PROVE RunInv'
    OBVIOUS
  <2>1. CASE UNCHANGED runVars
    <3>1. UNCHANGED <<ledger, divergence, rounds>>
      BY <2>1 DEF runVars
    <3> QED
      BY <3>1 DEF RunInv, RoundsAreLogs, OneRoundPerId, RoundsOK, IsLog, LedgerRight
  <2>2. CASE ~start.run /\ Next /\ UNCHANGED <<start, divergence, rounds>>
    <3>1. PICK e : IsInput(ledger, e) /\ Store(e)
      BY <2>2, NextStores
    <3> QED
      BY <2>2, <3>1, StoreStep
  <2>3. CASE \E request \in start.requests : StartStage(request[1], request[2])
    BY <2>3, StartStageStep
  <2>4. CASE \E p \in OfType(ledger, "process_proposal_proposed") : ExecuteAccepted(p)
    BY <2>4, ExecuteStep
  <2>5. CASE ClientCall /\ UNCHANGED <<divergence, rounds>>
    BY <2>5, ClientStep
  <2> QED
    BY <2>1, <2>2, <2>3, <2>4, <2>5 DEF RunNext
<1> QED
  BY <1>1, RunBegins, PTL DEF RunSpec

\* However rounds are begun, executed again with more to write, and interleaved: all
\* that a round wrote, at first or later, is about the material that its record names.
THEOREM RoundsStayTrue == RunSpec => []RoundsKeepTheirMaterial
<1>1. RunInv => RoundsKeepTheirMaterial
  <2> SUFFICES ASSUME RunInv, NEW stage \in Stages, NEW i \in DOMAIN rounds[stage]
               PROVE  LET r == rounds[stage][i]
                      IN  /\ stage = "review" =>
                               \E j \in DOMAIN rounds["extraction"] :
                                 /\ rounds["extraction"][j].id = r.source
                                 /\ \A e \in r.events :
                                      ledger[e].target \in rounds["extraction"][j].events
                          /\ stage = "evidence" => {ledger[e].need : e \in r.events} \subseteq r.source
                          /\ stage = "finalization" =>
                               \A e \in r.events : {ledger[e].target} = r.final
    BY DEF RoundsKeepTheirMaterial
  <2>1. RoundOK(ledger, rounds["extraction"], stage, rounds[stage][i])
    BY DEF RunInv, RoundsOK
  <2> QED
    BY <2>1 DEF RoundOK, Reviews, Finalizes
<1> QED
  BY <1>1, RunsAgree, PTL

\* A final candidate of the record, and its round.
LEMMA RecordedFinal ==
  ASSUME RunInv, HasRound("finalization"), Latest("finalization").final # {},
         NEW f, f = CHOOSE x \in Latest("finalization").final : TRUE
  PROVE  /\ f \in FinalProposals(ledger)
         /\ \A e \in Latest("finalization").events :
              /\ e \in DOMAIN ledger /\ ledger[e].type = "final_audit_recorded"
              /\ ledger[e].target = f /\ f < e
<1>1. PICK j \in DOMAIN rounds["finalization"] :
        Latest("finalization") = rounds["finalization"][j]
  BY LatestRound DEF Stages
<1>2. PICK r : r = Latest("finalization")
  OBVIOUS
<1>3. Finalizes(ledger, r) /\ r.events \subseteq DOMAIN ledger
  BY <1>1, <1>2 DEF RunInv, RoundsOK, RoundOK, Stages
<1>4. f \in r.final
  BY <1>2
<1> QED
  BY <1>2, <1>3, <1>4 DEF Finalizes, AtMostOne

-----------------------------------------------------------------------------
(***************************************************************************)
(* How rounds come by their ids and their material: those of extraction    *)
(* and review have the default id or the one a request names; a            *)
(* finalization of such an id generates its candidate, and one that runs   *)
(* for a process proposal has a candidate from its beginning; a review     *)
(* that a finalization names is in the record.                             *)
(***************************************************************************)
ReviewIds == {rounds["review"][j].id : j \in DOMAIN rounds["review"]}

WellBegun(reviewIds, stage, r) ==
  /\ stage \in {"extraction", "review"} => r.id \in {Initial, Another}
  /\ stage = "extraction" => /\ r.source = Divergence
                             /\ r.status = "completed" => r.events # {}
  /\ stage = "finalization" => /\ r.status = "completed" => r.final # {}
                               /\ r.source.candidate = {} <=> r.id \in {Initial, Another}
                               /\ r.source = [review |-> r.source.review,
                                              candidate |-> r.source.candidate]
                               /\ r.source.review \subseteq reviewIds

RoundsWellBegun == \A stage \in Stages : \A i \in DOMAIN rounds[stage] :
                     WellBegun(ReviewIds, stage, rounds[stage][i])

RecordInv == RunInv /\ start \in Starts /\ RoundsWellBegun

\* A step that writes a well begun round.
LEMMA WellBegunStep ==
  ASSUME RunInv, RoundsWellBegun, NEW stage \in Stages, NEW round, Upsert(stage, round),
         WellBegun(ReviewIds, stage, round)
  PROVE  RoundsWellBegun'
<1>1. /\ \A other \in Stages \ {stage} : rounds'[other] = rounds[other]
      /\ DOMAIN rounds[stage] \subseteq DOMAIN rounds'[stage]
      /\ \A i \in DOMAIN rounds[stage] :
           rounds'[stage][i] = IF rounds[stage][i].id = round.id THEN round
                               ELSE rounds[stage][i]
      /\ \A i \in DOMAIN rounds'[stage] : i \in DOMAIN rounds[stage] \/ rounds'[stage][i] = round
  BY UpsertEffect DEF RunInv
<1>2. ReviewIds \subseteq ReviewIds'
  <2> SUFFICES ASSUME NEW j \in DOMAIN rounds["review"]
               PROVE  /\ j \in DOMAIN rounds'["review"]
                      /\ rounds'["review"][j].id = rounds["review"][j].id
    BY DEF ReviewIds
  <2> QED
    BY <1>1 DEF Stages
<1>3. ASSUME NEW s \in Stages, NEW i \in DOMAIN rounds'[s]
      PROVE  WellBegun(ReviewIds', s, rounds'[s][i])
  <2>1. PICK r : r = rounds'[s][i]
    OBVIOUS
  <2>2. WellBegun(ReviewIds, s, r)
    BY <1>1, <2>1 DEF RoundsWellBegun
  <2>3. WellBegun(ReviewIds', s, r)
    BY <1>2, <2>2 DEF WellBegun
  <2> QED
    BY <2>1, <2>3
<1> QED
  BY <1>3 DEF RoundsWellBegun

\* A stage writes in the round of its id and source, which keeps what it has.
LEMMA EndedRound ==
  ASSUME RunInv, NEW stage \in Stages, NEW id, NEW source, NEW status, NEW inputs,
         EndStage(stage, id, source, status, inputs)
  PROVE  \E round : /\ Upsert(stage, round)
                    /\ round.id = id /\ round.source = source /\ round.status = status
                    /\ round.events = Begun(stage, id, source).events \cup NextEvents(inputs)
<1>1. PICK begun : begun = Begun(stage, id, source)
  OBVIOUS
<1>2. IsRound(begun) /\ begun.id = id /\ begun.source = source
  BY <1>1, BegunRound
<1>3. PICK events : events = begun.events \cup NextEvents(inputs)
  OBVIOUS
<1>4. PICK round : round = [begun EXCEPT !.status = status, !.events = events]
  OBVIOUS
<1>5. Upsert(stage, round)
  BY <1>1, <1>3, <1>4 DEF EndStage
<1>6. round = [id |-> begun.id, source |-> begun.source, status |-> status,
               events |-> events, final |-> begun.final]
  <2>1. begun = [id |-> begun.id, source |-> begun.source, status |-> begun.status,
                 events |-> begun.events, final |-> begun.final]
    BY <1>2 DEF IsRound
  <2> QED
    BY <1>4, <2>1
<1> QED
  BY <1>1, <1>2, <1>3, <1>5, <1>6

LEMMA ExtractionWellBegun ==
  ASSUME RunInv, RoundsWellBegun, NEW id \in {Initial, Another}, RunExtraction(id)
  PROVE  RoundsWellBegun'
<1>1. PICK begun : begun = Begun("extraction", id, Divergence)
  OBVIOUS
<1>2. PICK status \in Outcomes, g \in Generators, draft \in Extracted \cup {{}} :
        /\ status = "completed" => draft # {} \/ begun.events # {}
        /\ EndStage("extraction", id, Divergence, status,
             IF draft = {} THEN <<>>
             ELSE <<ExtractionInput(ledger, g, NoKey, draft, Contributions)>>)
  BY <1>1 DEF RunExtraction
<1>3. PICK e : e = ExtractionInput(ledger, g, NoKey, draft, Contributions)
  OBVIOUS
<1>4. PICK inputs : inputs = IF draft = {} THEN <<>> ELSE <<e>>
  OBVIOUS
<1>5. EndStage("extraction", id, Divergence, status, inputs)
  BY <1>2, <1>3, <1>4
<1>6. PICK round : /\ Upsert("extraction", round)
                   /\ round.id = id /\ round.source = Divergence /\ round.status = status
                   /\ round.events = begun.events \cup NextEvents(inputs)
  BY <1>1, <1>5, EndedRound DEF Stages
<1>7. draft # {} => NextEvents(inputs) # {}
  <2>1. Len(<<e>>) = 1 /\ Len(ledger) \in Nat
    BY SingleIsLog DEF RunInv, IsLog
  <2>2. Len(ledger) + 1 \in (Len(ledger) + 1)..(Len(ledger) + 1)
    BY <2>1
  <2> QED
    BY <1>4, <2>1, <2>2 DEF NextEvents
<1>8. WellBegun(ReviewIds, "extraction", round)
  BY <1>2, <1>6, <1>7 DEF WellBegun
<1> QED
  BY <1>6, <1>8, WellBegunStep DEF Stages

LEMMA ReviewWellBegun ==
  ASSUME RunInv, RoundsWellBegun, NEW id \in {Initial, Another}, NEW policy, RunReview(id, policy)
  PROVE  RoundsWellBegun'
<1>1. PICK source : source = Latest("extraction").id
  OBVIOUS
<1>2. \E status, inputs : EndStage("review", id, source, status, inputs)
  BY <1>1 DEF RunReview
<1>3. PICK status, inputs : EndStage("review", id, source, status, inputs)
  BY <1>2
<1>4. PICK round : Upsert("review", round) /\ round.id = id
  BY <1>3, EndedRound DEF Stages
<1>5. WellBegun(ReviewIds, "review", round)
  BY <1>4 DEF WellBegun
<1> QED
  BY <1>4, <1>5, WellBegunStep DEF Stages

LEMMA RepairWellBegun ==
  ASSUME RunInv, RoundsWellBegun, NEW id, NEW targets, RunRepair(id, targets)
  PROVE  RoundsWellBegun'
<1>1. \E status, inputs : EndStage("repair", id, targets, status, inputs)
  BY DEF RunRepair
<1>2. PICK status, inputs : EndStage("repair", id, targets, status, inputs)
  BY <1>1
<1>3. PICK round : Upsert("repair", round)
  BY <1>2, EndedRound DEF Stages
<1>4. WellBegun(ReviewIds, "repair", round)
  BY DEF WellBegun
<1> QED
  BY <1>3, <1>4, WellBegunStep DEF Stages

LEMMA EvidenceWellBegun ==
  ASSUME RunInv, RoundsWellBegun, NEW id, NEW targets, RunEvidence(id, targets)
  PROVE  RoundsWellBegun'
<1>1. \E status, inputs : EndStage("evidence", id, targets, status, inputs)
  BY DEF RunEvidence
<1>2. PICK status, inputs : EndStage("evidence", id, targets, status, inputs)
  BY <1>1
<1>3. PICK round : Upsert("evidence", round)
  BY <1>2, EndedRound DEF Stages
<1>4. WellBegun(ReviewIds, "evidence", round)
  BY DEF WellBegun
<1> QED
  BY <1>3, <1>4, WellBegunStep DEF Stages

\* The review that a new finalization names.
LEMMA LatestReviewRecorded == RunInv => LatestReview \subseteq ReviewIds
<1> SUFFICES ASSUME RunInv, HasRound("review") PROVE Latest("review").id \in ReviewIds
  BY DEF LatestReview
<1>1. PICK j \in DOMAIN rounds["review"] : Latest("review") = rounds["review"][j]
  BY LatestRound DEF Stages
<1> QED
  BY <1>1 DEF ReviewIds

LEMMA FinalizationWellBegun ==
  ASSUME RunInv, RoundsWellBegun, NEW id, NEW candidate, RunFinalization(id, candidate),
         candidate = {} <=> id \in {Initial, Another}
  PROVE  RoundsWellBegun'
<1>1. PICK source : source = FinalizationOf(candidate)
  OBVIOUS
<1>2. PICK begun : begun = Begun("finalization", id, source)
  OBVIOUS
<1>3. \E status, final, events :
        /\ status = "completed" => final # {}
        /\ Upsert("finalization",
             [begun EXCEPT !.status = status, !.final = final, !.events = events])
  <2>1. PICK status \in Outcomes, g \in Generators, names \in SUBSET Names(Frontier(ledger)),
             audited \in BOOLEAN :
          LET wanted    == FinalizationOf(candidate)
              round     == Begun("finalization", id, wanted)
              generated == candidate \cup round.final = {} /\ names # {}
              final     == IF generated THEN {Len(ledger) + 1} ELSE candidate \cup round.final
              drafts    == IF generated THEN <<FinalInput(ledger, g, NoKey, names)>> ELSE <<>>
              audits    == IF audited /\ final # {} /\ Written(round, g) = {}
                           THEN <<ResponseInput(ledger, "final_audit_recorded", g, NoKey,
                                                CHOOSE f \in final : TRUE)>>
                           ELSE <<>>
          IN  /\ CanBegin("finalization", id, wanted)
              /\ status = "completed" => final # {}
              /\ names # {} => generated
              /\ audited => audits # <<>>
              /\ ledger' = ledger \o drafts \o audits
              /\ Upsert("finalization",
                   [round EXCEPT !.status = status, !.final = final,
                                 !.events = @ \cup (NextEvents(drafts \o audits) \ final)])
              /\ UNCHANGED divergence
    BY DEF RunFinalization
  <2>2. LET generated == candidate \cup begun.final = {} /\ names # {}
            final     == IF generated THEN {Len(ledger) + 1} ELSE candidate \cup begun.final
            drafts    == IF generated THEN <<FinalInput(ledger, g, NoKey, names)>> ELSE <<>>
            audits    == IF audited /\ final # {} /\ Written(begun, g) = {}
                         THEN <<ResponseInput(ledger, "final_audit_recorded", g, NoKey,
                                              CHOOSE f \in final : TRUE)>>
                         ELSE <<>>
        IN  /\ status = "completed" => final # {}
            /\ Upsert("finalization",
                 [begun EXCEPT !.status = status, !.final = final,
                               !.events = @ \cup (NextEvents(drafts \o audits) \ final)])
    BY <1>1, <1>2, <2>1
  <2> QED
    BY <2>2
<1>4. PICK status, final, events :
        /\ status = "completed" => final # {}
        /\ Upsert("finalization",
             [begun EXCEPT !.status = status, !.final = final, !.events = events])
  BY <1>3
<1>5. PICK round : round = [begun EXCEPT !.status = status, !.final = final, !.events = events]
  OBVIOUS
<1>6. IsRound(begun) /\ begun.id = id /\ begun.source = source
  BY <1>2, BegunRound DEF Stages
<1>7. round.id = id /\ round.source = source /\ round.status = status /\ round.final = final
  <2>1. begun = [id |-> begun.id, source |-> begun.source, status |-> begun.status,
                 events |-> begun.events, final |-> begun.final]
    BY <1>6 DEF IsRound
  <2>2. round = [id |-> begun.id, source |-> begun.source, status |-> status,
                 events |-> events, final |-> final]
    BY <1>5, <2>1
  <2> QED
    BY <1>6, <2>2
<1>8. /\ source.candidate = candidate /\ source.review \subseteq ReviewIds
      /\ source = [review |-> source.review, candidate |-> source.candidate]
  BY <1>1, LatestReviewRecorded DEF FinalizationOf
<1>9. WellBegun(ReviewIds, "finalization", round)
  BY <1>4, <1>7, <1>8 DEF WellBegun
<1> QED
  BY <1>4, <1>5, <1>9, WellBegunStep DEF Stages

LEMMA NoRoundChanges == RoundsWellBegun /\ UNCHANGED rounds => RoundsWellBegun'
BY DEF RoundsWellBegun, WellBegun, ReviewIds

LEMMA StartWellBegun ==
  ASSUME RunInv, RoundsWellBegun, NEW stage, NEW id \in {Initial, Another}, StartStage(stage, id)
  PROVE  RoundsWellBegun'
<1>1. RunDivergence => RoundsWellBegun'
  BY NoRoundChanges DEF RunDivergence
<1> QED
  BY <1>1, ExtractionWellBegun, ReviewWellBegun, RepairWellBegun, EvidenceWellBegun,
     FinalizationWellBegun
  DEF StartStage

LEMMA ExecuteWellBegun ==
  ASSUME RunInv, RoundsWellBegun, NEW p \in OfType(ledger, "process_proposal_proposed"),
         ExecuteAccepted(p)
  PROVE  RoundsWellBegun'
<1> DEFINE targets == ledger[p].process.targets
           primitive == ledger[p].process.primitive
<1>1. RunDivergence => RoundsWellBegun'
  BY NoRoundChanges DEF RunDivergence
<1>2. p \notin {Initial, Another}
  <2>1. p \in Nat
    BY LogOverDomain DEF RunInv, OfType
  <2> QED
    BY <2>1, RoundIdsAssumption
<1>3. ASSUME primitive \in {"final_audit", "omission_audit"}, RunFinalization(p, targets)
      PROVE  RoundsWellBegun'
  <2>1. Cardinality(targets) = 1
    BY <1>3 DEF ExecuteAccepted, TargetsValid
  <2> HIDE DEF targets, primitive
  <2>2. targets # {}
    BY <2>1, FS_EmptySet
  <2> QED
    BY <1>2, <1>3, <2>2, FinalizationWellBegun
<1> QED
  BY <1>1, <1>3, ExtractionWellBegun, ReviewWellBegun, RepairWellBegun, EvidenceWellBegun,
     FinalizationWellBegun
  DEF ExecuteAccepted

LEMMA WellBegunFirst == RunInit => start \in Starts /\ RoundsWellBegun
<1> SUFFICES ASSUME RunInit PROVE RoundsWellBegun
  BY DEF RunInit
<1>1. PICK s \in Starts : rounds = s.rounds
  BY DEF RunInit
<1>2. ASSUME NEW stage \in Stages, NEW i \in DOMAIN rounds[stage]
      PROVE  WellBegun(ReviewIds, stage, rounds[stage][i])
  <2>1. CASE rounds[stage] = <<>>
    BY <2>1, EmptyIsLog
  <2>2. CASE rounds[stage] # <<>>
    <3>0. /\ \A other \in Stages \ {"extraction"} : s.rounds[other] = <<>>
          /\ \/ s.rounds["extraction"] = <<>>
             \/ \E id \in {Initial, Another}, events \in SUBSET OfType(s.ledger, "extraction_proposed") :
                  /\ events # {}
                  /\ s.rounds["extraction"] = <<[id |-> id, source |-> Divergence, status |-> "completed",
                                                 events |-> events, final |-> {}]>>
      BY StartsAssumption
    <3>1. stage = "extraction"
      BY <1>1, <2>2, <3>0
    <3>2. PICK id \in {Initial, Another}, events \in SUBSET OfType(s.ledger, "extraction_proposed") :
            /\ events # {}
            /\ rounds[stage] = <<[id |-> id, source |-> Divergence, status |-> "completed",
                                  events |-> events, final |-> {}]>>
      BY <1>1, <2>2, <3>0, <3>1
    <3>3. PICK r : r = [id |-> id, source |-> Divergence, status |-> "completed",
                        events |-> events, final |-> {}]
      OBVIOUS
    <3>4. rounds[stage][i] = r
      BY <3>2, <3>3, SingleIsLog
    <3>5. r.id = id /\ r.source = Divergence /\ r.events = events
      BY <3>3
    <3> QED
      BY <3>1, <3>2, <3>4, <3>5 DEF WellBegun
  <2> QED
    BY <2>1, <2>2
<1> QED
  BY <1>2 DEF RoundsWellBegun

\* Rounds begin with the ids and the material they should have.
LEMMA RecordWellBegun == RunSpec => []RecordInv
<1>1. RunInv /\ start \in Starts /\ RoundsWellBegun /\ [RunNext]_runVars
        => (start \in Starts /\ RoundsWellBegun)'
  <2> SUFFICES ASSUME RunInv, start \in Starts, RoundsWellBegun, [RunNext]_runVars
               PROVE  start' \in Starts /\ RoundsWellBegun'
    OBVIOUS
  <2>1. start' = start
    BY DEF RunNext, runVars
  <2>2. CASE UNCHANGED rounds
    BY <2>1, <2>2, NoRoundChanges
  <2>3. CASE \E request \in start.requests : StartStage(request[1], request[2])
    <3>1. PICK request \in start.requests : StartStage(request[1], request[2])
      BY <2>3
    <3>2. request[2] \in {Initial, Another}
      BY StartsAssumption
    <3> QED
      BY <2>1, <3>1, <3>2, StartWellBegun
  <2>4. CASE \E p \in OfType(ledger, "process_proposal_proposed") : ExecuteAccepted(p)
    BY <2>1, <2>4, ExecuteWellBegun
  <2> QED
    BY <2>2, <2>3, <2>4 DEF RunNext, runVars
<1> QED
  BY <1>1, WellBegunFirst, RunsAgree, PTL DEF RunSpec, RecordInv

\* What is suggested has the targets that its primitive asks for.
LEMMA SuggestedTargets ==
  ASSUME RunInv, NEW gap \in Suggestions
  PROVE  \/ TargetsValid(gap)
         \/ /\ gap.primitive = "final_contest"
            /\ Cardinality(Names(Frontier(ledger))) < Cardinality(Frontier(ledger))
<1>0. divergence \in DivergenceStates
  BY DEF RunInv
<1>1. CASE divergence # "revealed"
  BY <1>0, <1>1 DEF Suggestions, DivergenceStates, Gap, TargetsValid
<1>2. CASE divergence = "revealed" /\ NothingExtracted
  <2>1. gap = Gap("relation_mapping", Revealed)
    BY <1>2 DEF Suggestions
  <2> QED
    BY <1>2, <2>1 DEF Gap, TargetsValid
<1>3. CASE divergence = "revealed" /\ ~NothingExtracted
  <2>1. gap \in ReviewGaps \/ gap \in ObjectGaps \/ gap \in FinalGaps
    BY <1>3 DEF Suggestions
  <2>2. CASE gap \in ReviewGaps
    <3>1. gap = Gap("red_team", Latest("extraction").events)
      BY <2>2 DEF ReviewGaps, If
    <3>2. HasRound("extraction") /\ Latest("extraction").events # {}
      BY <1>3 DEF NothingExtracted
    <3> QED
      BY <3>1, <3>2 DEF Gap, TargetsValid
  <2>3. CASE gap \in ObjectGaps
    <3>1. \/ gap = Gap("evidence_check", OpenNeeds) /\ OpenNeeds # {}
          \/ gap = Gap("candidate_repair", Disputed) /\ Disputed # {}
      BY <2>3 DEF ObjectGaps, If
    <3>2. OpenNeeds \subseteq Names(AcceptedObjects(ledger, "need"))
      BY DEF OpenNeeds, Names
    <3>3. Disputed \subseteq Names(Frontier(ledger))
      BY DEF Disputed
    <3> QED
      BY <3>1, <3>2, <3>3 DEF Gap, TargetsValid
  <2>4. CASE gap \in FinalGaps /\ HasRound("finalization") /\ Latest("finalization").final # {}
    <3>1. PICK f : f = CHOOSE x \in Latest("finalization").final : TRUE
      OBVIOUS
    <3>2. gap \in {Gap("final_audit", {f}), Gap("omission_audit", {f})}
      BY <2>4, <3>1 DEF FinalGaps, If
    <3>3. f \in FinalProposals(ledger)
      BY <2>4, <3>1, RecordedFinal
    <3>4. Cardinality({f}) = 1
      BY FS_Singleton
    <3> QED
      BY <3>2, <3>3, <3>4 DEF Gap, TargetsValid
  <2>5. CASE gap \in FinalGaps /\ ~(HasRound("finalization") /\ Latest("finalization").final # {})
    <3>1. gap = Gap("final_contest", Names(Frontier(ledger))) /\ Frontier(ledger) # {}
      BY <2>5 DEF FinalGaps, If
    <3>2. Names(Frontier(ledger)) # {}
      BY <3>1 DEF Names
    <3>3. IsFiniteSet(Frontier(ledger))
      BY FrontierFinite DEF RunInv
    <3>4. /\ Cardinality(Names(Frontier(ledger))) <= Cardinality(Frontier(ledger))
          /\ Cardinality(Names(Frontier(ledger))) \in Nat /\ Cardinality(Frontier(ledger)) \in Nat
      BY <3>3, NamesFinite, FS_CardinalityType
    <3>5. CASE Cardinality(Names(Frontier(ledger))) = Cardinality(Frontier(ledger))
      BY <3>1, <3>2, <3>5 DEF Gap, TargetsValid
    <3>6. CASE Cardinality(Names(Frontier(ledger))) < Cardinality(Frontier(ledger))
      BY <3>1, <3>6 DEF Gap
    <3> QED
      BY <3>4, <3>5, <3>6
  <2> QED
    BY <2>1, <2>2, <2>3, <2>4, <2>5
<1> QED
  BY <1>1, <1>2, <1>3

\* Without rounds of another id, a round of extraction or review is the default one.
LEMMA OnlyTheDefault ==
  ASSUME RecordInv, NEW stage \in {"extraction", "review"}, ~NamedRound({stage})
  PROVE  /\ \A i \in DOMAIN rounds[stage] : rounds[stage][i].id = Initial
         /\ HasRound(stage) => Latest(stage).id = Initial
         /\ \A i \in Recorded(stage, Initial) : HasRound(stage) /\ Latest(stage) = rounds[stage][i]
<1>1. stage \in Stages
  BY DEF Stages
<1>2. \A i \in DOMAIN rounds[stage] : rounds[stage][i].id = Initial
  <2>1. \A i \in DOMAIN rounds[stage] : rounds[stage][i].id \in {Initial, Another}
    BY <1>1 DEF RecordInv, RoundsWellBegun, WellBegun
  <2>2. \A i \in DOMAIN rounds[stage] : rounds[stage][i].id # Another
    BY DEF NamedRound, Recorded
  <2> QED
    BY <2>1, <2>2
<1>3. HasRound(stage) => Latest(stage).id = Initial
  BY <1>1, <1>2, LatestRound DEF RecordInv
<1>4. ASSUME NEW i \in Recorded(stage, Initial)
      PROVE  HasRound(stage) /\ Latest(stage) = rounds[stage][i]
  <2>1. i \in DOMAIN rounds[stage] /\ rounds[stage][i].id = Initial
    BY DEF Recorded
  <2>2. HasRound(stage)
    BY <2>1, EmptyIsLog DEF HasRound
  <2>3. PICK j \in DOMAIN rounds[stage] : Latest(stage) = rounds[stage][j]
    BY <1>1, <2>2, LatestRound DEF RecordInv
  <2>4. i = j
    BY <1>1, <1>2, <2>1 DEF RecordInv, RunInv, OneRoundPerId
  <2> QED
    BY <2>2, <2>3, <2>4
<1> QED
  BY <1>2, <1>3, <1>4

\* The default extraction round, while nothing is extracted, can go on.
LEMMA ExtractionCanBegin ==
  ASSUME RecordInv, NothingExtracted, ~NamedRound({"extraction"})
  PROVE  CanBegin("extraction", Initial, Divergence)
<1> SUFFICES ASSUME NEW i \in Recorded("extraction", Initial)
             PROVE  /\ rounds["extraction"][i].status # "completed"
                    /\ rounds["extraction"][i].source = Divergence
  BY DEF CanBegin, SameSource
<1>1. rounds["extraction"][i].events = {}
  BY OnlyTheDefault DEF NothingExtracted
<1>2. WellBegun(ReviewIds, "extraction", rounds["extraction"][i])
  BY DEF RecordInv, RoundsWellBegun, Recorded, Stages
<1> QED
  BY <1>1, <1>2 DEF WellBegun

\* The default review, while the latest is not completed, can go on.
LEMMA ReviewCanBegin ==
  ASSUME RecordInv, HasRound("extraction"),
         HasRound("review") => Latest("review").status # "completed",
         ~NamedRound({"extraction"}), ~NamedRound({"review"})
  PROVE  CanBegin("review", Initial, Latest("extraction").id)
<1> SUFFICES ASSUME NEW i \in Recorded("review", Initial)
             PROVE  /\ rounds["review"][i].status # "completed"
                    /\ rounds["review"][i].source = Latest("extraction").id
  BY DEF CanBegin, SameSource
<1>1. rounds["review"][i].status # "completed"
  BY OnlyTheDefault
<1>2. Latest("extraction").id = Initial
  BY OnlyTheDefault
<1>3. RoundOK(ledger, rounds["extraction"], "review", rounds["review"][i])
  BY DEF RecordInv, RunInv, RoundsOK, Recorded, Stages
<1>4. PICK j \in DOMAIN rounds["extraction"] : rounds["extraction"][j].id = rounds["review"][i].source
  BY <1>3 DEF RoundOK, Reviews
<1>5. rounds["extraction"][j].id = Initial
  BY OnlyTheDefault
<1> QED
  BY <1>1, <1>2, <1>4, <1>5

\* The default finalization, while the latest has no candidate, can go on.
LEMMA FinalizationCanBegin ==
  ASSUME RecordInv, HasRound("finalization") => Latest("finalization").final = {},
         ~NamedRound({"review"}), ~NamedRound({"finalization"})
  PROVE  CanBegin("finalization", Initial, FinalizationOf({}))
<1> SUFFICES ASSUME NEW i \in Recorded("finalization", Initial)
             PROVE  /\ rounds["finalization"][i].status # "completed"
                    /\ SameSource("finalization", rounds["finalization"][i].source, FinalizationOf({}))
  BY DEF CanBegin
<1> DEFINE old == rounds["finalization"][i]
<1>1. i \in DOMAIN rounds["finalization"] /\ old.id = Initial
  BY DEF Recorded
<1>2. HasRound("finalization")
  BY <1>1, EmptyIsLog DEF HasRound
<1>3. PICK j \in DOMAIN rounds["finalization"] : Latest("finalization") = rounds["finalization"][j]
  BY <1>2, LatestRound DEF RecordInv, Stages
<1>4. ASSUME NEW k \in DOMAIN rounds["finalization"]
      PROVE  /\ WellBegun(ReviewIds, "finalization", rounds["finalization"][k])
             /\ Finalizes(ledger, rounds["finalization"][k])
             /\ rounds["finalization"][k].id # Another
  <2>1. WellBegun(ReviewIds, "finalization", rounds["finalization"][k])
    BY DEF RecordInv, RoundsWellBegun, Stages
  <2>2. RoundOK(ledger, rounds["extraction"], "finalization", rounds["finalization"][k])
    BY DEF RecordInv, RunInv, RoundsOK, Stages
  <2>3. rounds["finalization"][k].id # Another
    BY DEF NamedRound, Recorded
  <2> QED
    BY <2>1, <2>2, <2>3 DEF RoundOK
<1>5. rounds["finalization"][j].id = Initial
  <2>1. rounds["finalization"][j].final = {}
    BY <1>2, <1>3
  <2>2. rounds["finalization"][j].source.candidate = {}
    BY <1>4, <2>1 DEF Finalizes
  <2> QED
    BY <1>4, <2>2 DEF WellBegun
<1>6. i = j
  BY <1>1, <1>5 DEF RecordInv, RunInv, OneRoundPerId, Stages
<1>7. old.status # "completed" /\ old.source.candidate = {} /\ old.source.review \subseteq ReviewIds
  BY <1>1, <1>2, <1>3, <1>4, <1>6 DEF WellBegun
<1>8. ReviewIds \subseteq {Initial}
  BY OnlyTheDefault DEF ReviewIds
<1>9. old.source.review = {} \/ old.source.review = LatestReview
  <2>1. CASE old.source.review # {}
    <3>1. old.source.review = {Initial}
      BY <1>7, <1>8, <2>1
    <3>2. Initial \in ReviewIds
      BY <1>7, <3>1
    <3>3. PICK k \in DOMAIN rounds["review"] : rounds["review"][k].id = Initial
      BY <3>2 DEF ReviewIds
    <3>4. HasRound("review")
      BY <3>3, EmptyIsLog DEF HasRound
    <3> QED
      BY <3>1, <3>4, OnlyTheDefault DEF LatestReview
  <2> QED
    BY <2>1
<1> QED
  <2>1. CASE old.source.review = {}
    BY <1>7, <2>1 DEF SameSource, FinalizationOf
  <2>2. CASE old.source.review = LatestReview
    <3>1. old.source = FinalizationOf({})
      BY <1>1, <1>4, <1>7, <2>2 DEF FinalizationOf, WellBegun
    <3> QED
      BY <1>7, <3>1 DEF SameSource
  <2> QED
    BY <1>9, <2>1, <2>2

\* The stage of a suggestion could begin, beside the exceptions.
LEMMA SuggestedStage ==
  ASSUME RecordInv, NEW gap \in Suggestions
  PROVE  \/ StageCanBegin(gap)
         \/ gap.primitive = "relation_mapping" /\ (Contributions = {} \/ NamedRound({"extraction"}))
         \/ gap.primitive = "red_team" /\ NamedRound({"extraction", "review"})
         \/ gap.primitive = "evidence_check" /\ ~AboutClaims(gap.targets)
         \/ gap.primitive = "final_contest" /\ NamedRound({"review", "finalization"})
<1>0. divergence \in DivergenceStates
  BY DEF RecordInv, RunInv
<1>1. CASE divergence # "revealed"
  BY <1>0, <1>1 DEF Suggestions, DivergenceStates, Gap, StageCanBegin
<1>2. CASE divergence = "revealed" /\ NothingExtracted
  <2>1. gap = Gap("relation_mapping", Revealed)
    BY <1>2 DEF Suggestions
  <2>2. ~NamedRound({"extraction"}) => CanBegin("extraction", Initial, Divergence)
    BY <1>2, ExtractionCanBegin
  <2> QED
    BY <1>2, <2>1, <2>2 DEF Gap, StageCanBegin, ExtractionContext
<1>3. CASE divergence = "revealed" /\ ~NothingExtracted
  <2>1. gap \in ReviewGaps \/ gap \in ObjectGaps \/ gap \in FinalGaps
    BY <1>3 DEF Suggestions
  <2>2. CASE gap \in ReviewGaps
    <3>1. /\ gap = Gap("red_team", Latest("extraction").events)
          /\ HasRound("review") => Latest("review").status # "completed"
      BY <2>2 DEF ReviewGaps, If
    <3>2. HasRound("extraction")
      BY <1>3 DEF NothingExtracted
    <3>3. NamedRound({"extraction", "review"}) <=>
            NamedRound({"extraction"}) \/ NamedRound({"review"})
      BY DEF NamedRound
    <3>4. ~NamedRound({"extraction", "review"}) =>
            CanBegin("review", Initial, Latest("extraction").id)
      BY <3>1, <3>2, <3>3, ReviewCanBegin
    <3> QED
      BY <3>1, <3>4 DEF Gap, StageCanBegin
  <2>3. CASE gap \in ObjectGaps
    <3>1. \/ gap = Gap("evidence_check", OpenNeeds) /\ OpenNeeds # {}
          \/ gap = Gap("candidate_repair", Disputed) /\ Disputed # {}
      BY <2>3 DEF ObjectGaps, If
    <3>2. OpenNeeds \subseteq Names(AcceptedObjects(ledger, "need"))
      BY DEF OpenNeeds, Names
    <3>3. Disputed \subseteq Names(Frontier(ledger))
      BY DEF Disputed
    <3>4. CASE gap = Gap("evidence_check", OpenNeeds) /\ OpenNeeds # {}
      BY <3>2, <3>4 DEF Gap, StageCanBegin, EvidenceContext
    <3>5. CASE gap = Gap("candidate_repair", Disputed) /\ Disputed # {}
      <4>1. RepairContext(Disputed)
        BY <3>3, <3>5 DEF RepairContext
      <4> QED
        BY <3>5, <4>1 DEF Gap, StageCanBegin
    <3> QED
      BY <3>1, <3>4, <3>5
  <2>4. CASE gap \in FinalGaps /\ HasRound("finalization") /\ Latest("finalization").final # {}
    <3>1. \E f : gap \in {Gap("final_audit", {f}), Gap("omission_audit", {f})}
      BY <2>4 DEF FinalGaps, If
    <3> QED
      BY <3>1 DEF Gap, StageCanBegin
  <2>5. CASE gap \in FinalGaps /\ ~(HasRound("finalization") /\ Latest("finalization").final # {})
    <3>1. gap = Gap("final_contest", Names(Frontier(ledger)))
      BY <2>5 DEF FinalGaps, If
    <3>2. NamedRound({"review", "finalization"}) <=>
            NamedRound({"review"}) \/ NamedRound({"finalization"})
      BY DEF NamedRound
    <3>3. ~NamedRound({"review", "finalization"}) =>
            CanBegin("finalization", Initial, FinalizationOf({}))
      BY <2>5, <3>2, FinalizationCanBegin
    <3> QED
      BY <3>1, <3>3 DEF Gap, StageCanBegin
  <2> QED
    BY <2>1, <2>2, <2>3, <2>4, <2>5
<1> QED
  BY <1>1, <1>2, <1>3

\* What the scheduler suggests has the targets the executor asks for, and its stage
\* could begin if it were accepted now, beside the exceptions that the property names.
THEOREM SuggestionsCanRun == RunSpec => []SuggestionsExecutable
<1>1. RecordInv => SuggestionsExecutable
  BY SuggestedTargets, SuggestedStage DEF RecordInv, SuggestionsExecutable
<1> QED
  BY <1>1, RecordWellBegun, PTL

\* A run without a suggestion has accepted no candidate, or one that was finalized and
\* audited, with an audit of its omissions proposed.
THEOREM SilenceMeansDone == RunSpec => []SilentOnlyWhenDone
<1>1. RunInv => SilentOnlyWhenDone
  <2> SUFFICES ASSUME RunInv, divergence = "revealed", Suggestions = {}, Frontier(ledger) # {}
               PROVE  \E f \in FinalProposals(ledger) :
                        Outcome(ledger, f).audits # {} /\ OmissionAuditProposed(f)
    BY DEF SilentOnlyWhenDone
  <2>1. ReviewGaps \cup ObjectGaps \cup FinalGaps = {}
    BY DEF Suggestions
  <2>2. HasRound("finalization") /\ Latest("finalization").final # {}
    BY <2>1 DEF FinalGaps, If
  <2>3. PICK f : f = CHOOSE x \in Latest("finalization").final : TRUE
    OBVIOUS
  <2>4. Latest("finalization").events # {} /\ OmissionAuditProposed(f)
    BY <2>1, <2>2, <2>3 DEF FinalGaps, If
  <2>5. PICK e \in Latest("finalization").events : TRUE
    BY <2>4
  <2>6. /\ f \in FinalProposals(ledger)
        /\ e \in DOMAIN ledger /\ ledger[e].type = "final_audit_recorded"
        /\ ledger[e].target = f /\ f < e
    BY <2>2, <2>3, <2>5, RecordedFinal
  <2>7. Selected(ledger, f) = {f}
    <3>1. f \in 1..Len(ledger) /\ Len(ledger) \in Nat
      BY <2>6, LogOverDomain DEF FinalProposals, OfType, RunInv
    <3>2. f # Unrequested
      BY <3>1 DEF Unrequested
    <3> QED
      BY <3>2 DEF Selected
  <2>8. e \in Audits(ledger, {f})
    BY <2>6 DEF Audits, OfType
  <2>9. Outcome(ledger, f).audits = Audits(ledger, {f})
    BY <2>7 DEF Outcome
  <2> QED
    BY <2>4, <2>6, <2>8, <2>9
<1> QED
  BY <1>1, RunsAgree, PTL

(***************************************************************************)
(* Whatever the stages of a run append, beside its clients: no conclusion  *)
(* without an acceptance before it, and outcomes that cover the frontier   *)
(* of the day.                                                             *)
(***************************************************************************)
THEOREM RunsConcludeOnAcceptance == RunSpec => [](ConclusionsGrounded /\ OutcomeCoversFrontier)
<1>1. RunInv => ConclusionsGrounded
  BY GroundedConclusions DEF RunInv, LedgerRight, Right
<1>2. RunInv => OutcomeCoversFrontier
  <2>1. RunInv => \A i \in DOMAIN ledger : Refers(ledger, i, ledger[i])
    BY DEF RunInv, LedgerRight, Right
  <2> QED
    BY <2>1, OutcomeOfToday DEF OutcomeCoversFrontier
<1> QED
  BY <1>1, <1>2, RunsAgree, PTL

(***************************************************************************)
(* A session without a run is one of Deliberation, so that a call that is  *)
(* repeated finds its event there too.                                     *)
(***************************************************************************)
THEOREM SessionsReplayCalls == RunSpec /\ ~start.run => []RepeatedCallReplays
<1>1. RunInit /\ ~start.run => Init
  BY StartsAssumption DEF RunInit, Init
<1>2. ~start.run /\ [RunNext]_runVars => [Next]_ledger /\ ~start.run'
  BY DEF RunNext, runVars
<1> QED
  BY <1>1, <1>2, RepeatedCallsFindTheirEvent, PTL DEF Spec, RunSpec
=============================================================================
