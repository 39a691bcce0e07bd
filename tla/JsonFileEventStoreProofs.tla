----------------------- MODULE JsonFileEventStoreProofs -----------------------
(***************************************************************************)
(* JsonFileEventStore keeps its promise through its file: whatever writes  *)
(* fail and wherever the process dies, the file is a ledger that the next  *)
(* start accepts and that holds every event returned as appended.          *)
(*                                                                         *)
(* A failed write leaves the memory ahead of the file, and the next one    *)
(* writes both events.  What makes this safe is that the memory only ever  *)
(* extends the file, and is itself a valid ledger.                         *)
(***************************************************************************)
EXTENDS JsonFileEventStore, TLAPS

StoredEvents == [id : Ids, session : Sessions, key : Keys \cup {NoKey},
                 type : {"event"}, body : Bodies, sequence : Nat,
                 prev : Ids \cup {NoEvent}]

\* l is a ledger that the constructor's validation accepts.
Valid(l) == l \in [Sessions -> Seq(StoredEvents)] /\ Validates(l)

\* The events of k are the first ones of l, session by session.
Extended(k, l) ==
  \A s \in Sessions :
    /\ Len(k[s]) <= Len(l[s])
    /\ \A i \in 1..Len(k[s]) : k[s][i] = l[s][i]

Inv == /\ Valid(file)
       /\ Valid(mem)
       /\ up => Extended(file, mem)
       /\ acked \subseteq EventsIn(file)

\* An extension holds every event of what it extends.
LEMMA ExtensionKeepsEvents ==
  ASSUME NEW k \in [Sessions -> Seq(StoredEvents)],
         NEW l \in [Sessions -> Seq(StoredEvents)], Extended(k, l)
  PROVE  EventsIn(k) \subseteq EventsIn(l)
<1> SUFFICES ASSUME NEW s \in Sessions, NEW i \in DOMAIN k[s]
             PROVE  k[s][i] \in EventsIn(l)
  BY DEF EventsIn
<1>1. k[s] \in Seq(StoredEvents) /\ l[s] \in Seq(StoredEvents)
  OBVIOUS
<1>2. i \in DOMAIN l[s] /\ k[s][i] = l[s][i]
  BY <1>1 DEF Extended
<1> QED BY <1>2 DEF EventsIn

-----------------------------------------------------------------------------
(***************************************************************************)
(* storeEvent: the stamped event continues its session's chain.            *)
(***************************************************************************)
LEMMA StampContinues ==
  ASSUME Valid(mem), NEW input \in Inputs
  PROVE  LET events == mem[input.session]
             e == Stamped(events, input)
         IN  /\ e \in StoredEvents
             /\ e.id = input.id /\ e.key = input.key
             /\ e.sequence = Len(events)
             /\ e.prev = IF events = << >> THEN NoEvent ELSE events[Len(events)].id
<1> DEFINE events == mem[input.session]
           e == Stamped(events, input)
<1>1. input.session \in Sessions /\ events \in Seq(StoredEvents)
  BY DEF Valid, Inputs
<1>2. ContiguousFromZero(events)
  BY <1>1 DEF Valid, Validates
<1>3. CASE events = << >>
  <2>1. NextSequence(events) = 0 /\ Len(events) = 0
    BY <1>3 DEF NextSequence
  <2> QED BY <1>3, <2>1 DEF Stamped, StoredEvents, Inputs
<1>4. CASE events # << >>
  <2>1. Len(events) \in DOMAIN events /\ Len(events) \in Nat
    BY <1>1, <1>4
  <2>2. events[Len(events)] \in StoredEvents
    BY <1>1, <2>1
  <2>3. events[Len(events)].sequence = Len(events) - 1
    BY <1>2, <2>1 DEF ContiguousFromZero
  <2>4. NextSequence(events) = Len(events)
    BY <1>4, <2>1, <2>3 DEF NextSequence, Last
  <2>5. e.sequence = Len(events) /\ e.prev = events[Len(events)].id
    BY <1>4, <2>4 DEF Stamped, Last
  <2>6. e.prev \in Ids /\ e.sequence \in Nat
    BY <2>1, <2>2, <2>5 DEF StoredEvents
  <2>7. e \in StoredEvents
    BY <2>6 DEF Stamped, StoredEvents, Inputs
  <2> QED BY <1>4, <2>5, <2>7 DEF Stamped
<1> QED BY <1>3, <1>4

LEMMA StoreEventValid ==
  ASSUME Valid(mem), NEW input \in Inputs, CanStore(input)
  PROVE  /\ Valid(StoreEvent(input))
         /\ Extended(mem, StoreEvent(input))
         /\ Stamped(mem[input.session], input) \in EventsIn(StoreEvent(input))
<1> DEFINE s0 == input.session
           e == Stamped(mem[s0], input)
           n == Len(mem[s0])
           l == StoreEvent(input)
<1>1. s0 \in Sessions /\ mem \in [Sessions -> Seq(StoredEvents)]
  BY DEF Inputs, Valid
<1>2. /\ e \in StoredEvents /\ e.id = input.id /\ e.key = input.key
      /\ e.sequence = n
      /\ e.prev = IF mem[s0] = << >> THEN NoEvent ELSE mem[s0][n].id
  BY StampContinues
<1> HIDE DEF e
<1>3. l = [mem EXCEPT ![s0] = Append(mem[s0], e)]
  BY DEF StoreEvent, e
<1>4. /\ l[s0] = Append(mem[s0], e)
      /\ \A s \in Sessions : s # s0 => l[s] = mem[s]
      /\ l \in [Sessions -> Seq(StoredEvents)]
  BY <1>1, <1>2, <1>3
<1> HIDE DEF l
<1>5. /\ n \in Nat /\ Len(l[s0]) = n + 1 /\ l[s0][n + 1] = e
      /\ DOMAIN l[s0] = 1..(n + 1) /\ DOMAIN mem[s0] = 1..n
      /\ \A i \in 1..n : l[s0][i] = mem[s0][i]
  BY <1>1, <1>2, <1>4
<1>6. Extended(mem, l)
  <2> SUFFICES ASSUME NEW s \in Sessions
               PROVE  /\ Len(mem[s]) <= Len(l[s])
                      /\ \A i \in 1..Len(mem[s]) : mem[s][i] = l[s][i]
    BY DEF Extended
  <2>1. CASE s = s0
    BY <1>5, <2>1
  <2>2. CASE s # s0
    <3>1. l[s] = mem[s] /\ Len(mem[s]) \in Nat
      BY <1>1, <1>4, <2>2
    <3> QED BY <3>1
  <2> QED BY <2>1, <2>2
<1>7. e \in EventsIn(l)
  <2>1. n + 1 \in DOMAIN l[s0]
    BY <1>5
  <2> QED BY <1>1, <1>5, <2>1 DEF EventsIn
\* An event of l is the new one, or an old one at its old place.
<1>8. ASSUME NEW s \in Sessions, NEW i \in DOMAIN l[s]
      PROVE  \/ s = s0 /\ i = n + 1 /\ l[s][i] = e
             \/ i \in DOMAIN mem[s] /\ l[s][i] = mem[s][i]
  <2>1. CASE s = s0
    BY <1>5, <2>1
  <2>2. CASE s # s0
    BY <1>4, <2>2
  <2> QED BY <2>1, <2>2
<1>9. \A s \in Sessions : \A i \in DOMAIN mem[s] : mem[s][i].id # input.id
  BY DEF CanStore, UsedIds
<1>10. UniqueIds(l)
  <2> SUFFICES ASSUME NEW s \in Sessions, NEW t \in Sessions,
                      NEW i \in DOMAIN l[s], NEW j \in DOMAIN l[t],
                      l[s][i].id = l[t][j].id
               PROVE  s = t /\ i = j
    BY DEF UniqueIds
  <2>1. UniqueIds(mem)
    BY DEF Valid, Validates
  <2>2. \/ s = s0 /\ i = n + 1 /\ l[s][i] = e
        \/ i \in DOMAIN mem[s] /\ l[s][i] = mem[s][i]
    BY <1>8
  <2>3. \/ t = s0 /\ j = n + 1 /\ l[t][j] = e
        \/ j \in DOMAIN mem[t] /\ l[t][j] = mem[t][j]
    BY <1>8
  <2> QED BY <1>2, <1>9, <2>1, <2>2, <2>3 DEF UniqueIds
<1>11. ASSUME NEW s \in Sessions
       PROVE  ContiguousFromZero(l[s]) /\ OneEventPerKey(l[s]) /\ HashChained(l[s])
  <2>1. ContiguousFromZero(mem[s]) /\ OneEventPerKey(mem[s]) /\ HashChained(mem[s])
    BY DEF Valid, Validates
  <2>2. CASE s # s0
    BY <1>4, <2>1, <2>2
  <2>3. CASE s = s0
    <3>1. ContiguousFromZero(l[s])
      <4> SUFFICES ASSUME NEW i \in DOMAIN l[s] PROVE l[s][i].sequence = i - 1
        BY DEF ContiguousFromZero
      <4>1. CASE i = n + 1
        BY <1>2, <1>5, <2>3, <4>1
      <4>2. CASE i # n + 1
        BY <1>5, <1>8, <2>1, <2>3, <4>2 DEF ContiguousFromZero
      <4> QED BY <4>1, <4>2
    <3>2. HashChained(l[s])
      <4> SUFFICES ASSUME NEW i \in DOMAIN l[s]
                   PROVE  l[s][i].prev = IF i = 1 THEN NoEvent ELSE l[s][i - 1].id
        BY DEF HashChained
      <4>1. i \in 1..(n + 1)
        BY <1>5, <2>3
      <4>2. CASE i = n + 1
        <5>1. mem[s0] = << >> <=> n = 0
          BY <1>1
        <5>2. n # 0 => n \in 1..n
          BY <1>5
        <5> QED BY <1>2, <1>5, <2>3, <4>2, <5>1, <5>2
      <4>3. CASE i # n + 1
        <5>1. i \in 1..n /\ (i # 1 => i - 1 \in 1..n)
          BY <1>5, <4>1, <4>3
        <5>2. mem[s][i].prev = IF i = 1 THEN NoEvent ELSE mem[s][i - 1].id
          BY <1>5, <2>1, <2>3, <5>1 DEF HashChained
        <5> QED BY <1>5, <2>3, <5>1, <5>2
      <4> QED BY <4>2, <4>3
    <3>3. OneEventPerKey(l[s])
      <4> SUFFICES ASSUME NEW i \in DOMAIN l[s], NEW j \in DOMAIN l[s],
                          l[s][i].key # NoKey, l[s][i].key = l[s][j].key
                   PROVE  i = j
        BY DEF OneEventPerKey
      <4>1. \A k \in DOMAIN mem[s] : input.key # NoKey => mem[s][k].key # input.key
        BY <2>3 DEF CanStore, IsNew, KeyHolders
      <4>2. (i = n + 1 /\ l[s][i] = e) \/ (i \in DOMAIN mem[s] /\ l[s][i] = mem[s][i])
        BY <1>8
      <4>3. (j = n + 1 /\ l[s][j] = e) \/ (j \in DOMAIN mem[s] /\ l[s][j] = mem[s][j])
        BY <1>8
      <4> QED BY <1>2, <2>1, <4>1, <4>2, <4>3 DEF OneEventPerKey
    <3> QED BY <3>1, <3>2, <3>3
  <2> QED BY <2>2, <2>3
<1>12. Valid(l)
  BY <1>4, <1>10, <1>11 DEF Valid, Validates
<1> QED BY <1>6, <1>7, <1>12 DEF l, e
-----------------------------------------------------------------------------
(***************************************************************************)
(* Every step preserves the invariant, and the file only grows.            *)
(***************************************************************************)
LEMMA EmptyValid == Valid(Empty) /\ EventsIn(Empty) = {}
<1>1. Empty \in [Sessions -> Seq(StoredEvents)] /\ \A s \in Sessions : DOMAIN Empty[s] = {}
  BY DEF Empty
<1>2. Validates(Empty)
  BY <1>1 DEF Validates, UniqueIds, ContiguousFromZero, OneEventPerKey, HashChained
<1> QED BY <1>1, <1>2 DEF Valid, EventsIn

LEMMA InitInv == Init => Inv
BY EmptyValid DEF Init, Inv, Extended

\* What a step that stores input brings into the file, it brings behind what is
\* there already.
LEMMA FileExtends ==
  ASSUME Inv, NEW input \in Inputs, CanStore(input)
  PROVE  /\ Valid(StoreEvent(input))
         /\ Extended(file, StoreEvent(input))
         /\ acked \subseteq EventsIn(StoreEvent(input))
         /\ Stamped(mem[input.session], input) \in EventsIn(StoreEvent(input))
<1> DEFINE l == StoreEvent(input)
<1>1. /\ Valid(l) /\ Extended(mem, l)
      /\ Stamped(mem[input.session], input) \in EventsIn(l)
  BY StoreEventValid DEF Inv
<1> HIDE DEF l
<1>2. Extended(file, mem)
  BY DEF Inv, CanStore
<1>3. Extended(file, l)
  <2> SUFFICES ASSUME NEW s \in Sessions
               PROVE  /\ Len(file[s]) <= Len(l[s])
                      /\ \A i \in 1..Len(file[s]) : file[s][i] = l[s][i]
    BY DEF Extended
  <2>1. /\ Len(file[s]) <= Len(mem[s]) /\ \A i \in 1..Len(file[s]) : file[s][i] = mem[s][i]
        /\ Len(mem[s]) <= Len(l[s]) /\ \A i \in 1..Len(mem[s]) : mem[s][i] = l[s][i]
    BY <1>1, <1>2 DEF Extended
  <2>2. Len(file[s]) \in Nat /\ Len(mem[s]) \in Nat /\ Len(l[s]) \in Nat
    BY <1>1 DEF Inv, Valid
  <2> QED BY <2>1, <2>2
<1>4. EventsIn(file) \subseteq EventsIn(l)
  BY <1>1, <1>3, ExtensionKeepsEvents DEF Inv, Valid
<1> QED BY <1>1, <1>3, <1>4 DEF Inv, l

LEMMA ExtendsItself ==
  ASSUME NEW l \in [Sessions -> Seq(StoredEvents)] PROVE Extended(l, l)
<1>1. \A s \in Sessions : Len(l[s]) \in Nat
  OBVIOUS
<1> QED BY <1>1 DEF Extended

LEMMA NextInv == ASSUME Inv, [Next]_vars PROVE Inv' /\ Extended(file, file')
<1>1. file \in [Sessions -> Seq(StoredEvents)] /\ mem \in [Sessions -> Seq(StoredEvents)]
  BY DEF Inv, Valid
<1>2. Extended(file, file) /\ Extended(mem, mem)
  BY <1>1, ExtendsItself
<1>3. CASE UNCHANGED vars
  <2>1. /\ Valid(file)' /\ Valid(mem)' /\ (up' => Extended(file, mem)')
        /\ acked' \subseteq EventsIn(file)' /\ file' = file
    BY <1>3 DEF Inv, vars, Valid, Extended, EventsIn
  <2> QED BY <1>2, <2>1 DEF Inv
<1>4. ASSUME NEW input \in Inputs, AppendStored(input)
      PROVE  Inv' /\ Extended(file, file')
  <2>1. PICK l : l = StoreEvent(input)
    OBVIOUS
  <2>2. /\ Valid(l) /\ Extended(file, l) /\ acked \subseteq EventsIn(l)
        /\ Stamped(mem[input.session], input) \in EventsIn(l)
    BY <1>4, <2>1, FileExtends DEF AppendStored
  <2>3. /\ mem' = l /\ file' = l
        /\ acked' = acked \cup {Stamped(mem[input.session], input)}
    BY <1>4, <2>1 DEF AppendStored
  <2>4. Extended(l, l)
    BY <2>2, ExtendsItself DEF Valid
  <2>5. Valid(file') /\ Valid(mem') /\ Extended(file', mem') /\ acked' \subseteq EventsIn(file')
    BY <2>2, <2>3, <2>4
  <2> QED BY <2>2, <2>3, <2>5 DEF Inv
<1>5. ASSUME NEW input \in Inputs, AppendPersistFails(input)
      PROVE  Inv' /\ Extended(file, file')
  <2>1. PICK l : l = StoreEvent(input)
    OBVIOUS
  <2>2. Valid(l) /\ Extended(file, l)
    BY <1>5, <2>1, FileExtends DEF AppendPersistFails
  <2>3. mem' = l /\ file' = file /\ acked' = acked
    BY <1>5, <2>1 DEF AppendPersistFails
  <2>4. Valid(file') /\ Valid(mem') /\ Extended(file', mem') /\ acked' \subseteq EventsIn(file')
    BY <2>2, <2>3 DEF Inv
  <2> QED BY <1>2, <2>3, <2>4 DEF Inv
<1>6. ASSUME NEW input \in Inputs, AppendReplayed(input)
      PROVE  Inv' /\ Extended(file, file')
  <2>1. mem' = mem /\ file' = file /\ acked' = acked /\ up' = up
    BY <1>6 DEF AppendReplayed
  <2>2. /\ Valid(file') /\ Valid(mem') /\ (up' => Extended(file', mem'))
        /\ acked' \subseteq EventsIn(file')
    BY <2>1 DEF Inv
  <2> QED BY <1>2, <2>1, <2>2 DEF Inv
<1>7. ASSUME Crash
      PROVE  Inv' /\ Extended(file, file')
  <2>1. Valid(file') /\ Extended(file, file') /\ acked \subseteq EventsIn(file')
    <3>1. CASE file' = file
      BY <1>2, <3>1 DEF Inv
    <3>2. CASE file' # file
      <4>1. PICK input \in Inputs : CanStore(input) /\ file' = StoreEvent(input)
        BY <1>7, <3>2 DEF Crash
      <4> QED BY <4>1, FileExtends
    <3> QED BY <3>1, <3>2
  <2>2. mem' = Empty /\ acked' = acked /\ up' = FALSE
    BY <1>7 DEF Crash
  <2>3. Valid(mem')
    BY <2>2, EmptyValid
  <2> QED BY <2>1, <2>2, <2>3 DEF Inv
<1>8. ASSUME Restart
      PROVE  Inv' /\ Extended(file, file')
  <2>1. mem' = file /\ file' = file /\ acked' = acked
    BY <1>8 DEF Restart
  <2>2. /\ Valid(file') /\ Valid(mem') /\ Extended(file', mem')
        /\ acked' \subseteq EventsIn(file')
    BY <1>2, <2>1 DEF Inv
  <2> QED BY <1>2, <2>1, <2>2 DEF Inv
<1> QED BY <1>3, <1>4, <1>5, <1>6, <1>7, <1>8 DEF Next

LEMMA InvAlways == Spec => []Inv
BY InitInv, NextInv, PTL DEF Spec

-----------------------------------------------------------------------------
(***************************************************************************)
(* An event returned as appended is in the file, and the file is one that  *)
(* the next start accepts: the two halves of a durable store.              *)
(***************************************************************************)
THEOREM FileIsDurable == Spec => [](AckedDurable /\ FileLoads)
<1>1. Inv => AckedDurable /\ FileLoads
  BY DEF Inv, AckedDurable, FileLoads, Valid
<1> QED BY <1>1, InvAlways, PTL

\* The mapped state is a ledger without repeated ids and keys.
MappedState == /\ Log \in [Sessions -> Seq(Inputs)]
               /\ Ledger!Admissible(Log)

LEMMA MappedStateOK == Inv => MappedState
<1> SUFFICES ASSUME Inv PROVE MappedState
  OBVIOUS
<1>1. file \in [Sessions -> Seq(StoredEvents)] /\ Validates(file)
  BY DEF Inv, Valid
<1>2. ASSUME NEW s \in Sessions
      PROVE  /\ Log[s] \in Seq(Inputs)
             /\ DOMAIN Log[s] = DOMAIN file[s]
             /\ \A i \in DOMAIN file[s] : /\ Log[s][i].id = file[s][i].id
                                          /\ Log[s][i].key = file[s][i].key
  <2>1. Log[s] = [i \in DOMAIN file[s] |-> Unstamped(file[s][i])]
    BY DEF Log
  <2>2. DOMAIN file[s] = 1..Len(file[s]) /\ Len(file[s]) \in Nat
    BY <1>1
  <2>3. \A i \in DOMAIN file[s] : Unstamped(file[s][i]) \in Inputs
    <3> SUFFICES ASSUME NEW i \in DOMAIN file[s] PROVE Unstamped(file[s][i]) \in Inputs
      OBVIOUS
    <3>1. file[s][i] \in StoredEvents
      BY <1>1
    <3> QED BY <3>1 DEF StoredEvents, Unstamped, Inputs
  <2>4. Log[s] \in [1..Len(file[s]) -> Inputs]
    BY <2>1, <2>2, <2>3
  <2>5. Log[s] \in Seq(Inputs)
    BY <2>2, <2>4
  <2>6. \A i \in DOMAIN file[s] : /\ Log[s][i].id = file[s][i].id
                                  /\ Log[s][i].key = file[s][i].key
    BY <2>1 DEF Unstamped
  <2> QED BY <2>1, <2>5, <2>6
<1>3. Log \in [Sessions -> Seq(Inputs)]
  <2>1. DOMAIN Log = Sessions /\ Log = [s \in Sessions |-> Log[s]]
    BY DEF Log
  <2> QED BY <1>2, <2>1
<1>4. Ledger!UniqueIds(Log)
  BY <1>1, <1>2 DEF Validates, UniqueIds, Ledger!UniqueIds
<1>5. ASSUME NEW s \in Sessions PROVE Ledger!OneEventPerKey(Log[s])
  BY <1>1, <1>2 DEF Validates, OneEventPerKey, Ledger!OneEventPerKey
<1> QED BY <1>3, <1>4, <1>5 DEF MappedState, Ledger!Admissible

\* Every step appends to the ledger in the file or leaves it as it is.
LEMMA StepRefines ==
  ASSUME Inv, Inv', [Next]_vars
  PROVE  [Ledger!AppendEvents]_Log
<1>1. MappedState /\ MappedState'
  BY MappedStateOK, PTL
<1>2. ASSUME NEW s \in Sessions
      PROVE  Ledger!IsPrefix(Log[s], Log'[s])
  <2>1. /\ Len(file[s]) <= Len(file'[s])
        /\ \A i \in 1..Len(file[s]) : file[s][i] = file'[s][i]
    BY NextInv DEF Extended
  <2>2. file[s] \in Seq(StoredEvents) /\ file'[s] \in Seq(StoredEvents)
    BY DEF Inv, Valid
  <2>3. Log[s] \in Seq(Inputs) /\ Log'[s] \in Seq(Inputs)
    BY <1>1 DEF MappedState
  <2>4. Len(Log[s]) = Len(file[s]) /\ Len(Log'[s]) = Len(file'[s])
    BY <2>2, <2>3 DEF Log
  <2>5. Len(file[s]) \in Nat /\ Len(file'[s]) \in Nat
    BY <2>2
  <2>6. ASSUME NEW i \in 1..Len(file[s]) PROVE Log[s][i] = Log'[s][i]
    <3>1. i \in DOMAIN file[s] /\ i \in DOMAIN file'[s] /\ file[s][i] = file'[s][i]
      BY <2>1, <2>2, <2>5
    <3> QED BY <3>1 DEF Log
  <2>7. SubSeq(Log[s], 1, Len(Log[s])) = SubSeq(Log'[s], 1, Len(Log[s]))
    BY <2>1, <2>3, <2>4, <2>5, <2>6
  <2> QED BY <2>1, <2>3, <2>4, <2>7 DEF Ledger!IsPrefix
<1>3. Log' \in [Sessions -> Seq(Ledger!Inputs)] /\ Ledger!Admissible(Log')
  BY <1>1 DEF MappedState, Inputs, Ledger!Inputs
<1> QED BY <1>2, <1>3 DEF Ledger!AppendEvents

\* Empty memory and an empty file are an empty ledger.
LEMMA InitRefines == Init => Ledger!Init
BY DEF Init, Ledger!Init, Log, Empty, Ledger!EmptyLog

(***************************************************************************)
(* The JSON store implements the ledger that every store promises, several *)
(* events at once when an earlier write had failed.                        *)
(***************************************************************************)
THEOREM StoreImplementsLedger == Spec => ImplementsLedger
<1>1. Init => Ledger!Init
  BY InitRefines
<1>2. Inv /\ Inv' /\ [Next]_vars => [Ledger!AppendEvents]_Log
  BY StepRefines
<1> QED BY <1>1, <1>2, InvAlways, PTL DEF Spec, ImplementsLedger, Ledger!Spec
=============================================================================
