------------------------ MODULE SqliteEventStoreProofs ------------------------
(***************************************************************************)
(* SQLiteEventStore implements the abstract ledger, for any number of      *)
(* connections whose transactions interleave and that may die at any step. *)
(*                                                                         *)
(* The rows of a session are the entries of one sequence, its log; the     *)
(* queries of the store (ListEvents, NextSequence, LatestEvent) read that  *)
(* sequence.  What a transaction has read stays true until it commits,     *)
(* because it holds the write lock.                                        *)
(***************************************************************************)
EXTENDS SqliteEventStore, FiniteSetTheorems, FunctionTheorems, TLAPS

-----------------------------------------------------------------------------
(***************************************************************************)
(* Rows and logs.                                                          *)
(***************************************************************************)
\* e, of length n, is the log of session s.
IsLog(s, n, e) ==
  /\ n \in Nat
  /\ e \in [1..n -> SessionRows(s)]
  /\ \A i \in 1..n : e[i].sequence = i - 1
  /\ \A r \in SessionRows(s) : r.sequence \in 0..(n - 1) /\ r = e[r.sequence + 1]

IsChain(n, e) ==
  \A i \in 1..n : e[i].prev = IF i = 1 THEN NoEvent ELSE e[i - 1].id

\* What the three queries return of a session that has a log.
QueriesReadLog ==
  \A s \in Sessions : \A n, e :
    IsLog(s, n, e) =>
      /\ ListEvents(s) = e
      /\ NextSequence(s) = n
      /\ LatestEvent(s) = IF n = 0 THEN NoEvent ELSE e[n].id

LEMMA RowsBelow ==
  ASSUME NEW s, NEW n, NEW e, IsLog(s, n, e), NEW k \in 0..n
  PROVE  Cardinality({q \in SessionRows(s) : q.sequence < k}) = k
<1> DEFINE T == {q \in SessionRows(s) : q.sequence < k}
           f == [i \in 1..k |-> e[i]]
<1>1. n \in Nat /\ k \in Nat /\ \A i \in 1..k : i \in 1..n
  BY DEF IsLog
<1>2. f \in [1..k -> T]
  <2>1. \A i \in 1..k : e[i] \in SessionRows(s) /\ e[i].sequence = i - 1 /\ i - 1 < k
    BY <1>1 DEF IsLog
  <2> QED BY <2>1
<1>3. \A i, j \in 1..k : f[i] = f[j] => i = j
  <2> SUFFICES ASSUME NEW i \in 1..k, NEW j \in 1..k, f[i] = f[j] PROVE i = j
    OBVIOUS
  <2>1. e[i] = e[j] /\ e[i].sequence = i - 1 /\ e[j].sequence = j - 1
    BY <1>1 DEF IsLog
  <2> QED BY <1>1, <2>1
<1>4. \A q \in T : \E i \in 1..k : f[i] = q
  <2> SUFFICES ASSUME NEW q \in T PROVE \E i \in 1..k : f[i] = q
    OBVIOUS
  <2>1. q.sequence \in 0..(n - 1) /\ q.sequence < k /\ q = e[q.sequence + 1]
    BY DEF IsLog
  <2>2. q.sequence + 1 \in 1..k
    BY <1>1, <2>1
  <2> QED BY <2>1, <2>2
<1>5. f \in Bijection(1..k, T)
  <2> HIDE DEF f, T
  <2> QED BY <1>2, <1>3, <1>4, Fun_IsBij DEF Bijection, Injection, Surjection
<1>6. ExistsBijection(1..k, T)
  BY <1>5 DEF ExistsBijection
<1>7. IsFiniteSet(1..k) /\ Cardinality(1..k) = k
  <2>1. Cardinality(1..k) = IF 1 > k THEN 0 ELSE k - 1 + 1
    BY <1>1, FS_Interval
  <2> QED BY <1>1, <2>1, FS_Interval
<1> HIDE DEF T
<1>8. Cardinality(T) = k
  BY <1>6, <1>7, FS_Bijection
<1> QED BY <1>8 DEF T

LEMMA QueriesRead == QueriesReadLog
<1> SUFFICES ASSUME NEW s \in Sessions, NEW n, NEW e, IsLog(s, n, e)
             PROVE  /\ ListEvents(s) = e
                    /\ NextSequence(s) = n
                    /\ LatestEvent(s) = IF n = 0 THEN NoEvent ELSE e[n].id
  BY DEF QueriesReadLog
<1>1. /\ n \in Nat
      /\ e \in [1..n -> SessionRows(s)]
      /\ \A i \in 1..n : e[i].sequence = i - 1
      /\ \A r \in SessionRows(s) : r.sequence \in 0..(n - 1) /\ r = e[r.sequence + 1]
  BY DEF IsLog
<1>2. ListEvents(s) = e
  <2>1. Cardinality(SessionRows(s)) = n
    <3>1. {q \in SessionRows(s) : q.sequence < n} = SessionRows(s)
      BY <1>1
    <3>2. Cardinality({q \in SessionRows(s) : q.sequence < n}) = n
      BY <1>1, RowsBelow
    <3> QED BY <3>1, <3>2
  <2>2. ASSUME NEW i \in 1..n
        PROVE  (CHOOSE r \in SessionRows(s) :
                  Cardinality({q \in SessionRows(s) : q.sequence < r.sequence}) = i - 1)
                = e[i]
    <3> DEFINE P(r) ==
          Cardinality({q \in SessionRows(s) : q.sequence < r.sequence}) = i - 1
    <3>1. \A r \in SessionRows(s) :
            Cardinality({q \in SessionRows(s) : q.sequence < r.sequence}) = r.sequence
      <4> SUFFICES ASSUME NEW r \in SessionRows(s)
                   PROVE  Cardinality({q \in SessionRows(s) : q.sequence < r.sequence})
                            = r.sequence
        OBVIOUS
      <4>1. r.sequence \in 0..n
        BY <1>1
      <4> QED BY <4>1, RowsBelow
    <3>2. e[i] \in SessionRows(s) /\ P(e[i])
      BY <1>1, <3>1
    <3>3. \A r \in SessionRows(s) : P(r) => r = e[i]
      <4> SUFFICES ASSUME NEW r \in SessionRows(s), P(r) PROVE r = e[i]
        OBVIOUS
      <4>1. r.sequence = i - 1
        BY <3>1
      <4>2. r.sequence + 1 = i
        BY <4>1
      <4> QED BY <1>1, <4>2
    <3> HIDE DEF P
    <3>4. (CHOOSE r \in SessionRows(s) : P(r)) = e[i]
      BY <3>2, <3>3
    <3> QED BY <3>4 DEF P
  <2>3. ListEvents(s) = [i \in 1..n |-> e[i]]
    BY <2>1, <2>2 DEF ListEvents
  <2> QED BY <1>1, <2>3
<1>3. CASE n = 0
  <2>1. SessionRows(s) = {}
    BY <1>1, <1>3
  <2> QED BY <1>2, <1>3, <2>1 DEF NextSequence, LatestEvent
<1>4. CASE n # 0
  <2>1. n \in 1..n /\ e[n] \in SessionRows(s) /\ e[n].sequence = n - 1
    BY <1>1, <1>4
  <2>2. \A q \in SessionRows(s) : q.sequence <= e[n].sequence
    BY <1>1, <2>1
  <2>3. ASSUME NEW r \in SessionRows(s), \A q \in SessionRows(s) : q.sequence <= r.sequence
        PROVE  r = e[n]
    <3>1. r.sequence = n - 1
      BY <1>1, <2>1, <2>3
    <3>2. r.sequence + 1 = n
      BY <1>1, <3>1
    <3> QED BY <1>1, <3>2
  <2>4. (CHOOSE r \in SessionRows(s) :
           \A q \in SessionRows(s) : q.sequence <= r.sequence) = e[n]
    BY <2>1, <2>2, <2>3
  <2>5. SessionRows(s) # {} /\ n - 1 + 1 = n
    BY <1>1, <2>1
  <2>6. NextSequence(s) = e[n].sequence + 1
    BY <2>4, <2>5 DEF NextSequence
  <2>7. LatestEvent(s) = e[n].id
    BY <2>4, <2>5 DEF LatestEvent
  <2> QED BY <1>2, <1>4, <2>1, <2>5, <2>6, <2>7
<1> QED BY <1>3, <1>4
-----------------------------------------------------------------------------
(***************************************************************************)
(* The inductive invariant.                                                *)
(***************************************************************************)
TypeInv == /\ rows \subseteq StoredEvents
           /\ call \in [Connections -> Inputs \cup {NoInput}]
           /\ pc \in [Connections -> {"idle", "lookup", "insert", "committed"}]
           /\ row \in [Connections -> StoredEvents \cup {NoInput}]

\* The rows of every session are the entries of one hash chain.
LogsAreChains ==
  \A s \in Sessions : \E n, e : IsLog(s, n, e) /\ IsChain(n, e)

UniqueRows ==
  \A q, r \in rows :
    \/ q.id = r.id
    \/ q.session = r.session /\ q.key = r.key /\ q.key # NoKey
    => q = r

\* r is a row that the unique constraints admit and that ends its session's log.
Fits(r) ==
  /\ \A q \in rows : q.id # r.id
  /\ \A q \in rows : q.session = r.session /\ q.key = r.key => r.key = NoKey
  /\ \A s \in Sessions :
       s = r.session => r.sequence = NextSequence(s) /\ r.prev = LatestEvent(s)

\* A transaction between its BEGIN and its COMMIT holds the lock; what it has
\* read stays true, and what it has committed stays.
TransactionsHold ==
  \A c \in Connections :
    /\ pc[c] \in {"lookup", "insert"} => writer = c /\ call[c] \in Inputs
    /\ pc[c] = "insert" => \E r \in StoredEvents : row[c] = r /\ Fits(r)
    /\ pc[c] = "committed" => row[c] \in rows

Inv == TypeInv /\ LogsAreChains /\ UniqueRows /\ TransactionsHold /\ acked \subseteq rows

LEMMA InitInv == Init => Inv
<1> SUFFICES ASSUME Init PROVE Inv
  OBVIOUS
<1> USE DEF Init
<1>1. TypeInv
  BY DEF TypeInv
<1>2. LogsAreChains
  <2> SUFFICES ASSUME NEW s \in Sessions PROVE \E n, e : IsLog(s, n, e) /\ IsChain(n, e)
    BY DEF LogsAreChains
  <2>1. SessionRows(s) = {}
    BY DEF SessionRows
  <2>2. 1..0 = {}
    OBVIOUS
  <2>3. IsLog(s, 0, [i \in {} |-> NoEvent])
    BY <2>1, <2>2 DEF IsLog
  <2>4. IsChain(0, [i \in {} |-> NoEvent])
    BY <2>2 DEF IsChain
  <2> QED BY <2>3, <2>4
<1>3. UniqueRows
  BY DEF UniqueRows
<1>4. TransactionsHold
  BY DEF TransactionsHold
<1> QED BY <1>1, <1>2, <1>3, <1>4 DEF Inv

\* A log has one length and one sequence of entries.
LEMMA LogIsListed ==
  ASSUME NEW s \in Sessions, LogsAreChains
  PROVE  /\ IsLog(s, NextSequence(s), ListEvents(s))
         /\ IsChain(NextSequence(s), ListEvents(s))
<1>1. PICK n, e : IsLog(s, n, e) /\ IsChain(n, e)
  BY DEF LogsAreChains
<1>2. ListEvents(s) = e /\ NextSequence(s) = n
  BY <1>1, QueriesRead DEF QueriesReadLog
<1> QED BY <1>1, <1>2

\* Steps that commit nothing leave every query's answer as it is.
LEMMA SameRows ==
  ASSUME rows' = rows, LogsAreChains
  PROVE  /\ LogsAreChains'
         /\ UniqueRows => UniqueRows'
         /\ \A r : Fits(r) => Fits(r)'
         /\ \A s \in Sessions : ListEvents(s)' = ListEvents(s)
<1>1. \A s : SessionRows(s)' = SessionRows(s)
  BY DEF SessionRows
<1>2. \A s, n, e : IsLog(s, n, e) => IsLog(s, n, e)'
  BY <1>1 DEF IsLog
<1>3. LogsAreChains'
  <2> SUFFICES ASSUME NEW s \in Sessions
               PROVE  \E n, e : IsLog(s, n, e)' /\ IsChain(n, e)
    BY DEF LogsAreChains, IsChain
  <2>1. PICK n, e : IsLog(s, n, e) /\ IsChain(n, e)
    BY DEF LogsAreChains
  <2> QED BY <1>2, <2>1
<1>4. QueriesReadLog /\ QueriesReadLog'
  BY QueriesRead, PTL
<1>5. \A s \in Sessions : /\ ListEvents(s)' = ListEvents(s)
                          /\ NextSequence(s)' = NextSequence(s)
                          /\ LatestEvent(s)' = LatestEvent(s)
  <2> SUFFICES ASSUME NEW s \in Sessions
               PROVE  /\ ListEvents(s)' = ListEvents(s)
                      /\ NextSequence(s)' = NextSequence(s)
                      /\ LatestEvent(s)' = LatestEvent(s)
    OBVIOUS
  <2>1. PICK n, e : IsLog(s, n, e)
    BY DEF LogsAreChains
  <2>2. IsLog(s, n, e)'
    BY <1>2, <2>1
  <2> QED BY <1>4, <2>1, <2>2 DEF QueriesReadLog
<1>6. UniqueRows => UniqueRows'
  BY DEF UniqueRows
<1>7. \A r : Fits(r) => Fits(r)'
  BY <1>5 DEF Fits
<1> QED BY <1>3, <1>5, <1>6, <1>7
\* The commit of a row that fits appends it to the log of its session.
LEMMA InsertExtends ==
  ASSUME LogsAreChains, UniqueRows, NEW r \in StoredEvents, Fits(r),
         rows' = rows \cup {r}
  PROVE  /\ LogsAreChains'
         /\ UniqueRows'
         /\ \A s \in Sessions :
              /\ NextSequence(s) \in 0..NextSequence(s)'
              /\ \A i \in 1..NextSequence(s) : ListEvents(s)'[i] = ListEvents(s)[i]
<1>1. QueriesReadLog /\ QueriesReadLog'
  BY QueriesRead, PTL
<1>2. ASSUME NEW s \in Sessions, NEW n, NEW e, IsLog(s, n, e), IsChain(n, e)
      PROVE  \E m, f : /\ IsLog(s, m, f)' /\ IsChain(m, f)'
                       /\ m \in Nat /\ n <= m
                       /\ \A i \in 1..n : f[i] = e[i]
  <2>1. n \in Nat
    BY <1>2 DEF IsLog
  <2>2. CASE s # r.session
    <3>1. SessionRows(s)' = SessionRows(s)
      BY <2>2 DEF SessionRows
    <3>2. IsLog(s, n, e)' /\ IsChain(n, e)'
      BY <1>2, <3>1 DEF IsLog, IsChain
    <3> QED BY <2>1, <3>2
  <2>3. CASE s = r.session
    <3> DEFINE f == [i \in 1..(n + 1) |-> IF i = n + 1 THEN r ELSE e[i]]
    <3>1. SessionRows(s)' = SessionRows(s) \cup {r}
      BY <2>3 DEF SessionRows
    <3>2. r.sequence = n /\ r.prev = IF n = 0 THEN NoEvent ELSE e[n].id
      BY <1>1, <1>2, <2>3 DEF Fits, QueriesReadLog
    <3>3. /\ e \in [1..n -> SessionRows(s)]
          /\ \A i \in 1..n : e[i].sequence = i - 1
          /\ \A q \in SessionRows(s) : q.sequence \in 0..(n - 1) /\ q = e[q.sequence + 1]
      BY <1>2 DEF IsLog
    <3>4. f[n + 1] = r /\ \A i \in 1..n : f[i] = e[i]
      BY <2>1
    <3>5. f \in [1..(n + 1) -> SessionRows(s) \cup {r}]
      BY <2>1, <3>3
    <3> HIDE DEF f
    <3>6. \A i \in 1..(n + 1) : f[i].sequence = i - 1
      BY <2>1, <3>2, <3>3, <3>4
    <3>7. \A q \in SessionRows(s) \cup {r} :
            q.sequence \in 0..(n + 1 - 1) /\ q = f[q.sequence + 1]
      <4>1. r.sequence \in 0..(n + 1 - 1) /\ r = f[r.sequence + 1]
        BY <2>1, <3>2, <3>4
      <4>2. ASSUME NEW q \in SessionRows(s)
            PROVE  q.sequence \in 0..(n + 1 - 1) /\ q = f[q.sequence + 1]
        <5>1. q.sequence \in 0..(n - 1) /\ q = e[q.sequence + 1]
          BY <3>3
        <5>2. q.sequence + 1 \in 1..n
          BY <2>1, <5>1
        <5> QED BY <2>1, <3>4, <5>1, <5>2
      <4> QED BY <4>1, <4>2
    <3>8. IsLog(s, n + 1, f)'
      BY <2>1, <3>1, <3>5, <3>6, <3>7 DEF IsLog
    <3>9. IsChain(n + 1, f)'
      <4> SUFFICES ASSUME NEW i \in 1..(n + 1)
                   PROVE  f[i].prev = IF i = 1 THEN NoEvent ELSE f[i - 1].id
        BY DEF IsChain
      <4>1. CASE i = n + 1
        <5>1. n # 0 => n \in 1..n
          BY <2>1
        <5> QED BY <2>1, <3>2, <3>4, <4>1, <5>1
      <4>2. CASE i # n + 1
        <5>1. i \in 1..n /\ (i # 1 => i - 1 \in 1..n)
          BY <2>1, <4>2
        <5>2. e[i].prev = IF i = 1 THEN NoEvent ELSE e[i - 1].id
          BY <1>2, <5>1 DEF IsChain
        <5> QED BY <3>4, <5>1, <5>2
      <4> QED BY <4>1, <4>2
    <3> QED BY <2>1, <3>4, <3>8, <3>9
  <2> QED BY <2>2, <2>3
<1>3. LogsAreChains'
  BY <1>2 DEF LogsAreChains
<1>4. UniqueRows'
  BY DEF UniqueRows, Fits
<1>5. ASSUME NEW s \in Sessions
      PROVE  /\ NextSequence(s) \in 0..NextSequence(s)'
             /\ \A i \in 1..NextSequence(s) : ListEvents(s)'[i] = ListEvents(s)[i]
  <2>1. PICK n, e : IsLog(s, n, e) /\ IsChain(n, e)
    BY DEF LogsAreChains
  <2>2. PICK m, f : /\ IsLog(s, m, f)' /\ m \in Nat /\ n <= m
                    /\ \A i \in 1..n : f[i] = e[i]
    BY <1>2, <2>1
  <2>3. ListEvents(s) = e /\ NextSequence(s) = n
    BY <1>1, <2>1 DEF QueriesReadLog
  <2>4. ListEvents(s)' = f /\ NextSequence(s)' = m
    BY <1>1, <2>2 DEF QueriesReadLog
  <2>5. n \in Nat
    BY <2>1 DEF IsLog
  <2> QED BY <2>2, <2>3, <2>4, <2>5
<1> QED BY <1>3, <1>4, <1>5
-----------------------------------------------------------------------------
(***************************************************************************)
(* Every step preserves the invariant.                                     *)
(***************************************************************************)
\* The end of a call, whatever it acknowledges.
LEMMA EndCallInv ==
  ASSUME Inv, NEW c \in Connections, pc[c] # "idle", EndCall(c), rows' = rows,
         acked' \subseteq rows
  PROVE  Inv'
<1> USE DEF Inv
<1>1. LogsAreChains' /\ UniqueRows' /\ \A r : Fits(r) => Fits(r)'
  BY SameRows
<1>2. TypeInv'
  BY DEF TypeInv, EndCall
<1>3. TransactionsHold'
  <2> SUFFICES ASSUME NEW d \in Connections
               PROVE  /\ pc'[d] \in {"lookup", "insert"} => writer' = d /\ call'[d] \in Inputs
                      /\ pc'[d] = "insert" => \E r \in StoredEvents : row'[d] = r /\ Fits(r)'
                      /\ pc'[d] = "committed" => row'[d] \in rows'
    BY DEF TransactionsHold
  <2>1. CASE d = c
    BY <2>1 DEF TypeInv, EndCall
  <2>2. CASE d # c
    <3>1. pc'[d] = pc[d] /\ call'[d] = call[d] /\ row'[d] = row[d]
      BY <2>2 DEF TypeInv, EndCall
    <3>2. writer = d => writer' = d
      BY <2>2 DEF EndCall
    <3> QED BY <1>1, <3>1, <3>2 DEF TransactionsHold
  <2> QED BY <2>1, <2>2
<1> QED BY <1>1, <1>2, <1>3

LEMMA NextInv ==
  ASSUME Assumptions, Inv, [Next]_vars
  PROVE  Inv'
<1> USE DEF Inv, Assumptions
<1>1. CASE UNCHANGED vars
  <2>1. LogsAreChains' /\ UniqueRows' /\ \A r : Fits(r) => Fits(r)'
    BY <1>1, SameRows DEF vars
  <2>2. TypeInv' /\ acked' \subseteq rows'
    BY <1>1 DEF TypeInv, vars
  <2>3. TransactionsHold'
    BY <1>1, <2>1 DEF TransactionsHold, vars
  <2> QED BY <2>1, <2>2, <2>3
<1>2. ASSUME NEW c \in Connections, NEW input \in Inputs, BeginImmediate(c, input)
      PROVE  Inv'
  <2>1. LogsAreChains' /\ UniqueRows' /\ \A r : Fits(r) => Fits(r)'
    BY <1>2, SameRows DEF BeginImmediate
  <2>2. TypeInv' /\ acked' \subseteq rows'
    BY <1>2 DEF BeginImmediate, TypeInv
  <2>3. TransactionsHold'
    <3> SUFFICES ASSUME NEW d \in Connections
                 PROVE  /\ pc'[d] \in {"lookup", "insert"} => writer' = d /\ call'[d] \in Inputs
                        /\ pc'[d] = "insert" => \E r \in StoredEvents : row'[d] = r /\ Fits(r)'
                        /\ pc'[d] = "committed" => row'[d] \in rows'
      BY DEF TransactionsHold
    <3>1. CASE d = c
      BY <1>2, <3>1 DEF BeginImmediate, TypeInv
    <3>2. CASE d # c
      <4>1. pc'[d] = pc[d] /\ call'[d] = call[d] /\ row'[d] = row[d] /\ rows' = rows
        BY <1>2, <3>2 DEF BeginImmediate, TypeInv
      <4>2. pc[d] \notin {"lookup", "insert"}
        BY <1>2 DEF BeginImmediate, TransactionsHold
      <4> QED BY <4>1, <4>2 DEF TransactionsHold
    <3> QED BY <3>1, <3>2
  <2> QED BY <2>1, <2>2, <2>3
<1>3. ASSUME NEW c \in Connections, FindKey(c)
      PROVE  Inv'
  <2> DEFINE s == call[c].session
             events == ListEvents(s)
             i == ReturnedEvent(events, call[c])
  <2>1. call[c] \in Inputs /\ s \in Sessions
    BY <1>3 DEF FindKey, TransactionsHold, Inputs
  <2>2. IsReplay(events, call[c]) => events[i] \in rows
    <3> SUFFICES ASSUME IsReplay(events, call[c]) PROVE events[i] \in rows
      OBVIOUS
    <3>1. i \in DOMAIN events
      BY <1>3 DEF FindKey, ReturnedEvent, IsReplay, Replays, KeyHolders
    <3>2. IsLog(s, NextSequence(s), events)
      BY <2>1, LogIsListed
    <3>3. events[i] \in SessionRows(s)
      BY <3>1, <3>2 DEF IsLog
    <3> QED BY <3>3 DEF SessionRows
  <2>3. acked' \subseteq rows
    BY <1>3, <2>2 DEF FindKey
  <2> QED BY <1>3, <2>3, EndCallInv DEF FindKey
<1>4. ASSUME NEW c \in Connections, RejectId(c)
      PROVE  Inv'
  BY <1>4, EndCallInv DEF RejectId
<1>5. ASSUME NEW c \in Connections, Stamp(c)
      PROVE  Inv'
  <2> DEFINE s == call[c].session
  <2>1. call[c] \in Inputs /\ s \in Sessions /\ rows' = rows
    BY <1>5 DEF Stamp, TransactionsHold, Inputs
  <2>2. LogsAreChains' /\ UniqueRows' /\ \A r : Fits(r) => Fits(r)'
    BY <2>1, SameRows
  <2>3. IsLog(s, NextSequence(s), ListEvents(s))
    BY <2>1, LogIsListed
  <2>4. Stamped(call[c]) \in StoredEvents
    <3>1. NextSequence(s) \in Nat
      BY <2>3 DEF IsLog
    <3>2. LatestEvent(s) \in Ids \cup {NoEvent}
      <4>1. LatestEvent(s) =
              IF NextSequence(s) = 0 THEN NoEvent ELSE ListEvents(s)[NextSequence(s)].id
        BY <2>1, <2>3, QueriesRead DEF QueriesReadLog
      <4>2. NextSequence(s) # 0 => ListEvents(s)[NextSequence(s)] \in SessionRows(s)
        BY <2>3, <3>1 DEF IsLog
      <4> QED BY <4>1, <4>2 DEF TypeInv, SessionRows, StoredEvents
    <3> QED BY <2>1, <3>1, <3>2 DEF Stamped, StoredEvents, Inputs
  <2>5. Fits(Stamped(call[c]))
    <3> DEFINE r == Stamped(call[c])
    <3>1. \A q \in rows : q.id # r.id
      BY <1>5 DEF Stamp, Stamped
    <3>2. ASSUME NEW q \in rows, q.session = r.session, q.key = r.key
          PROVE  r.key = NoKey
      <4>1. q \in SessionRows(s) /\ r.key = call[c].key
        BY <3>2 DEF SessionRows, Stamped
      <4>2. PICK i \in DOMAIN ListEvents(s) : ListEvents(s)[i] = q
        <5>1. q.sequence \in 0..(NextSequence(s) - 1) /\ q = ListEvents(s)[q.sequence + 1]
          BY <2>3, <4>1 DEF IsLog
        <5>2. q.sequence + 1 \in 1..NextSequence(s)
          BY <2>3, <5>1 DEF IsLog
        <5> QED BY <2>3, <5>1, <5>2 DEF IsLog
      <4> QED BY <1>5, <3>2, <4>1, <4>2 DEF Stamp, IsNew, KeyHolders
    <3>3. ASSUME NEW t \in Sessions, t = r.session
          PROVE  r.sequence = NextSequence(t) /\ r.prev = LatestEvent(t)
      BY <3>3 DEF Stamped
    <3> QED BY <3>1, <3>2, <3>3 DEF Fits
  <2>6. TypeInv' /\ acked' \subseteq rows'
    BY <1>5, <2>4 DEF Stamp, TypeInv
  <2>7. TransactionsHold'
    <3> SUFFICES ASSUME NEW d \in Connections
                 PROVE  /\ pc'[d] \in {"lookup", "insert"} => writer' = d /\ call'[d] \in Inputs
                        /\ pc'[d] = "insert" => \E r \in StoredEvents : row'[d] = r /\ Fits(r)'
                        /\ pc'[d] = "committed" => row'[d] \in rows'
      BY DEF TransactionsHold
    <3>1. CASE d = c
      <4>1. row'[d] = Stamped(call[c]) /\ pc'[d] = "insert"
        BY <1>5, <3>1 DEF Stamp, TypeInv
      <4>2. writer' = d /\ call'[d] \in Inputs
        BY <1>5, <3>1 DEF Stamp, TransactionsHold
      <4>3. PICK r : r = Stamped(call[c])
        OBVIOUS
      <4>4. r \in StoredEvents /\ Fits(r)'
        BY <2>2, <2>4, <2>5, <4>3
      <4> QED BY <4>1, <4>2, <4>3, <4>4
    <3>2. CASE d # c
      <4>1. /\ pc'[d] = pc[d] /\ call'[d] = call[d] /\ row'[d] = row[d]
            /\ rows' = rows /\ writer' = writer
        BY <1>5, <3>2 DEF Stamp, TypeInv
      <4> QED BY <2>2, <4>1 DEF TransactionsHold
    <3> QED BY <3>1, <3>2
  <2> QED BY <2>2, <2>6, <2>7
<1>6. ASSUME NEW c \in Connections, InsertAndCommit(c)
      PROVE  Inv'
  <2>1. row[c] \in StoredEvents /\ Fits(row[c]) /\ writer = c
    BY <1>6 DEF InsertAndCommit, TransactionsHold
  <2>2. LogsAreChains' /\ UniqueRows'
    BY <1>6, <2>1, InsertExtends DEF InsertAndCommit
  <2>3. TypeInv' /\ acked' \subseteq rows'
    BY <1>6, <2>1 DEF InsertAndCommit, TypeInv
  <2>4. TransactionsHold'
    <3> SUFFICES ASSUME NEW d \in Connections
                 PROVE  /\ pc'[d] \in {"lookup", "insert"} => writer' = d /\ call'[d] \in Inputs
                        /\ pc'[d] = "insert" => \E r \in StoredEvents : row'[d] = r /\ Fits(r)'
                        /\ pc'[d] = "committed" => row'[d] \in rows'
      BY DEF TransactionsHold
    <3>1. CASE d = c
      BY <1>6, <3>1 DEF InsertAndCommit, TypeInv
    <3>2. CASE d # c
      <4>1. pc'[d] = pc[d] /\ row'[d] = row[d] /\ rows \subseteq rows'
        BY <1>6, <3>2 DEF InsertAndCommit, TypeInv
      <4>2. pc[d] \notin {"lookup", "insert"}
        BY <2>1, <3>2 DEF TransactionsHold
      <4> QED BY <4>1, <4>2 DEF TransactionsHold
    <3> QED BY <3>1, <3>2
  <2> QED BY <2>2, <2>3, <2>4
<1>7. ASSUME NEW c \in Connections, ReturnEvent(c)
      PROVE  Inv'
  <2>1. acked' \subseteq rows
    BY <1>7 DEF ReturnEvent, TransactionsHold
  <2> QED BY <1>7, <2>1, EndCallInv DEF ReturnEvent
<1>8. ASSUME NEW c \in Connections, Crash(c)
      PROVE  Inv'
  BY <1>8, EndCallInv DEF Crash
<1> QED
  <2> HIDE DEF Inv
  <2> QED BY <1>1, <1>2, <1>3, <1>4, <1>5, <1>6, <1>7, <1>8 DEF Next
LEMMA InvAlways ==
  ASSUME Assumptions PROVE Spec => []Inv
<1>1. Init => Inv
  BY InitInv
<1>2. Inv /\ [Next]_vars => Inv'
  BY NextInv
<1> QED BY <1>1, <1>2, PTL DEF Spec

-----------------------------------------------------------------------------
(***************************************************************************)
(* What the invariant says of the store, and of the ledger.                *)
(***************************************************************************)
\* The rows behind an acknowledged event survive every crash.
THEOREM AcknowledgedStays ==
  ASSUME Assumptions PROVE Spec => []AckedDurable
<1>1. Inv => AckedDurable
  BY DEF Inv, AckedDurable
<1> QED BY <1>1, InvAlways, PTL

\* An admitted row breaks no constraint, and the logs are chains for their readers.
LEMMA InvKeepsChain == Inv => ChainIntact /\ InsertNeverCollides
<1>1. ASSUME Inv, NEW c \in Connections, pc[c] = "insert"
      PROVE  ~Collides(row[c])
  <2>1. PICK r \in StoredEvents : row[c] = r /\ Fits(r)
    BY <1>1 DEF Inv, TransactionsHold
  <2>2. r.session \in Sessions
    BY DEF StoredEvents
  <2>3. IsLog(r.session, NextSequence(r.session), ListEvents(r.session))
    BY <1>1, <2>2, LogIsListed DEF Inv
  <2>4. r.sequence = NextSequence(r.session)
    BY <2>1, <2>2 DEF Fits
  <2>5. ASSUME NEW q \in rows, q.session = r.session PROVE q.sequence # r.sequence
    <3>1. q \in SessionRows(r.session)
      BY <2>5 DEF SessionRows
    <3>2. NextSequence(r.session) \in Nat /\ q.sequence \in 0..(NextSequence(r.session) - 1)
      BY <2>3, <3>1 DEF IsLog
    <3> QED BY <2>4, <3>2
  <2> QED BY <2>1, <2>5 DEF Collides, Fits
<1>2. Inv => InsertNeverCollides
  BY <1>1 DEF InsertNeverCollides
<1>3. ASSUME Inv PROVE ChainIntact
  <2> SUFFICES ASSUME NEW s \in Sessions, NEW i \in DOMAIN ListEvents(s)
               PROVE  /\ ListEvents(s)[i].sequence = i - 1
                      /\ ListEvents(s)[i].prev =
                           IF i = 1 THEN NoEvent ELSE ListEvents(s)[i - 1].id
    BY DEF ChainIntact
  <2>1. IsLog(s, NextSequence(s), ListEvents(s)) /\ IsChain(NextSequence(s), ListEvents(s))
    BY <1>3, LogIsListed DEF Inv
  <2> QED BY <2>1 DEF IsLog, IsChain
<1> QED BY <1>2, <1>3

(***************************************************************************)
(* Whatever the other connections do between the steps of an append, its   *)
(* row breaks no constraint, and the rows of every session are a hash      *)
(* chain without gaps, in every state that a reader or a restart may see.  *)
(***************************************************************************)
THEOREM ChainStaysIntact ==
  ASSUME Assumptions PROVE Spec => [](ChainIntact /\ InsertNeverCollides)
BY InvKeepsChain, InvAlways, PTL

\* The mapped state is a ledger without repeated ids and keys.
MappedState == /\ Log \in [Sessions -> Seq(Inputs)]
               /\ \A s \in Sessions : Len(Log[s]) = NextSequence(s)
               /\ Ledger!Admissible(Log)

LEMMA MappedStateOK == Inv => MappedState
<1> SUFFICES ASSUME Inv PROVE MappedState
  OBVIOUS
<1>1. ASSUME NEW s \in Sessions
      PROVE  /\ NextSequence(s) \in Nat
             /\ Log[s] \in Seq(Inputs)
             /\ Len(Log[s]) = NextSequence(s)
             /\ DOMAIN Log[s] = 1..NextSequence(s)
             /\ \A i \in DOMAIN Log[s] : \E q \in rows :
                  /\ q.session = s /\ q.sequence = i - 1
                  /\ Log[s][i].id = q.id /\ Log[s][i].key = q.key
  <2> DEFINE n == NextSequence(s)
             e == ListEvents(s)
  <2>1. IsLog(s, n, e)
    BY LogIsListed DEF Inv
  <2>2. n \in Nat /\ e \in [1..n -> SessionRows(s)] /\ \A i \in 1..n : e[i].sequence = i - 1
    BY <2>1 DEF IsLog
  <2>3. Log[s] = [i \in 1..n |-> Unstamped(e[i])]
    BY <2>2 DEF Log
  <2>4. ASSUME NEW i \in 1..n
        PROVE  e[i] \in rows /\ e[i].session = s /\ Unstamped(e[i]) \in Inputs
    <3>1. e[i] \in rows /\ e[i].session = s /\ e[i] \in StoredEvents
      BY <2>2 DEF SessionRows, Inv, TypeInv
    <3> QED BY <3>1 DEF StoredEvents, Unstamped, Inputs
  <2>5. Log[s] \in [1..n -> Inputs]
    BY <2>3, <2>4
  <2>6. Log[s] \in Seq(Inputs) /\ Len(Log[s]) = n /\ DOMAIN Log[s] = 1..n
    BY <2>2, <2>5
  <2>7. \A i \in 1..n : Log[s][i].id = e[i].id /\ Log[s][i].key = e[i].key
    BY <2>3 DEF Unstamped
  <2> QED BY <2>2, <2>4, <2>6, <2>7
<1>2. Log \in [Sessions -> Seq(Inputs)]
  <2>1. DOMAIN Log = Sessions /\ Log = [s \in Sessions |-> Log[s]]
    BY DEF Log
  <2> QED BY <1>1, <2>1
<1>3. Ledger!UniqueIds(Log)
  <2> SUFFICES ASSUME NEW s \in Sessions, NEW t \in Sessions,
                      NEW i \in DOMAIN Log[s], NEW j \in DOMAIN Log[t],
                      Log[s][i].id = Log[t][j].id
               PROVE  s = t /\ i = j
    BY DEF Ledger!UniqueIds
  <2>1. PICK q \in rows : q.session = s /\ q.sequence = i - 1 /\ Log[s][i].id = q.id
    BY <1>1
  <2>2. PICK r \in rows : r.session = t /\ r.sequence = j - 1 /\ Log[t][j].id = r.id
    BY <1>1
  <2>3. q = r
    BY <2>1, <2>2 DEF Inv, UniqueRows
  <2>4. i \in Int /\ j \in Int
    BY <1>1
  <2> QED BY <2>1, <2>2, <2>3, <2>4
<1>4. ASSUME NEW s \in Sessions PROVE Ledger!OneEventPerKey(Log[s])
  <2> SUFFICES ASSUME NEW i \in DOMAIN Log[s], NEW j \in DOMAIN Log[s],
                      Log[s][i].key # NoKey, Log[s][i].key = Log[s][j].key
               PROVE  i = j
    BY DEF Ledger!OneEventPerKey
  <2>1. PICK q \in rows : q.session = s /\ q.sequence = i - 1 /\ Log[s][i].key = q.key
    BY <1>1
  <2>2. PICK r \in rows : r.session = s /\ r.sequence = j - 1 /\ Log[s][j].key = r.key
    BY <1>1
  <2>3. q = r
    BY <2>1, <2>2 DEF Inv, UniqueRows
  <2>4. i \in Int /\ j \in Int
    BY <1>1
  <2> QED BY <2>1, <2>2, <2>3, <2>4
<1> QED BY <1>1, <1>2, <1>3, <1>4 DEF MappedState, Ledger!Admissible

\* Every step of the store appends to the ledger or leaves it as it is.
LEMMA StepRefines ==
  ASSUME Inv, Inv', [Next]_vars
  PROVE  [Ledger!AppendEvents]_Log
<1>1. MappedState /\ MappedState'
  BY MappedStateOK, PTL
<1>2. LogsAreChains
  BY DEF Inv
<1>3. CASE rows' = rows
  <2>1. \A s \in Sessions : ListEvents(s)' = ListEvents(s)
    BY <1>2, <1>3, SameRows
  <2>2. Log' = Log
    BY <2>1 DEF Log
  <2> QED BY <2>2
<1>4. CASE rows' # rows
  <2>1. PICK c \in Connections : InsertAndCommit(c)
    BY <1>4 DEF Next, vars, BeginImmediate, FindKey, RejectId, Stamp, ReturnEvent, Crash
  <2>2. PICK r \in StoredEvents : row[c] = r /\ Fits(r)
    BY <2>1 DEF Inv, TransactionsHold, InsertAndCommit
  <2>3. rows' = rows \cup {r} /\ UniqueRows
    BY <2>1, <2>2 DEF InsertAndCommit, Inv
  <2>4. \A s \in Sessions :
          /\ NextSequence(s) \in 0..NextSequence(s)'
          /\ \A i \in 1..NextSequence(s) : ListEvents(s)'[i] = ListEvents(s)[i]
    BY <1>2, <2>2, <2>3, InsertExtends
  <2>5. ASSUME NEW s \in Sessions
        PROVE  Ledger!IsPrefix(Log[s], Log'[s])
    <3> DEFINE n == NextSequence(s)
               m == NextSequence(s)'
    <3>1. /\ Log[s] \in Seq(Inputs) /\ Len(Log[s]) = n
          /\ Log'[s] \in Seq(Inputs) /\ Len(Log'[s]) = m
      BY <1>1 DEF MappedState
    <3>2. n \in Nat /\ m \in Nat /\ n <= m
      BY <2>4, <3>1
    <3>3. ASSUME NEW i \in 1..n PROVE Log[s][i] = Log'[s][i]
      <4>1. i \in DOMAIN Log[s] /\ i \in DOMAIN Log'[s]
        BY <3>1, <3>2
      <4>2. Log[s][i] = Unstamped(ListEvents(s)[i])
        BY <4>1 DEF Log
      <4>3. Log'[s][i] = Unstamped(ListEvents(s)'[i])
        BY <4>1 DEF Log
      <4> QED BY <2>4, <4>2, <4>3
    <3>4. SubSeq(Log[s], 1, n) = SubSeq(Log'[s], 1, n)
      BY <3>1, <3>2, <3>3
    <3> QED BY <3>1, <3>2, <3>4 DEF Ledger!IsPrefix
  <2>6. Log' \in [Sessions -> Seq(Ledger!Inputs)] /\ Ledger!Admissible(Log')
    BY <1>1 DEF MappedState, Inputs, Ledger!Inputs
  <2> QED BY <2>5, <2>6 DEF Ledger!AppendEvents
<1> QED BY <1>3, <1>4

\* An empty database is an empty ledger.
LEMMA InitRefines == Init => Ledger!Init
<1> SUFFICES ASSUME Init PROVE Log = Ledger!EmptyLog
  BY DEF Ledger!Init
<1>1. Inv /\ \A s \in Sessions : SessionRows(s) = {}
  BY InitInv DEF Init, SessionRows
<1>2. ASSUME NEW s \in Sessions PROVE Log[s] = << >>
  <2>1. NextSequence(s) = 0 /\ Len(Log[s]) = NextSequence(s) /\ Log[s] \in Seq(Inputs)
    BY <1>1, MappedStateOK DEF NextSequence, MappedState
  <2> QED BY <2>1
<1> QED BY <1>2 DEF Log, Ledger!EmptyLog

\* The SQLite store implements the ledger that every store promises.
THEOREM StoreImplementsLedger ==
  ASSUME Assumptions PROVE Spec => ImplementsLedger
<1>1. Init => Ledger!Init
  BY InitRefines
<1>2. Inv /\ Inv' /\ [Next]_vars => [Ledger!AppendEvents]_Log
  BY StepRefines
<1> QED BY <1>1, <1>2, InvAlways, PTL DEF Spec, ImplementsLedger, Ledger!Spec
=============================================================================
