--------------------------- MODULE ReceiptsProofs ---------------------------
(***************************************************************************)
(* A command id is executed at most once, an outcome told is its own, and  *)
(* a result within the horizon is kept, for any number of goroutines,      *)
(* clients, ids and any cap and age.                                       *)
(*                                                                         *)
(* An execution is remembered as long as its client is: by its entry, or   *)
(* by its client's mark once the entry is evicted (Remembered).  A client  *)
(* is retired only when it holds no entry, which the table knows by its    *)
(* count (Counted), so an open reservation keeps its client, and a retired *)
(* client's number is never minted again.  Every pass of the table over    *)
(* its entries is one step of Keeps, and IInv is kept along Keeps.         *)
(***************************************************************************)
EXTENDS Receipts, FiniteSetTheorems, WellFoundedInduction, TLAPS

-----------------------------------------------------------------------------
(* The invariant *)

Shape(t) ==
  /\ t = [clientSeq |-> t.clientSeq, clients |-> t.clients, byKey |-> t.byKey, stores |-> t.stores]
  /\ t.clientSeq \in Nat /\ t.stores \in Nat
  /\ t.clients \in [DOMAIN t.clients -> ReceiptClient]
  /\ t.byKey \in [DOMAIN t.byKey -> Receipt]

Held(t, c) == {k \in DOMAIN t.byKey : k.client = c}

\* The table's count of a client's entries is their number.
Counted(t) == \A c \in DOMAIN t.clients : t.clients[c].entries = Cardinality(Held(t, c))

Table(t) ==
  /\ Shape(t)
  /\ DOMAIN t.clients \subseteq 1..t.clientSeq
  /\ DOMAIN t.byKey \subseteq Key /\ IsFiniteSet(DOMAIN t.byKey)
  /\ \A k \in DOMAIN t.byKey : k.client \in DOMAIN t.clients
  /\ Counted(t)

OpenIn(t, k) == k \in DOMAIN t.byKey /\ ~t.byKey[k].completed

\* The table knows that k is over, or will never admit its client again.
Over(t, k) ==
  /\ k.client <= t.clientSeq
  /\ k.client \in DOMAIN t.clients =>
       \/ k \in Completed(t)
       \/ k \notin DOMAIN t.byKey /\ k.id <= t.clients[k.client].mark

Remembered(t, r) == \A k \in Key : r[k].count \in {0, 1} /\ (r[k].count = 1 => Over(t, k))

Runs(cs, g, k) == cs[g].phase = "running" /\ cs[g].key = k

\* A running call owns an open reservation, alone, whose id has not run.
Owned(t, cs, r) ==
  \A g \in Calls : cs[g].phase = "running" =>
    /\ cs[g].key \in Key /\ cs[g].payload \in Payloads
    /\ OpenIn(t, cs[g].key) /\ r[cs[g].key].count = 0
    /\ \A h \in Calls \ {g} : ~Runs(cs, h, cs[g].key)

IInv ==
  /\ now \in Nat
  /\ Table(rt)
  /\ DOMAIN calls = Calls /\ DOMAIN ran = Key
  /\ Remembered(rt, ran)
  /\ Owned(rt, calls, ran)

\* What a pass over the entries may do: only completed ones leave, and their
\* ids are at or below the mark of a client that stays.
Keeps(t, u) ==
  /\ u.clientSeq = t.clientSeq
  /\ DOMAIN u.clients \subseteq DOMAIN t.clients
  /\ \A c \in DOMAIN u.clients : t.clients[c].mark <= u.clients[c].mark
  /\ DOMAIN u.byKey \subseteq DOMAIN t.byKey
  /\ \A k \in DOMAIN u.byKey : u.byKey[k] = t.byKey[k]
  /\ \A k \in DOMAIN t.byKey \ DOMAIN u.byKey :
       /\ t.byKey[k].completed
       /\ k.client \in DOMAIN u.clients => k.id <= u.clients[k.client].mark

-----------------------------------------------------------------------------
(* Marks *)

\* The greatest of finitely many numbers: among the sets of those above each,
\* one is minimal, and it is empty.
LEMMA Greatest ==
  ASSUME NEW S \in SUBSET Nat, S # {}, IsFiniteSet(S)
  PROVE  Max(S) \in S /\ \A y \in S : y <= Max(S)
  <1> DEFINE Above(x) == {y \in S : y > x}
             Families == {Above(x) : x \in S}
  <1>1. \A x \in S : IsFiniteSet(Above(x)) /\ Above(x) \in SUBSET Nat
    <2> TAKE x \in S
    <2>1. Above(x) \in SUBSET S
      OBVIOUS
    <2> QED BY <2>1, FS_Subset
  <1>2. Families \subseteq FiniteSubsetsOf(Nat) /\ Families # {}
    BY <1>1 DEF FiniteSubsetsOf
  <1>3. PICK F \in Families : \A G \in Families : <<G, F>> \notin StrictSubsetOrdering(Nat)
    <2> HIDE DEF Families
    <2> QED BY <1>2, WFMin, FS_StrictSubsetOrderingWellFounded
  <1>4. PICK x \in S : F = Above(x)
    BY <1>3
  <1>5. \A y \in S : y <= x
    <2> SUFFICES ASSUME NEW y \in S, y > x PROVE FALSE
      OBVIOUS
    <2>1. \A z \in S : z > y => z > x
      OBVIOUS
    <2>2. Above(y) \subseteq Above(x)
      BY <2>1
    <2>3. y \in Above(x) /\ y \notin Above(y)
      OBVIOUS
    <2>4. <<Above(y), Above(x)>> \in StrictSubsetOrdering(Nat)
      <3> HIDE DEF Above
      <3> QED BY <2>2, <2>3, <1>1 DEF StrictSubsetOrdering
    <2> QED BY <2>4, <1>3, <1>4
  <1>6. \E z \in S : \A y \in S : z >= y
    BY <1>5
  <1> QED BY <1>6 DEF Max

\* What the mark becomes: no lower, and at or above every evicted id.
LEMMA NewMark ==
  ASSUME NEW m \in Nat, NEW keys \in SUBSET Key, NEW c
  PROVE  LET n == Max({m} \cup IdsOf(c, keys))
         IN  n \in Nat /\ m <= n /\ \A k \in keys : k.client = c => k.id <= n
  <1> DEFINE S == {m} \cup IdsOf(c, keys)
  <1>1. IdsOf(c, keys) \in SUBSET (1..MaxId)
    BY DEF IdsOf, Key
  <1>2. MaxId \in Int
    BY ReceiptsAssumption DEF ReceiptsAssumption
  <1>3. IsFiniteSet(1..MaxId)
    BY <1>2, FS_Interval
  <1>4. IsFiniteSet(S)
    <2>1. IsFiniteSet(IdsOf(c, keys))
      BY <1>1, <1>3, FS_Subset
    <2>2. S = IdsOf(c, keys) \cup {m}
      OBVIOUS
    <2> QED BY <2>1, <2>2, FS_AddElement
  <1>5. S \in SUBSET Nat /\ m \in S
    BY <1>1
  <1>6. \A k \in keys : k.client = c => k.id \in S
    BY DEF IdsOf
  <1> HIDE DEF S
  <1>7. Max(S) \in S /\ \A y \in S : y <= Max(S)
    BY <1>4, <1>5, Greatest
  <1> QED BY <1>5, <1>6, <1>7 DEF S

-----------------------------------------------------------------------------
(* The table *)

LEMMA DroppedTable ==
  ASSUME NEW t, Table(t), NEW keys \in SUBSET DOMAIN t.byKey
  PROVE  LET u == Dropped(t, keys)
         IN  /\ Table(u)
             /\ u.clientSeq = t.clientSeq /\ u.stores = t.stores
             /\ DOMAIN u.clients = DOMAIN t.clients
             /\ \A c \in DOMAIN u.clients : u.clients[c].mark = t.clients[c].mark
             /\ DOMAIN u.byKey = DOMAIN t.byKey \ keys
             /\ \A k \in DOMAIN u.byKey : u.byKey[k] = t.byKey[k]
  <1> DEFINE u == Dropped(t, keys)
             gone(c) == {k \in keys \cap DOMAIN t.byKey : k.client = c}
             clients == [c \in DOMAIN t.clients |-> [t.clients[c] EXCEPT !.entries = @ - Cardinality(gone(c))]]
             byKey == Restrict(t.byKey, DOMAIN t.byKey \ keys)
  <1>1. u = [clientSeq |-> t.clientSeq, clients |-> clients, byKey |-> byKey, stores |-> t.stores]
    <2> HIDE DEF clients, byKey
    <2>1. u = [t EXCEPT !.byKey = byKey, !.clients = clients]
      BY DEF Dropped, clients, byKey
    <2>2. t = [clientSeq |-> t.clientSeq, clients |-> t.clients, byKey |-> t.byKey, stores |-> t.stores]
      BY DEF Table, Shape
    <2> QED BY <2>1, <2>2
  <1>2. u.clientSeq = t.clientSeq /\ u.clients = clients /\ u.byKey = byKey /\ u.stores = t.stores
    BY <1>1
  <1>3. DOMAIN byKey = DOMAIN t.byKey \ keys /\ \A k \in DOMAIN byKey : byKey[k] = t.byKey[k]
    BY DEF Restrict
  <1>4. byKey \in [DOMAIN byKey -> Receipt]
    BY DEF Restrict, Table, Shape
  <1>5. IsFiniteSet(DOMAIN byKey)
    BY <1>3, FS_Difference DEF Table
  <1>6. \A c \in DOMAIN t.clients :
          /\ Cardinality(Held(u, c)) \in Nat
          /\ t.clients[c].entries - Cardinality(gone(c)) = Cardinality(Held(u, c))
    <2> TAKE c \in DOMAIN t.clients
    <2>1. Held(t, c) \in SUBSET DOMAIN t.byKey /\ Held(u, c) = Held(t, c) \ keys
      BY <1>2, <1>3 DEF Held
    <2>2. gone(c) = Held(t, c) \cap keys
      BY DEF Held
    <2>3. IsFiniteSet(Held(t, c))
      BY <2>1, FS_Subset DEF Table
    <2>4. IsFiniteSet(Held(u, c)) /\ Cardinality(Held(u, c)) = Cardinality(Held(t, c)) - Cardinality(gone(c))
      <3>1. /\ IsFiniteSet(Held(t, c) \ keys)
            /\ Cardinality(Held(t, c) \ keys)
                 = Cardinality(Held(t, c)) - Cardinality(Held(t, c) \cap keys)
        BY <2>3, FS_Difference
      <3>2. QED
        BY <2>1, <2>2, <3>1
    <2>5. Cardinality(Held(u, c)) \in Nat
      BY <2>4, FS_CardinalityType
    <2> QED BY <2>4, <2>5 DEF Table, Counted
  <1>7. \A c \in DOMAIN t.clients :
          /\ t.clients[c] \in ReceiptClient /\ clients[c] \in ReceiptClient
          /\ clients[c].mark = t.clients[c].mark
          /\ clients[c].entries = Cardinality(Held(u, c))
    <2> HIDE DEF u, gone
    <2> TAKE c \in DOMAIN t.clients
    <2>1. t.clients[c] \in ReceiptClient
      BY DEF Table, Shape
    <2>2. clients[c] = [t.clients[c] EXCEPT !.entries = t.clients[c].entries - Cardinality(gone(c))]
      OBVIOUS
    <2>3. clients[c] = [t.clients[c] EXCEPT !.entries = Cardinality(Held(u, c))]
      BY <1>6, <2>2
    <2>4. Cardinality(Held(u, c)) \in Nat
      BY <1>6
    <2> QED BY <2>1, <2>3, <2>4 DEF ReceiptClient
  <1>8. DOMAIN clients = DOMAIN t.clients /\ clients \in [DOMAIN clients -> ReceiptClient]
    <2>1. DOMAIN clients = DOMAIN t.clients
      OBVIOUS
    <2> QED BY <1>7, <2>1
  <1> HIDE DEF clients, byKey, u
  <1>9. Shape(u)
    BY <1>1, <1>2, <1>4, <1>8 DEF Table, Shape
  <1>10. Counted(u)
    BY <1>2, <1>7, <1>8 DEF Counted
  <1>11. Table(u)
    BY <1>2, <1>3, <1>5, <1>8, <1>9, <1>10 DEF Table
  <1> QED BY <1>2, <1>3, <1>7, <1>8, <1>11 DEF u

LEMMA MarkedTable ==
  ASSUME NEW t, Table(t), NEW keys \in SUBSET Key
  PROVE  LET u == Marked(t, keys)
         IN  /\ Table(u)
             /\ u.clientSeq = t.clientSeq /\ u.stores = t.stores
             /\ DOMAIN u.clients = DOMAIN t.clients
             /\ \A c \in DOMAIN u.clients :
                  /\ t.clients[c].mark <= u.clients[c].mark
                  /\ \A k \in keys : k.client = c => k.id <= u.clients[c].mark
             /\ u.byKey = t.byKey
  <1> DEFINE u == Marked(t, keys)
             mark(c) == Max({t.clients[c].mark} \cup IdsOf(c, keys))
             clients == [c \in DOMAIN t.clients |-> [t.clients[c] EXCEPT !.mark = mark(c)]]
  <1>1. u = [clientSeq |-> t.clientSeq, clients |-> clients, byKey |-> t.byKey, stores |-> t.stores]
    <2>1. u = [t EXCEPT !.clients = clients]
      BY DEF Marked
    <2>2. t = [clientSeq |-> t.clientSeq, clients |-> t.clients, byKey |-> t.byKey, stores |-> t.stores]
      BY DEF Table, Shape
    <2> HIDE DEF clients, u
    <2> QED BY <2>1, <2>2
  <1>2. u.clientSeq = t.clientSeq /\ u.clients = clients /\ u.byKey = t.byKey /\ u.stores = t.stores
    BY <1>1
  <1>3. \A c \in DOMAIN t.clients :
          /\ clients[c] \in ReceiptClient
          /\ clients[c].entries = t.clients[c].entries
          /\ t.clients[c].mark <= clients[c].mark
          /\ \A k \in keys : k.client = c => k.id <= clients[c].mark
    <2> TAKE c \in DOMAIN t.clients
    <2>1. t.clients[c] \in ReceiptClient /\ t.clients[c].mark \in Nat
      BY DEF Table, Shape, ReceiptClient
    <2>2. mark(c) \in Nat /\ t.clients[c].mark <= mark(c) /\ \A k \in keys : k.client = c => k.id <= mark(c)
      BY <2>1, NewMark
    <2> HIDE DEF mark
    <2>3. clients[c] = [t.clients[c] EXCEPT !.mark = mark(c)]
      OBVIOUS
    <2>4. clients[c] \in ReceiptClient /\ clients[c].mark = mark(c) /\ clients[c].entries = t.clients[c].entries
      BY <2>1, <2>2, <2>3 DEF ReceiptClient
    <2> QED BY <2>2, <2>4
  <1>4. DOMAIN clients = DOMAIN t.clients
    OBVIOUS
  <1>5. clients \in [DOMAIN clients -> ReceiptClient]
    BY <1>3, <1>4
  <1> HIDE DEF clients, u
  <1>6. Shape(u)
    BY <1>1, <1>2, <1>5 DEF Table, Shape
  <1>7. Counted(u)
    <2>1. \A c : Held(u, c) = Held(t, c)
      BY <1>2 DEF Held
    <2> QED BY <1>2, <1>3, <1>4, <2>1 DEF Counted, Table
  <1>8. Table(u)
    BY <1>2, <1>4, <1>6, <1>7 DEF Table
  <1> QED BY <1>2, <1>3, <1>4, <1>8 DEF u

LEMMA EvictedTable ==
  ASSUME NEW t, Table(t), NEW keys \in SUBSET Completed(t)
  PROVE  LET u == Evicted(t, keys)
         IN  /\ Table(u) /\ Keeps(t, u) /\ u.stores = t.stores
             /\ DOMAIN u.byKey = DOMAIN t.byKey \ keys
  <1> DEFINE d == Dropped(t, keys)
             u == Marked(d, keys)
  <1>1. keys \in SUBSET DOMAIN t.byKey /\ keys \in SUBSET Key
    BY DEF Completed, Table
  <1>2. /\ Table(d)
        /\ d.clientSeq = t.clientSeq /\ d.stores = t.stores
        /\ DOMAIN d.clients = DOMAIN t.clients
        /\ \A c \in DOMAIN d.clients : d.clients[c].mark = t.clients[c].mark
        /\ DOMAIN d.byKey = DOMAIN t.byKey \ keys
        /\ \A k \in DOMAIN d.byKey : d.byKey[k] = t.byKey[k]
    BY <1>1, DroppedTable
  <1> HIDE DEF d
  <1>3. /\ Table(u)
        /\ u.clientSeq = d.clientSeq /\ u.stores = d.stores
        /\ DOMAIN u.clients = DOMAIN d.clients
        /\ \A c \in DOMAIN u.clients :
             /\ d.clients[c].mark <= u.clients[c].mark
             /\ \A k \in keys : k.client = c => k.id <= u.clients[c].mark
        /\ u.byKey = d.byKey
    BY <1>1, <1>2, MarkedTable
  <1> HIDE DEF u
  <1>4. Keeps(t, u)
    BY <1>2, <1>3 DEF Keeps, Completed
  <1>5. u.stores = t.stores /\ DOMAIN u.byKey = DOMAIN t.byKey \ keys
    BY <1>2, <1>3
  <1> QED BY <1>3, <1>4, <1>5 DEF Evicted, d, u

LEMMA KeepsTransitive ==
  ASSUME NEW t, Table(t), NEW u, Table(u), NEW v, Table(v), Keeps(t, u), Keeps(u, v)
  PROVE  Keeps(t, v)
  <1>1. /\ \A c \in DOMAIN t.clients : t.clients[c].mark \in Nat
        /\ \A c \in DOMAIN u.clients : u.clients[c].mark \in Nat
        /\ \A c \in DOMAIN v.clients : v.clients[c].mark \in Nat
        /\ \A k \in DOMAIN t.byKey : k.id \in Nat
    BY DEF Table, Shape, ReceiptClient, Key
  <1>2. \A c \in DOMAIN v.clients : t.clients[c].mark <= v.clients[c].mark
    BY <1>1 DEF Keeps
  <1>3. ASSUME NEW k \in DOMAIN t.byKey \ DOMAIN v.byKey
        PROVE  /\ t.byKey[k].completed
               /\ k.client \in DOMAIN v.clients => k.id <= v.clients[k.client].mark
    <2>1. CASE k \in DOMAIN u.byKey
      BY <2>1, <1>3 DEF Keeps
    <2>2. CASE k \notin DOMAIN u.byKey
      BY <2>2, <1>1, <1>3 DEF Keeps
    <2> QED BY <2>1, <2>2
  <1> QED BY <1>2, <1>3 DEF Keeps

LEMMA EvictAgedTable ==
  ASSUME NEW t, Table(t)
  PROVE  LET v == EvictAged(t)
         IN  /\ Table(v) /\ Keeps(t, v) /\ v.stores = t.stores
             /\ DOMAIN v.byKey = DOMAIN t.byKey \ Aged(t)
  <1> DEFINE u == Evicted(t, Aged(t))
             clients == Restrict(u.clients, DOMAIN u.clients \ Retired(u))
             v == [u EXCEPT !.clients = clients]
  <1>1. /\ Table(u) /\ Keeps(t, u) /\ u.stores = t.stores
        /\ DOMAIN u.byKey = DOMAIN t.byKey \ Aged(t)
    <2>1. Aged(t) \in SUBSET Completed(t)
      BY DEF Aged
    <2> QED BY <2>1, EvictedTable
  <1> HIDE DEF u
  <1>2. /\ DOMAIN clients = DOMAIN u.clients \ Retired(u)
        /\ \A c \in DOMAIN clients : clients[c] = u.clients[c]
    BY DEF Restrict
  <1>3. clients \in [DOMAIN clients -> ReceiptClient]
    BY <1>1 DEF Restrict, Table, Shape
  <1> HIDE DEF clients
  <1>4. v = [clientSeq |-> u.clientSeq, clients |-> clients, byKey |-> u.byKey, stores |-> u.stores]
    BY <1>1 DEF Table, Shape
  <1>5. v.clientSeq = u.clientSeq /\ v.clients = clients /\ v.byKey = u.byKey /\ v.stores = u.stores
    BY <1>4
  <1> HIDE DEF v
  <1>6. Shape(v)
    BY <1>1, <1>3, <1>4, <1>5 DEF Table, Shape
  <1>7. Counted(v)
    <2>1. \A c : Held(v, c) = Held(u, c)
      BY <1>5 DEF Held
    <2> QED BY <1>1, <1>2, <1>5, <2>1 DEF Counted, Table
  <1>8. \A k \in DOMAIN u.byKey : k.client \notin Retired(u)
    <2> SUFFICES ASSUME NEW k \in DOMAIN u.byKey, k.client \in Retired(u) PROVE FALSE
      OBVIOUS
    <2>1. IsFiniteSet(Held(u, k.client)) /\ k \in Held(u, k.client)
      <3>1. Held(u, k.client) \in SUBSET DOMAIN u.byKey
        BY DEF Held
      <3> QED BY <1>1, <3>1, FS_Subset DEF Table, Held
    <2>2. Cardinality(Held(u, k.client)) # 0
      BY <2>1, FS_EmptySet
    <2> QED BY <2>2, <1>1 DEF Retired, Table, Counted
  <1>9. Table(v)
    BY <1>1, <1>2, <1>5, <1>6, <1>7, <1>8 DEF Table
  <1>10. Keeps(u, v)
    <2>1. \A c \in DOMAIN u.clients : u.clients[c].mark \in Nat
      BY <1>1 DEF Table, Shape, ReceiptClient
    <2> QED BY <1>2, <1>5, <2>1 DEF Keeps
  <1>11. Keeps(t, v)
    BY <1>1, <1>9, <1>10, KeepsTransitive
  <1>12. v.stores = t.stores /\ DOMAIN v.byKey = DOMAIN t.byKey \ Aged(t)
    BY <1>1, <1>5
  <1> QED BY <1>9, <1>11, <1>12 DEF EvictAged, u, clients, v

LEMMA KeepsReflexive ==
  ASSUME NEW t, Table(t) PROVE Keeps(t, t)
  <1>1. \A c \in DOMAIN t.clients : t.clients[c].mark \in Nat
    BY DEF Table, Shape, ReceiptClient
  <1> QED BY <1>1 DEF Keeps

LEMMA PrunedTable ==
  ASSUME NEW t, Table(t)
  PROVE  LET u == Pruned(t)
         IN  /\ Table(u) /\ Keeps(t, u) /\ u.stores = t.stores
             /\ \A k \in Completed(t) \ DOMAIN u.byKey :
                  Cardinality(Completed(t)) > ReceiptCap /\ k \in Oldest(t)
  <1>1. Oldest(t) \in SUBSET Completed(t)
    BY DEF Oldest
  <1>2. CASE Cardinality(Completed(t)) > ReceiptCap
    <2>1. /\ Table(Evicted(t, Oldest(t))) /\ Keeps(t, Evicted(t, Oldest(t)))
          /\ Evicted(t, Oldest(t)).stores = t.stores
          /\ DOMAIN Evicted(t, Oldest(t)).byKey = DOMAIN t.byKey \ Oldest(t)
      BY <1>1, EvictedTable
    <2>2. Pruned(t) = Evicted(t, Oldest(t))
      BY <1>2 DEF Pruned
    <2> QED BY <1>2, <2>1, <2>2 DEF Completed
  <1>3. CASE ~(Cardinality(Completed(t)) > ReceiptCap)
    BY <1>3, KeepsReflexive DEF Pruned, Completed
  <1> QED BY <1>2, <1>3

\* What is known of executions and running calls survives a pass.
LEMMA KeepsFacts ==
  ASSUME NEW t, Table(t), NEW u, Table(u), Keeps(t, u), NEW r, NEW cs
  PROVE  /\ Remembered(t, r) => Remembered(u, r)
         /\ Owned(t, cs, r) => Owned(u, cs, r)
  <1>1. /\ \A c \in DOMAIN t.clients : t.clients[c].mark \in Nat
        /\ \A c \in DOMAIN u.clients : u.clients[c].mark \in Nat
        /\ \A k \in Key : k.id \in Nat
    BY DEF Table, Shape, ReceiptClient, Key
  <1>2. ASSUME NEW k \in Key, Over(t, k) PROVE Over(u, k)
    <2>1. k.client <= u.clientSeq
      BY <1>2 DEF Over, Keeps
    <2>2. ASSUME k.client \in DOMAIN u.clients
          PROVE  k \in Completed(u) \/ (k \notin DOMAIN u.byKey /\ k.id <= u.clients[k.client].mark)
      <3>1. k.client \in DOMAIN t.clients
        BY <2>2 DEF Keeps
      <3>2. CASE k \in DOMAIN u.byKey
        BY <1>2, <3>1, <3>2 DEF Over, Keeps, Completed
      <3>3. CASE k \in DOMAIN t.byKey \ DOMAIN u.byKey
        BY <2>2, <3>3 DEF Keeps
      <3>4. CASE k \notin DOMAIN t.byKey
        <4>1. k.id <= t.clients[k.client].mark /\ t.clients[k.client].mark <= u.clients[k.client].mark
          BY <1>2, <2>2, <3>1, <3>4 DEF Over, Keeps, Completed
        <4> QED BY <1>1, <2>2, <3>1, <3>4, <4>1 DEF Keeps
      <3> QED BY <3>2, <3>3, <3>4
    <2> QED BY <2>1, <2>2 DEF Over
  <1>3. \A k : OpenIn(t, k) => OpenIn(u, k)
    BY DEF OpenIn, Keeps
  <1> QED BY <1>2, <1>3 DEF Remembered, Owned

\* An operation that changes a client's release, and nothing the invariant
\* reads, is a step of Keeps.
LEMMA ClientTable ==
  ASSUME NEW t, Table(t), NEW c \in DOMAIN t.clients, NEW rc \in ReceiptClient, NEW u,
         rc.mark = t.clients[c].mark, rc.entries = t.clients[c].entries,
         u = [t EXCEPT !.clients = [t.clients EXCEPT ![c] = rc]]
  PROVE  Table(u) /\ Keeps(t, u)
  <1> DEFINE clients == [t.clients EXCEPT ![c] = rc]
  <1>1. u = [clientSeq |-> t.clientSeq, clients |-> clients, byKey |-> t.byKey, stores |-> t.stores]
    BY DEF Table, Shape
  <1>2. u.clientSeq = t.clientSeq /\ u.clients = clients /\ u.byKey = t.byKey /\ u.stores = t.stores
    BY <1>1
  <1>3. DOMAIN clients = DOMAIN t.clients /\ clients \in [DOMAIN clients -> ReceiptClient]
    BY DEF Table, Shape
  <1>4. \A d \in DOMAIN clients : /\ clients[d].mark = t.clients[d].mark
                                 /\ clients[d].entries = t.clients[d].entries
    BY DEF Table, Shape
  <1> HIDE DEF clients
  <1>5. Shape(u)
    BY <1>1, <1>2, <1>3 DEF Table, Shape
  <1>6. Counted(u)
    <2>1. \A d : Held(u, d) = Held(t, d)
      BY <1>2 DEF Held
    <2> QED BY <1>2, <1>3, <1>4, <2>1 DEF Counted, Table
  <1>7. Table(u)
    BY <1>2, <1>3, <1>5, <1>6 DEF Table
  <1>8. \A d \in DOMAIN t.clients : t.clients[d].mark \in Nat
    BY DEF Table, Shape, ReceiptClient
  <1>9. Keeps(t, u)
    BY <1>2, <1>3, <1>4, <1>8 DEF Keeps
  <1> QED BY <1>7, <1>9

LEMMA ReservedTable ==
  ASSUME NEW t, Table(t), NEW k \in Key, k \notin DOMAIN t.byKey, k.client \in DOMAIN t.clients,
         NEW p \in Payloads
  PROVE  LET u == Reserved(t, k, p)
         IN  /\ Table(u) /\ u.clientSeq = t.clientSeq /\ u.stores = t.stores
             /\ DOMAIN u.clients = DOMAIN t.clients
             /\ \A c \in DOMAIN t.clients : u.clients[c].mark = t.clients[c].mark
             /\ DOMAIN u.byKey = DOMAIN t.byKey \cup {k}
             /\ \A j \in DOMAIN t.byKey : u.byKey[j] = t.byKey[j]
             /\ OpenIn(u, k) /\ u.byKey[k].payload = p
  <1> DEFINE c0 == k.client
             u == Reserved(t, k, p)
             byKey == [j \in DOMAIN t.byKey \cup {k} |-> IF j = k THEN Open(p) ELSE t.byKey[j]]
             rc == [t.clients[c0] EXCEPT !.entries = @ + 1]
             clients == [t.clients EXCEPT ![c0] = rc]
  <1>1. u = [clientSeq |-> t.clientSeq, clients |-> clients, byKey |-> byKey, stores |-> t.stores]
    <2>1. t = [clientSeq |-> t.clientSeq, clients |-> t.clients, byKey |-> t.byKey, stores |-> t.stores]
      BY DEF Table, Shape
    <2>2. u = [t EXCEPT !.byKey = byKey, !.clients = clients]
      BY <2>1 DEF Reserved
    <2> HIDE DEF clients, byKey, u
    <2> QED BY <2>1, <2>2
  <1>2. u.clientSeq = t.clientSeq /\ u.clients = clients /\ u.byKey = byKey /\ u.stores = t.stores
    BY <1>1
  <1>3. t.clients[c0] \in ReceiptClient /\ t.clients[c0].entries \in Nat
    BY DEF Table, Shape, ReceiptClient
  <1>4. rc \in ReceiptClient /\ rc.mark = t.clients[c0].mark /\ rc.entries = t.clients[c0].entries + 1
    BY <1>3 DEF ReceiptClient
  <1> HIDE DEF rc
  <1>5. /\ DOMAIN clients = DOMAIN t.clients /\ clients \in [DOMAIN clients -> ReceiptClient]
        /\ clients[c0].entries = t.clients[c0].entries + 1
    BY <1>4 DEF Table, Shape
  <1>6. \A c \in DOMAIN t.clients : clients[c].mark = t.clients[c].mark
    BY <1>4 DEF Table, Shape
  <1>7. \A c \in DOMAIN t.clients : c # c0 => clients[c].entries = t.clients[c].entries
    BY <1>4 DEF Table, Shape
  <1>8. Open(p) \in Receipt /\ ~Open(p).completed
    BY DEF Open, Receipt
  <1>9. /\ DOMAIN byKey = DOMAIN t.byKey \cup {k} /\ byKey[k] = Open(p)
        /\ \A j \in DOMAIN t.byKey : byKey[j] = t.byKey[j]
        /\ byKey \in [DOMAIN byKey -> Receipt]
    BY <1>8 DEF Table, Shape
  <1>10. IsFiniteSet(DOMAIN byKey)
    BY <1>9, FS_AddElement DEF Table
  <1> HIDE DEF clients, byKey, u
  <1>11. Shape(u)
    BY <1>1, <1>2, <1>5, <1>9 DEF Table, Shape
  <1>12. Counted(u)
    <2>1. \A c : c # c0 => Held(u, c) = Held(t, c)
      BY <1>2, <1>9 DEF Held
    <2>2. Held(u, c0) = Held(t, c0) \cup {k} /\ k \notin Held(t, c0)
      BY <1>2, <1>9 DEF Held
    <2>3. IsFiniteSet(Held(t, c0))
      <3>1. Held(t, c0) \in SUBSET DOMAIN t.byKey
        BY DEF Held
      <3> QED BY <3>1, FS_Subset DEF Table
    <2>4. Cardinality(Held(u, c0)) = Cardinality(Held(t, c0)) + 1
      BY <2>2, <2>3, FS_AddElement
    <2>5. t.clients[c0].entries = Cardinality(Held(t, c0))
      BY DEF Table, Counted
    <2>6. u.clients[c0].entries = Cardinality(Held(u, c0))
      BY <1>2, <1>5, <2>4, <2>5
    <2>7. ASSUME NEW c \in DOMAIN t.clients, c # c0
          PROVE  u.clients[c].entries = Cardinality(Held(u, c))
      <3>1. u.clients[c].entries = t.clients[c].entries
        BY <1>2, <1>7, <2>7
      <3>2. t.clients[c].entries = Cardinality(Held(t, c))
        BY DEF Table, Counted
      <3>3. Held(u, c) = Held(t, c)
        BY <2>1, <2>7
      <3> QED BY <3>1, <3>2, <3>3
    <2> QED BY <1>2, <1>5, <2>6, <2>7 DEF Counted
  <1>13. Table(u)
    BY <1>2, <1>5, <1>9, <1>10, <1>11, <1>12 DEF Table
  <1>14. OpenIn(u, k) /\ u.byKey[k].payload = p
    BY <1>2, <1>8, <1>9 DEF OpenIn, Open
  <1>15. \A c \in DOMAIN t.clients : u.clients[c].mark = t.clients[c].mark
    BY <1>2, <1>6
  <1>16. DOMAIN u.byKey = DOMAIN t.byKey \cup {k} /\ \A j \in DOMAIN t.byKey : u.byKey[j] = t.byKey[j]
    BY <1>2, <1>9
  <1>17. /\ u.clientSeq = t.clientSeq /\ u.stores = t.stores
         /\ DOMAIN u.clients = DOMAIN t.clients
    BY <1>2, <1>5
  <1> QED BY <1>13, <1>14, <1>15, <1>16, <1>17 DEF u

LEMMA StoredRecord ==
  ASSUME NEW t, Shape(t), NEW byKey, NEW n
  PROVE  [t EXCEPT !.byKey = byKey, !.stores = n]
         = [clientSeq |-> t.clientSeq, clients |-> t.clients, byKey |-> byKey, stores |-> n]
  <1> DEFINE u == [t EXCEPT !.byKey = byKey, !.stores = n]
  <1>1. u = [t EXCEPT !.byKey = byKey, !.stores = n]
    OBVIOUS
  <1>2. t = [clientSeq |-> t.clientSeq, clients |-> t.clients, byKey |-> t.byKey, stores |-> t.stores]
    BY DEF Shape
  <1> HIDE DEF u
  <1>3. u = [clientSeq |-> t.clientSeq, clients |-> t.clients, byKey |-> byKey, stores |-> n]
    BY <1>1, <1>2
  <1> QED BY <1>3 DEF u

\* publishLocked of a result: stored, and the table pruned.
LEMMA PublishedStores ==
  ASSUME NEW k, NEW res, Table(rt), res # "gate"
  PROVE  Published(rt, k, res)
         = Pruned([clientSeq |-> rt.clientSeq, clients |-> rt.clients,
                   byKey |-> [rt.byKey EXCEPT ![k] =
                     [rt.byKey[k] EXCEPT !.completed = TRUE, !.res = res, !.at = now, !.n = rt.stores + 1]],
                   stores |-> rt.stores + 1])
  <1> DEFINE r == [rt.byKey[k] EXCEPT !.completed = TRUE, !.res = res, !.at = now, !.n = rt.stores + 1]
             u == [clientSeq |-> rt.clientSeq, clients |-> rt.clients,
                   byKey |-> [rt.byKey EXCEPT ![k] = r], stores |-> rt.stores + 1]
             w == [rt EXCEPT !.byKey[k] = r, !.stores = @ + 1]
  <1>1. Published(rt, k, res) = Pruned(w)
    BY DEF Published
  <1>2. w = u
    <2>1. rt = [clientSeq |-> rt.clientSeq, clients |-> rt.clients, byKey |-> rt.byKey, stores |-> rt.stores]
      BY DEF Table, Shape
    <2> DEFINE byKey == [rt.byKey EXCEPT ![k] = r]
               n == rt.stores + 1
    <2> HIDE DEF r
    <2>2. w = [rt EXCEPT !.byKey = byKey, !.stores = n]
      BY <2>1
    <2>3. u = [clientSeq |-> rt.clientSeq, clients |-> rt.clients, byKey |-> byKey, stores |-> n]
      OBVIOUS
    <2> HIDE DEF byKey, n, w, u
    <2> QED BY <2>2, <2>3, StoredRecord DEF Table
  <1> QED BY <1>1, <1>2

LEMMA StoredTable ==
  ASSUME NEW t, Table(t), NEW k \in DOMAIN t.byKey, NEW r \in Receipt, r.completed, NEW u,
         u = [clientSeq |-> t.clientSeq, clients |-> t.clients,
              byKey |-> [t.byKey EXCEPT ![k] = r], stores |-> t.stores + 1]
  PROVE  /\ Table(u) /\ u.clientSeq = t.clientSeq /\ u.clients = t.clients
         /\ u.stores = t.stores + 1
         /\ DOMAIN u.byKey = DOMAIN t.byKey /\ k \in Completed(u) /\ u.byKey[k] = r
         /\ \A j \in DOMAIN t.byKey \ {k} : u.byKey[j] = t.byKey[j]
  <1> DEFINE byKey == [t.byKey EXCEPT ![k] = r]
             n == t.stores + 1
  <1>1. u = [clientSeq |-> t.clientSeq, clients |-> t.clients, byKey |-> byKey, stores |-> n]
    BY DEF Table, Shape
  <1>2. u.clientSeq = t.clientSeq /\ u.clients = t.clients /\ u.byKey = byKey /\ u.stores = n
    BY <1>1
  <1>3. n \in Nat
    BY DEF Table, Shape
  <1>4. /\ DOMAIN byKey = DOMAIN t.byKey /\ byKey[k] = r
        /\ byKey \in [DOMAIN byKey -> Receipt]
        /\ \A j \in DOMAIN t.byKey \ {k} : byKey[j] = t.byKey[j]
    BY DEF Table, Shape
  <1> HIDE DEF byKey, n
  <1>5. Shape(u)
    BY <1>1, <1>2, <1>3, <1>4 DEF Table, Shape
  <1>6. Counted(u)
    <2>1. \A c : Held(u, c) = Held(t, c)
      BY <1>2, <1>4 DEF Held
    <2> QED BY <1>2, <2>1 DEF Counted, Table
  <1>7. Table(u)
    BY <1>2, <1>4, <1>5, <1>6 DEF Table
  <1>8. k \in Completed(u)
    BY <1>2, <1>4 DEF Completed
  <1> QED BY <1>2, <1>4, <1>7, <1>8 DEF n

-----------------------------------------------------------------------------
(* The steps *)

\* Nothing is asked of a call that does not run.
LEMMA NoNewRunner ==
  ASSUME NEW t, NEW cs, NEW r, Owned(t, cs, r), NEW cs2,
         \A g \in Calls : cs2[g].phase = "running" => cs2[g] = cs[g]
  PROVE  Owned(t, cs2, r)
  BY DEF Owned, Runs

LEMMA InitInv == Init => IInv
  <1> SUFFICES ASSUME Init PROVE IInv
    OBVIOUS
  <1>1. /\ rt.clientSeq = 0 /\ rt.clients = <<>> /\ rt.byKey = <<>> /\ rt.stores = 0
        /\ rt = [clientSeq |-> rt.clientSeq, clients |-> rt.clients, byKey |-> rt.byKey, stores |-> rt.stores]
    BY DEF Init
  <1>2. DOMAIN rt.clients = {} /\ DOMAIN rt.byKey = {}
    BY <1>1
  <1>3. Shape(rt)
    BY <1>1, <1>2 DEF Shape
  <1>4. Table(rt)
    BY <1>1, <1>2, <1>3, FS_EmptySet DEF Table, Counted
  <1>5. \A g \in Calls : calls[g].phase # "running"
    BY DEF Init, Idle
  <1>6. \A k \in Key : ran[k].count = 0
    BY DEF Init
  <1>7. now \in Nat /\ DOMAIN calls = Calls /\ DOMAIN ran = Key
    BY DEF Init
  <1> QED BY <1>4, <1>5, <1>6, <1>7 DEF IInv, Remembered, Owned

LEMMA NewClientInv == IInv /\ NewClient => IInv'
  <1> SUFFICES ASSUME IInv, NewClient PROVE IInv'
    OBVIOUS
  <1> DEFINE c == rt.clientSeq + 1
             clients == [d \in DOMAIN rt.clients \cup {c} |-> IF d = c THEN NewClientRecord ELSE rt.clients[d]]
  <1>1. Table(rt) /\ rt.clientSeq \in Nat
    BY DEF IInv, Table, Shape
  <1>2. rt' = [clientSeq |-> c, clients |-> clients, byKey |-> rt.byKey, stores |-> rt.stores]
    <2>1. rt = [clientSeq |-> rt.clientSeq, clients |-> rt.clients, byKey |-> rt.byKey, stores |-> rt.stores]
      BY <1>1 DEF Table, Shape
    <2>2. rt' = [rt EXCEPT !.clientSeq = c, !.clients = clients]
      BY <2>1 DEF NewClient
    <2> HIDE DEF clients, c
    <2> QED BY <2>1, <2>2
  <1>3. rt'.clientSeq = c /\ rt'.clients = clients /\ rt'.byKey = rt.byKey /\ rt'.stores = rt.stores
    BY <1>2
  <1>4. c \notin DOMAIN rt.clients /\ DOMAIN rt.clients \subseteq 1..c /\ c \in 1..c
    BY <1>1 DEF Table
  <1>5. NewClientRecord \in ReceiptClient /\ NewClientRecord.entries = 0
    BY DEF NewClientRecord, ReceiptClient
  <1>6. /\ DOMAIN clients = DOMAIN rt.clients \cup {c} /\ clients[c] = NewClientRecord
        /\ \A d \in DOMAIN rt.clients : clients[d] = rt.clients[d]
        /\ clients \in [DOMAIN clients -> ReceiptClient]
    BY <1>1, <1>4, <1>5 DEF Table, Shape
  <1> HIDE DEF clients
  <1>7. Table(rt)'
    <2>1. Shape(rt)'
      BY <1>1, <1>2, <1>3, <1>6 DEF Table, Shape
    <2>2. Counted(rt)'
      <3>1. \A d : Held(rt', d) = Held(rt, d)
        BY <1>3 DEF Held
      <3>2. Held(rt, c) = {}
        BY <1>1, <1>4 DEF Held, Table
      <3>3. \A d \in DOMAIN rt.clients : rt'.clients[d].entries = Cardinality(Held(rt', d))
        BY <1>1, <1>3, <1>6, <3>1 DEF Table, Counted
      <3>4. rt'.clients[c].entries = Cardinality(Held(rt', c))
        BY <1>3, <1>5, <1>6, <3>1, <3>2, FS_EmptySet
      <3> QED BY <1>3, <1>6, <3>3, <3>4 DEF Counted
    <2> HIDE DEF c
    <2> QED BY <1>1, <1>3, <1>4, <1>6, <2>1, <2>2 DEF Table
  <1>8. \A k \in Key : Over(rt, k) => Over(rt', k)
    <2> SUFFICES ASSUME NEW k \in Key, Over(rt, k) PROVE Over(rt', k)
      OBVIOUS
    <2>1. k.client \in Nat /\ k.client <= rt.clientSeq
      BY DEF Over, Key
    <2>2. k.client # c /\ k.client <= c
      BY <1>1, <2>1
    <2>3. k.client \in DOMAIN rt'.clients => k.client \in DOMAIN rt.clients /\ rt'.clients[k.client] = rt.clients[k.client]
      BY <1>3, <1>6, <2>2
    <2> QED BY <1>3, <2>2, <2>3 DEF Over, Completed
  <1>9. now' = now /\ calls' = calls /\ ran' = ran
    BY DEF NewClient
  <1>10. Remembered(rt, ran)'
    BY <1>8, <1>9 DEF IInv, Remembered
  <1>11. Owned(rt, calls, ran)'
    BY <1>3, <1>9 DEF IInv, Owned, OpenIn, Runs
  <1> QED BY <1>7, <1>9, <1>10, <1>11 DEF IInv

\* A step of Keeps that leaves the calls alone keeps the invariant.
LEMMA PassInv ==
  ASSUME IInv, Table(rt'), Keeps(rt, rt'), now' = now, calls' = calls, ran' = ran
  PROVE  IInv'
  <1>1. Table(rt)
    BY DEF IInv
  <1>2. Remembered(rt', ran) /\ Owned(rt', calls, ran)
    BY <1>1, KeepsFacts DEF IInv
  <1> QED BY <1>2 DEF IInv

LEMMA ReleaseClientInv == ASSUME NEW c, IInv, ReleaseClient(c) PROVE IInv'
  <1> DEFINE t == EvictAged(rt)
             rc == [t.clients[c] EXCEPT !.released = TRUE, !.releasedAt = now]
  <1>1. Table(rt) /\ now \in Nat /\ Table(t) /\ Keeps(rt, t)
    BY EvictAgedTable DEF IInv
  <1> HIDE DEF t
  <1>2. CASE c \in DOMAIN t.clients /\ ~t.clients[c].released
    <2>1. t.clients[c] \in ReceiptClient
      BY <1>1, <1>2 DEF Table, Shape
    <2>2. rc \in ReceiptClient /\ rc.mark = t.clients[c].mark /\ rc.entries = t.clients[c].entries
      BY <1>1, <2>1 DEF ReceiptClient
    <2>3. rt' = [t EXCEPT !.clients = [t.clients EXCEPT ![c] = rc]]
      <3>1. rt' = [t EXCEPT !.clients[c].released = TRUE, !.clients[c].releasedAt = now]
        BY <1>2 DEF ReleaseClient, t
      <3>2. /\ t = [clientSeq |-> t.clientSeq, clients |-> t.clients, byKey |-> t.byKey, stores |-> t.stores]
            /\ t.clients \in [DOMAIN t.clients -> ReceiptClient]
        BY <1>1 DEF Table, Shape
      <3> QED BY <1>2, <2>1, <3>1, <3>2 DEF ReceiptClient
    <2> HIDE DEF rc
    <2>4. Table(rt') /\ Keeps(t, rt')
      BY <1>1, <1>2, <2>2, <2>3, ClientTable
    <2>5. Keeps(rt, rt')
      BY <1>1, <2>4, KeepsTransitive
    <2> QED BY <2>4, <2>5, PassInv DEF ReleaseClient
  <1>3. CASE ~(c \in DOMAIN t.clients /\ ~t.clients[c].released)
    BY <1>1, <1>3, PassInv DEF ReleaseClient, t
  <1> QED BY <1>2, <1>3

LEMMA ClaimClientInv == ASSUME NEW c, IInv, ClaimClient(c) PROVE IInv'
  <1> DEFINE t == EvictAged(rt)
             rc == [t.clients[c] EXCEPT !.released = FALSE, !.releasedAt = 0]
  <1>1. Table(rt) /\ Table(t) /\ Keeps(rt, t)
    BY EvictAgedTable DEF IInv
  <1> HIDE DEF t
  <1>2. CASE c \in DOMAIN t.clients
    <2>1. t.clients[c] \in ReceiptClient
      BY <1>1, <1>2 DEF Table, Shape
    <2>2. rc \in ReceiptClient /\ rc.mark = t.clients[c].mark /\ rc.entries = t.clients[c].entries
      BY <2>1 DEF ReceiptClient
    <2>3. rt' = [t EXCEPT !.clients = [t.clients EXCEPT ![c] = rc]]
      <3>1. rt' = [t EXCEPT !.clients[c].released = FALSE, !.clients[c].releasedAt = 0]
        BY <1>2 DEF ClaimClient, t
      <3>2. /\ t = [clientSeq |-> t.clientSeq, clients |-> t.clients, byKey |-> t.byKey, stores |-> t.stores]
            /\ t.clients \in [DOMAIN t.clients -> ReceiptClient]
        BY <1>1 DEF Table, Shape
      <3> QED BY <1>2, <2>1, <3>1, <3>2 DEF ReceiptClient
    <2> HIDE DEF rc
    <2>4. Table(rt') /\ Keeps(t, rt')
      BY <1>1, <1>2, <2>2, <2>3, ClientTable
    <2>5. Keeps(rt, rt')
      BY <1>1, <2>4, KeepsTransitive
    <2> QED BY <2>4, <2>5, PassInv DEF ClaimClient
  <1>3. CASE c \notin DOMAIN t.clients
    BY <1>1, <1>3, PassInv DEF ClaimClient, t
  <1> QED BY <1>2, <1>3

LEMMA SendInv ==
  ASSUME NEW g \in Calls, NEW k \in Key, NEW p \in Payloads, IInv, Send(g, k, p)
  PROVE  IInv'
  <1> DEFINE t == EvictAged(rt)
             verdict == Verdict(t, k, p)
  <1>1. Table(rt) /\ Table(t) /\ Keeps(rt, t)
    BY EvictAgedTable DEF IInv
  <1>2. Remembered(t, ran) /\ Owned(t, calls, ran)
    BY <1>1, KeepsFacts DEF IInv
  <1>3. now' = now /\ ran' = ran /\ DOMAIN calls = Calls /\ DOMAIN ran = Key /\ now \in Nat
    BY DEF Send, IInv
  <1>4. /\ calls[g].phase \in {"idle", "replied"}
        /\ rt' = IF verdict = "reserve" THEN Reserved(t, k, p) ELSE t
        /\ calls' = [calls EXCEPT ![g] = CASE verdict = "reserve" -> Call(k, p, "running")
                                           [] verdict = "wait" -> Call(k, p, "waiting")
                                           [] verdict = "replay" -> Reply(k, p, t.byKey[k].res)
                                           [] OTHER -> Reply(k, p, verdict)]
    BY DEF Send
  <1> HIDE DEF t
  <1>5. CASE verdict = "reserve"
    <2> DEFINE u == Reserved(t, k, p)
    <2>1. k.client \in DOMAIN t.clients /\ k \notin DOMAIN t.byKey /\ ~(k.id <= t.clients[k.client].mark)
      BY <1>5 DEF Verdict
    <2>2. /\ Table(u) /\ u.clientSeq = t.clientSeq
          /\ DOMAIN u.clients = DOMAIN t.clients
          /\ \A c \in DOMAIN t.clients : u.clients[c].mark = t.clients[c].mark
          /\ DOMAIN u.byKey = DOMAIN t.byKey \cup {k}
          /\ \A j \in DOMAIN t.byKey : u.byKey[j] = t.byKey[j]
          /\ OpenIn(u, k)
      BY <1>1, <2>1, ReservedTable
    <2> HIDE DEF u
    <2>3. ran[k].count = 0
      BY <1>2, <2>1 DEF Remembered, Over, Completed
    <2>4. \A j \in Key : j # k /\ Over(t, j) => Over(u, j)
      BY <2>2 DEF Over, Completed
    <2>5. Remembered(u, ran)
      BY <1>2, <2>3, <2>4 DEF Remembered
    <2>6. calls'[g].phase = "running" /\ calls'[g].key = k /\ calls'[g].payload = p
      BY <1>3, <1>4, <1>5 DEF Call, Idle
    <2>7. \A h \in Calls \ {g} : calls'[h] = calls[h]
      BY <1>3, <1>4
    <2>8. \A h \in Calls : calls[h].phase = "running" => calls[h].key # k /\ OpenIn(u, calls[h].key)
      BY <1>2, <2>1, <2>2 DEF Owned, OpenIn
    <2>9. ASSUME NEW h \in Calls, calls'[h].phase = "running"
          PROVE  /\ calls'[h].key \in Key /\ calls'[h].payload \in Payloads
                 /\ OpenIn(u, calls'[h].key) /\ ran[calls'[h].key].count = 0
                 /\ \A i \in Calls \ {h} : ~Runs(calls', i, calls'[h].key)
      <3>1. CASE h = g
        BY <3>1, <2>2, <2>3, <2>6, <2>7, <2>8 DEF Runs
      <3>2. CASE h # g
        <4>1. calls'[h] = calls[h] /\ calls[h].phase = "running" /\ calls[h].key # k
          BY <3>2, <2>7, <2>8, <2>9
        <4>2. \A i \in Calls \ {h} : ~Runs(calls', i, calls[h].key)
          BY <4>1, <1>2, <2>6, <2>7 DEF Owned, Runs
        <4> QED BY <4>1, <4>2, <1>2, <2>8 DEF Owned
      <3> QED BY <3>1, <3>2
    <2>10. Owned(u, calls', ran)
      BY <2>9 DEF Owned
    <2>11. rt' = u /\ DOMAIN calls' = Calls
      BY <1>3, <1>4, <1>5 DEF u
    <2> QED BY <1>3, <2>2, <2>5, <2>10, <2>11 DEF IInv
  <1>6. CASE verdict # "reserve"
    <2>1. rt' = t /\ DOMAIN calls' = Calls
      BY <1>3, <1>4, <1>6
    <2>2. calls'[g].phase # "running"
      <3>1. Call(k, p, "waiting").phase # "running"
        BY DEF Call, Idle
      <3>2. \A x : Reply(k, p, x).phase # "running"
        BY DEF Reply, Call, Idle
      <3> HIDE DEF verdict
      <3> QED BY <1>3, <1>4, <1>6, <3>1, <3>2
    <2>3. \A h \in Calls : calls'[h].phase = "running" => calls'[h] = calls[h]
      BY <1>3, <1>4, <2>2
    <2>4. Owned(t, calls', ran)
      BY <1>2, <2>3, NoNewRunner
    <2> QED BY <1>1, <1>2, <1>3, <2>1, <2>4 DEF IInv
  <1> QED BY <1>5, <1>6

LEMMA FinishInv ==
  ASSUME NEW g \in Calls, NEW res \in Results, IInv, Finish(g, res)
  PROVE  IInv'
  <1> DEFINE k == calls[g].key
             p == calls[g].payload
  <1>1. /\ Table(rt) /\ Remembered(rt, ran) /\ Owned(rt, calls, ran) /\ now \in Nat
        /\ DOMAIN calls = Calls /\ DOMAIN ran = Key
    BY DEF IInv
  <1>2. /\ calls[g].phase = "running" /\ rt' = Published(rt, k, res)
        /\ calls' = [Woken(k, res) EXCEPT ![g] = Reply(k, p, res)]
        /\ ran' = Executed(k, p, res) /\ now' = now
    BY DEF Finish
  <1>3. k \in Key /\ p \in Payloads /\ OpenIn(rt, k) /\ ran[k].count = 0
    BY <1>1, <1>2 DEF Owned
  <1>4. DOMAIN calls' = Calls /\ \A h \in Calls : calls'[h].phase = "running" => calls'[h] = calls[h] /\ h # g
    <2>1. DOMAIN Woken(k, res) = Calls
      BY DEF Woken
    <2>2. calls'[g].phase = "replied"
      BY <1>2, <2>1 DEF Reply, Call, Idle
    <2>3. \A h \in Calls \ {g} : calls'[h] = IF Parked(h, k) THEN [calls[h] EXCEPT !.got = res] ELSE calls[h]
      BY <1>2 DEF Woken
    <2>4. \A h \in Calls : Parked(h, k) => [calls[h] EXCEPT !.got = res].phase = "waiting"
      BY DEF Parked
    <2>5. ASSUME NEW h \in Calls \ {g}, calls'[h].phase = "running" PROVE calls'[h] = calls[h]
      BY <2>3, <2>4, <2>5
    <2> QED BY <1>2, <2>1, <2>2, <2>5
  <1>5. Owned(rt, calls', ran)
    BY <1>1, <1>4, NoNewRunner
  <1>6. \A h \in Calls : calls'[h].phase = "running" => calls'[h].key # k
    BY <1>1, <1>2, <1>4 DEF Owned, Runs
  <1> HIDE DEF k, p
  <1>7. CASE res = "gate"
    <2>1. rt' = Dropped(rt, {k}) /\ ran' = ran
      BY <1>2, <1>7 DEF Published, Executed
    <2>2. {k} \in SUBSET DOMAIN rt.byKey
      BY <1>3 DEF OpenIn
    <2>3. /\ Table(rt')
          /\ rt'.clientSeq = rt.clientSeq /\ DOMAIN rt'.clients = DOMAIN rt.clients
          /\ \A c \in DOMAIN rt'.clients : rt'.clients[c].mark = rt.clients[c].mark
          /\ DOMAIN rt'.byKey = DOMAIN rt.byKey \ {k}
          /\ \A j \in DOMAIN rt'.byKey : rt'.byKey[j] = rt.byKey[j]
      BY <1>1, <2>1, <2>2, DroppedTable
    <2>4. \A j \in Key : j # k /\ Over(rt, j) => Over(rt', j)
      BY <2>3 DEF Over, Completed
    <2>5. Remembered(rt', ran)
      BY <1>1, <1>3, <2>4 DEF Remembered
    <2>6. \A j : j # k /\ OpenIn(rt, j) => OpenIn(rt', j)
      BY <2>3 DEF OpenIn
    <2>7. Owned(rt', calls', ran)
      BY <1>5, <1>6, <2>6 DEF Owned
    <2> QED BY <1>1, <1>2, <1>4, <2>1, <2>3, <2>5, <2>7 DEF IInv
  <1>8. CASE res # "gate"
    <2> DEFINE r == [rt.byKey[k] EXCEPT !.completed = TRUE, !.res = res, !.at = now, !.n = rt.stores + 1]
               u == [clientSeq |-> rt.clientSeq, clients |-> rt.clients,
                     byKey |-> [rt.byKey EXCEPT ![k] = r], stores |-> rt.stores + 1]
    <2>1. rt.byKey[k] \in Receipt /\ k \in DOMAIN rt.byKey /\ rt.stores + 1 \in Nat
      BY <1>1, <1>3 DEF Table, Shape, OpenIn
    <2>2. r \in Receipt /\ r.completed
      BY <1>1, <2>1 DEF Receipt
    <2>3. rt' = Pruned(u)
      BY <1>1, <1>2, <1>8, PublishedStores
    <2>4. ran' = [ran EXCEPT ![k] = [count |-> @.count + 1, payload |-> p, res |-> res, at |-> now, n |-> rt.stores + 1]]
      BY <1>2, <1>8 DEF Executed
    <2> HIDE DEF r
    <2>5. /\ Table(u) /\ u.clientSeq = rt.clientSeq /\ u.clients = rt.clients
          /\ DOMAIN u.byKey = DOMAIN rt.byKey /\ k \in Completed(u)
          /\ \A j \in DOMAIN rt.byKey \ {k} : u.byKey[j] = rt.byKey[j]
      BY <1>1, <2>1, <2>2, StoredTable
    <2> HIDE DEF u
    <2>6. DOMAIN ran' = Key /\ ran'[k].count = 1 /\ \A j \in Key \ {k} : ran'[j] = ran[j]
      BY <1>1, <1>3, <2>4
    <2>7. Over(u, k)
      <3>1. k.client \in 1..rt.clientSeq
        BY <1>1, <2>1 DEF Table
      <3> QED BY <2>5, <3>1 DEF Over, Table, Shape
    <2>8. \A j \in Key : j # k /\ Over(rt, j) => Over(u, j)
      BY <2>5 DEF Over, Completed
    <2>9. Remembered(u, ran')
      BY <1>1, <2>6, <2>7, <2>8 DEF Remembered
    <2>10. \A j : j # k /\ OpenIn(rt, j) => OpenIn(u, j)
      BY <2>5 DEF OpenIn
    <2>11. Owned(u, calls', ran')
      BY <1>5, <1>6, <2>6, <2>10 DEF Owned
    <2>12. Table(rt') /\ Keeps(u, rt')
      BY <2>3, <2>5, PrunedTable
    <2>13. Remembered(rt', ran') /\ Owned(rt', calls', ran')
      BY <2>5, <2>9, <2>11, <2>12, KeepsFacts
    <2> QED BY <1>1, <1>2, <1>4, <2>6, <2>12, <2>13 DEF IInv
  <1> QED BY <1>7, <1>8

LEMMA WaitInv == ASSUME NEW g \in Calls, IInv, WaitEnds(g) \/ WaitGivenUp(g) PROVE IInv'
  <1>1. rt' = rt /\ now' = now /\ ran' = ran /\ DOMAIN calls' = DOMAIN calls
    BY DEF WaitEnds, WaitGivenUp
  <1>2. \A h \in Calls : calls'[h].phase = "running" => calls'[h] = calls[h]
    BY DEF WaitEnds, WaitGivenUp, IInv, Reply, Call, Idle
  <1>3. Owned(rt, calls', ran)
    BY <1>2, NoNewRunner DEF IInv
  <1> QED BY <1>1, <1>3 DEF IInv

LEMMA TickInv == IInv /\ Tick => IInv'
  BY DEF IInv, Tick

LEMMA NextInv == IInv /\ [Next]_vars => IInv'
  <1> SUFFICES ASSUME IInv, [Next]_vars PROVE IInv'
    OBVIOUS
  <1>1. CASE NewClient
    BY <1>1, NewClientInv
  <1>2. CASE \E c \in 1..MaxClients : ReleaseClient(c) \/ ClaimClient(c)
    BY <1>2, ReleaseClientInv, ClaimClientInv
  <1>3. CASE \E g \in Calls, k \in Key, p \in Payloads : Send(g, k, p)
    BY <1>3, SendInv
  <1>4. CASE \E g \in Calls, res \in Results : Finish(g, res)
    BY <1>4, FinishInv
  <1>5. CASE \E g \in Calls : WaitEnds(g) \/ WaitGivenUp(g)
    BY <1>5, WaitInv
  <1>6. CASE Tick
    BY <1>6, TickInv
  <1>7. CASE UNCHANGED vars
    BY <1>7 DEF vars, IInv
  <1> QED BY <1>1, <1>2, <1>3, <1>4, <1>5, <1>6, <1>7 DEF Next

\* A resent command (receipts.go) runs at most once, whatever is evicted by
\* count or age, released, resumed or retired between the two, and never
\* beside the first attempt.
THEOREM CommandsRunOnce == Spec => []RunsOnce
  <1>1. IInv => RunsOnce
    BY DEF IInv, Remembered, Owned, Runs, RunsOnce
  <1> QED BY <1>1, InitInv, NextInv, PTL DEF Spec

-----------------------------------------------------------------------------
(* Answers and the horizon                                                 *)
(*                                                                         *)
(* What the history of executions and the table say of each other: a       *)
(* completed receipt is the execution of its id (Same), and an execution   *)
(* is completed in the table or past the horizon (InHorizon).  A pass over *)
(* the entries drops only what is past it: the aged, or, once one past the *)
(* cap is kept, the one that all the others were stored after.             *)

HasRun(r, k) == r[k].count = 1

Same(t, r) ==
  \A k \in Completed(t) :
    /\ HasRun(r, k) /\ r[k].payload = t.byKey[k].payload /\ r[k].res = t.byKey[k].res
    /\ r[k].at = t.byKey[k].at /\ r[k].n = t.byKey[k].n

\* No two executions were stored under one number.
Recorded(t, r) ==
  /\ \A k \in Key : HasRun(r, k) => r[k].at \in Nat /\ r[k].n \in 1..t.stores
  /\ \A j, k \in Key : HasRun(r, j) /\ HasRun(r, k) /\ r[j].n = r[k].n => j = k

Later(r, k) == {j \in Key : r[j].count > 0 /\ r[j].n > r[k].n}

Lapsed(r, k, time) == time - r[k].at > ReceiptAge \/ Cardinality(Later(r, k)) >= ReceiptCap

InHorizon(t, r, time) == \A k \in Key : HasRun(r, k) => k \in Completed(t) \/ Lapsed(r, k, time)

\* An outcome a call is told, or will be, is that of its own id and payload.
Told(r, k, p, x) == x \in {"ok", "aborted"} => HasRun(r, k) /\ r[k].payload = p /\ r[k].res = x

Awaits(t, c) == OpenIn(t, c.key) /\ t.byKey[c.key].payload = c.payload

IsCall(c) ==
  c = [phase |-> c.phase, key |-> c.key, payload |-> c.payload, got |-> c.got, reply |-> c.reply]

CallOK(t, c, r) ==
  /\ IsCall(c)
  /\ c.phase \in {"running", "waiting", "replied"} => c.key \in Key
  /\ c.phase = "running" => Awaits(t, c)
  /\ c.phase = "waiting" /\ c.got = "none" => Awaits(t, c)
  /\ c.phase = "waiting" => Told(r, c.key, c.payload, c.got)
  /\ c.phase = "replied" => Told(r, c.key, c.payload, c.reply)

Called(t, cs, r) == \A g \in Calls : CallOK(t, cs[g], r)

History(t, cs, r, time) == Same(t, r) /\ Recorded(t, r) /\ InHorizon(t, r, time) /\ Called(t, cs, r)

HInv == IInv /\ History(rt, calls, ran, now)

LEMMA KeyFinite == IsFiniteSet(Key)
  <1> DEFINE Pairs == (1..MaxClients) \X (1..MaxId)
             f == [x \in Pairs |-> [client |-> x[1], id |-> x[2]]]
  <1>1. MaxClients \in Int /\ MaxId \in Int
    BY ReceiptsAssumption DEF ReceiptsAssumption
  <1>2. IsFiniteSet(1..MaxClients) /\ IsFiniteSet(1..MaxId)
    BY <1>1, FS_Interval
  <1>3. IsFiniteSet(Pairs)
    BY <1>2, FS_Product
  <1>4. f \in [Pairs -> Key]
    BY DEF Key
  <1>5. ASSUME NEW k \in Key PROVE \E x \in Pairs : f[x] = k
    <2>1. <<k.client, k.id>> \in Pairs
      BY DEF Key
    <2>2. f[<<k.client, k.id>>] = k
      BY <2>1 DEF Key
    <2> QED BY <2>1, <2>2
  <1> HIDE DEF f
  <1>6. f \in Surjection(Pairs, Key)
    BY <1>4, <1>5 DEF Surjection
  <1> QED BY <1>3, <1>6, FS_Surjection

LEMMA LaterIsFinite ==
  ASSUME NEW r, NEW k
  PROVE  IsFiniteSet(Later(r, k)) /\ Cardinality(Later(r, k)) \in Nat
  <1>1. Later(r, k) \in SUBSET Key
    BY DEF Later
  <1>2. IsFiniteSet(Later(r, k))
    BY <1>1, KeyFinite, FS_Subset
  <1> QED BY <1>2, FS_CardinalityType

\* An execution past the horizon stays past it.
LEMMA StaysLapsed ==
  ASSUME NEW r, NEW r2, NEW k, NEW time \in Nat, NEW time2 \in Nat, time <= time2,
         r[k].at \in Nat, r2[k].at = r[k].at, Later(r, k) \subseteq Later(r2, k),
         Lapsed(r, k, time)
  PROVE  Lapsed(r2, k, time2)
  <1>1. ReceiptCap \in Nat /\ ReceiptAge \in Nat
    BY ReceiptsAssumption DEF ReceiptsAssumption
  <1>2. CASE time - r[k].at > ReceiptAge
    BY <1>1, <1>2 DEF Lapsed
  <1>3. CASE Cardinality(Later(r, k)) >= ReceiptCap
    <2>1. Cardinality(Later(r, k)) <= Cardinality(Later(r2, k))
      BY LaterIsFinite, FS_Subset
    <2>2. Cardinality(Later(r, k)) \in Nat /\ Cardinality(Later(r2, k)) \in Nat
      BY LaterIsFinite
    <2>3. Cardinality(Later(r2, k)) >= ReceiptCap
      BY <1>1, <1>3, <2>1, <2>2
    <2> QED BY <2>3 DEF Lapsed
  <1> QED BY <1>2, <1>3 DEF Lapsed

\* The first completed entry of a table past its cap is past the horizon.
LEMMA OldestLapsed ==
  ASSUME NEW t, Table(t), NEW r, NEW time, Same(t, r), Recorded(t, r),
         NEW k \in Oldest(t), Cardinality(Completed(t)) > ReceiptCap
  PROVE  Lapsed(r, k, time)
  <1> DEFINE others == Completed(t) \ {k}
  <1>1. ReceiptCap \in Nat
    BY ReceiptsAssumption DEF ReceiptsAssumption
  <1>2. k \in Completed(t) /\ Completed(t) \in SUBSET DOMAIN t.byKey /\ Completed(t) \in SUBSET Key
    BY DEF Oldest, Completed, Table
  <1>3. IsFiniteSet(Completed(t))
    BY <1>2, FS_Subset DEF Table
  <1>4. Cardinality(others) = Cardinality(Completed(t)) - 1 /\ Cardinality(Completed(t)) \in Nat
    BY <1>2, <1>3, FS_RemoveElement, FS_CardinalityType
  <1>5. others \in SUBSET Later(r, k)
    <2> SUFFICES ASSUME NEW j \in Completed(t), j # k
                 PROVE  r[j].count > 0 /\ r[j].n > r[k].n
      BY <1>2 DEF Later
    <2>1. r[j].count = 1 /\ r[k].count = 1 /\ r[j].n = t.byKey[j].n /\ r[k].n = t.byKey[k].n
      BY <1>2 DEF Same, HasRun
    <2>2. t.byKey[k].n <= t.byKey[j].n
      BY DEF Oldest
    <2>3. r[j].n # r[k].n
      BY <1>2, <2>1 DEF Recorded, HasRun
    <2>4. r[j].n \in 1..t.stores /\ r[k].n \in 1..t.stores
      BY <1>2, <2>1 DEF Recorded, HasRun
    <2>5. t.stores \in Nat
      BY DEF Table, Shape
    <2> QED BY <2>1, <2>2, <2>3, <2>4, <2>5
  <1> HIDE DEF others
  <1>6. Cardinality(others) <= Cardinality(Later(r, k)) /\ Cardinality(Later(r, k)) \in Nat
    BY <1>5, LaterIsFinite, FS_Subset
  <1>7. Cardinality(Later(r, k)) >= ReceiptCap
    BY <1>1, <1>4, <1>6
  <1> QED BY <1>7 DEF Lapsed

LEMMA PassHistory ==
  ASSUME NEW t, Table(t), NEW u, Keeps(t, u), u.stores = t.stores,
         NEW cs, NEW r, NEW time, History(t, cs, r, time),
         \A k \in Completed(t) \ DOMAIN u.byKey : Lapsed(r, k, time)
  PROVE  History(u, cs, r, time)
  <1>1. Completed(u) \subseteq Completed(t) /\ \A k \in Completed(u) : u.byKey[k] = t.byKey[k]
    BY DEF Completed, Keeps
  <1>2. Same(u, r)
    BY <1>1 DEF History, Same
  <1>3. Recorded(u, r)
    BY DEF History, Recorded
  <1>4. InHorizon(u, r, time)
    <2>1. \A k \in Completed(t) : k \in Completed(u) \/ k \notin DOMAIN u.byKey
      BY DEF Completed, Keeps
    <2> QED BY <2>1 DEF History, InHorizon
  <1>5. \A c : Awaits(t, c) => Awaits(u, c)
    BY DEF Awaits, OpenIn, Keeps
  <1>6. Called(u, cs, r)
    BY <1>5 DEF History, Called, CallOK
  <1> QED BY <1>2, <1>3, <1>4, <1>6 DEF History

LEMMA EvictAgedHistory ==
  ASSUME NEW t, Table(t), NEW cs, NEW r, History(t, cs, r, now)
  PROVE  History(EvictAged(t), cs, r, now)
  <1> DEFINE u == EvictAged(t)
  <1>1. /\ Keeps(t, u) /\ u.stores = t.stores
        /\ DOMAIN u.byKey = DOMAIN t.byKey \ Aged(t)
    BY EvictAgedTable
  <1> HIDE DEF u
  <1>2. ASSUME NEW k \in Completed(t) \ DOMAIN u.byKey PROVE Lapsed(r, k, now)
    <2>1. k \in Aged(t)
      BY <1>1 DEF Completed
    <2> QED BY <2>1 DEF Aged, Lapsed, History, Same
  <1>3. History(u, cs, r, now)
    BY <1>1, <1>2, PassHistory
  <1> QED BY <1>3 DEF u

LEMMA PrunedHistory ==
  ASSUME NEW t, Table(t), NEW cs, NEW r, NEW time, History(t, cs, r, time)
  PROVE  History(Pruned(t), cs, r, time)
  <1> DEFINE u == Pruned(t)
  <1>1. /\ Keeps(t, u) /\ u.stores = t.stores
        /\ \A k \in Completed(t) \ DOMAIN u.byKey :
             Cardinality(Completed(t)) > ReceiptCap /\ k \in Oldest(t)
    BY PrunedTable
  <1> HIDE DEF u
  <1>2. \A k \in Completed(t) \ DOMAIN u.byKey : Lapsed(r, k, time)
    BY <1>1, OldestLapsed DEF History
  <1>3. History(u, cs, r, time)
    BY <1>1, <1>2, PassHistory
  <1> QED BY <1>3 DEF u

\* The clients are nothing to it.
LEMMA SameEntriesHistory ==
  ASSUME NEW t, NEW u, u.byKey = t.byKey, u.stores = t.stores,
         NEW cs, NEW r, NEW time, History(t, cs, r, time)
  PROVE  History(u, cs, r, time)
  BY DEF History, Same, Recorded, InHorizon, Completed, Called, CallOK, Awaits, OpenIn

LEMMA CallForm ==
  ASSUME NEW k, NEW p, NEW x
  PROVE  /\ Call(k, p, x) = [phase |-> x, key |-> k, payload |-> p, got |-> "none", reply |-> "none"]
         /\ Reply(k, p, x) = [phase |-> "replied", key |-> k, payload |-> p, got |-> "none", reply |-> x]
  <1>1. \A y : Call(k, p, y) = [phase |-> y, key |-> k, payload |-> p, got |-> "none", reply |-> "none"]
    <2> TAKE y
    <2> DEFINE none == [client |-> 0, id |-> 0]
    <2>1. Idle = [phase |-> "idle", key |-> none, payload |-> "none", got |-> "none", reply |-> "none"]
      BY DEF Idle
    <2>2. Call(k, p, y) = [Idle EXCEPT !.phase = y, !.key = k, !.payload = p]
      BY DEF Call
    <2> HIDE DEF none
    <2> QED BY <2>1, <2>2
  <1>2. Reply(k, p, x) = [Call(k, p, "replied") EXCEPT !.reply = x]
    BY DEF Reply
  <1> QED BY <1>1, <1>2

LEMMA AdmittedOK ==
  ASSUME NEW t, NEW r, NEW k \in Key, NEW p, NEW x \in {"running", "waiting"},
         OpenIn(t, k), t.byKey[k].payload = p
  PROVE  CallOK(t, Call(k, p, x), r)
  <1> DEFINE c == Call(k, p, x)
  <1>1. c = [phase |-> x, key |-> k, payload |-> p, got |-> "none", reply |-> "none"]
    BY CallForm
  <1>2. c.phase = x /\ c.key = k /\ c.payload = p /\ c.got = "none" /\ c.reply = "none"
    BY <1>1
  <1> HIDE DEF c
  <1>3. IsCall(c)
    BY <1>1, <1>2 DEF IsCall
  <1>4. CallOK(t, c, r)
    BY <1>2, <1>3 DEF CallOK, Awaits, Told
  <1> QED BY <1>4 DEF c

LEMMA RepliedOK ==
  ASSUME NEW t, NEW r, NEW k \in Key, NEW p, NEW x, Told(r, k, p, x)
  PROVE  CallOK(t, Reply(k, p, x), r)
  <1> DEFINE c == Reply(k, p, x)
  <1>1. c = [phase |-> "replied", key |-> k, payload |-> p, got |-> "none", reply |-> x]
    BY CallForm
  <1>2. c.phase = "replied" /\ c.key = k /\ c.payload = p /\ c.got = "none" /\ c.reply = x
    BY <1>1
  <1> HIDE DEF c
  <1>3. IsCall(c)
    BY <1>1, <1>2 DEF IsCall
  <1>4. CallOK(t, c, r)
    BY <1>2, <1>3 DEF CallOK
  <1> QED BY <1>4 DEF c

LEMMA InitHistory == Init => History(rt, calls, ran, now)
  <1> SUFFICES ASSUME Init PROVE History(rt, calls, ran, now)
    OBVIOUS
  <1>1. DOMAIN rt.byKey = {}
    BY DEF Init
  <1>2. \A k \in Key : ran[k].count = 0
    BY DEF Init
  <1>3. \A g \in Calls : calls[g] = Idle
    BY DEF Init
  <1>4. Idle.phase = "idle" /\ IsCall(Idle)
    BY DEF Idle, IsCall
  <1> QED BY <1>1, <1>2, <1>3, <1>4 DEF History, Same, Recorded, InHorizon, HasRun, Completed, Called, CallOK

LEMMA ClientHistory ==
  ASSUME HInv, NEW c, ReleaseClient(c) \/ ClaimClient(c)
  PROVE  History(rt, calls, ran, now)'
  <1> DEFINE t == EvictAged(rt)
  <1>1. Table(rt) /\ History(rt, calls, ran, now)
    BY DEF HInv, IInv
  <1>2. Table(t) /\ History(t, calls, ran, now)
    BY <1>1, EvictAgedTable, EvictAgedHistory
  <1>3. now' = now /\ calls' = calls /\ ran' = ran
    BY DEF ReleaseClient, ClaimClient
  <1>4. /\ t = [clientSeq |-> t.clientSeq, clients |-> t.clients, byKey |-> t.byKey, stores |-> t.stores]
    BY <1>2 DEF Table, Shape
  <1>5. rt'.byKey = t.byKey /\ rt'.stores = t.stores
    <2>1. CASE ReleaseClient(c)
      BY <1>4, <2>1 DEF ReleaseClient
    <2>2. CASE ClaimClient(c)
      BY <1>4, <2>2 DEF ClaimClient
    <2> QED BY <2>1, <2>2
  <1> HIDE DEF t
  <1> QED BY <1>2, <1>3, <1>5, SameEntriesHistory

LEMMA NewClientHistory ==
  ASSUME HInv, NewClient
  PROVE  History(rt, calls, ran, now)'
  <1>1. /\ rt = [clientSeq |-> rt.clientSeq, clients |-> rt.clients, byKey |-> rt.byKey, stores |-> rt.stores]
        /\ History(rt, calls, ran, now)
    BY DEF HInv, IInv, Table, Shape
  <1>2. rt'.byKey = rt.byKey /\ rt'.stores = rt.stores /\ now' = now /\ calls' = calls /\ ran' = ran
    BY <1>1 DEF NewClient
  <1> QED BY <1>1, <1>2, SameEntriesHistory

LEMMA SendHistory ==
  ASSUME HInv, NEW g \in Calls, NEW k \in Key, NEW p \in Payloads, Send(g, k, p)
  PROVE  History(rt, calls, ran, now)'
  <1> DEFINE t == EvictAged(rt)
             verdict == Verdict(t, k, p)
  <1>1. Table(rt) /\ History(rt, calls, ran, now) /\ DOMAIN calls = Calls
    BY DEF HInv, IInv
  <1>2. Table(t) /\ History(t, calls, ran, now)
    BY <1>1, EvictAgedTable, EvictAgedHistory
  <1>3. now' = now /\ ran' = ran
    BY DEF Send
  <1>4. /\ rt' = IF verdict = "reserve" THEN Reserved(t, k, p) ELSE t
        /\ calls' = [calls EXCEPT ![g] = CASE verdict = "reserve" -> Call(k, p, "running")
                                           [] verdict = "wait" -> Call(k, p, "waiting")
                                           [] verdict = "replay" -> Reply(k, p, t.byKey[k].res)
                                           [] OTHER -> Reply(k, p, verdict)]
    BY DEF Send
  <1>5. \A h \in Calls \ {g} : calls'[h] = calls[h]
    BY <1>1, <1>4
  <1> HIDE DEF t
  <1>6. CASE verdict = "reserve"
    <2> DEFINE u == Reserved(t, k, p)
    <2>1. k.client \in DOMAIN t.clients /\ k \notin DOMAIN t.byKey
      BY <1>6 DEF Verdict
    <2>2. /\ u.stores = t.stores
          /\ DOMAIN u.byKey = DOMAIN t.byKey \cup {k}
          /\ \A j \in DOMAIN t.byKey : u.byKey[j] = t.byKey[j]
          /\ OpenIn(u, k) /\ u.byKey[k].payload = p
      BY <1>2, <2>1, ReservedTable
    <2> HIDE DEF u
    <2>3. Completed(u) = Completed(t) /\ \A j \in Completed(t) : u.byKey[j] = t.byKey[j]
      BY <2>1, <2>2 DEF Completed, OpenIn
    <2>4. Same(u, ran) /\ Recorded(u, ran) /\ InHorizon(u, ran, now)
      BY <1>2, <2>2, <2>3 DEF History, Same, Recorded, InHorizon
    <2>5. calls'[g] = Call(k, p, "running")
      BY <1>1, <1>4, <1>6
    <2>6. CallOK(u, calls'[g], ran)
      BY <2>2, <2>5, AdmittedOK
    <2>7. \A c : Awaits(t, c) => Awaits(u, c)
      BY <2>2 DEF Awaits, OpenIn
    <2>8. \A h \in Calls \ {g} : CallOK(u, calls'[h], ran)
      BY <1>2, <1>5, <2>7 DEF History, Called, CallOK
    <2>9. rt' = u
      BY <1>4, <1>6 DEF u
    <2> QED BY <1>3, <2>4, <2>6, <2>8, <2>9 DEF History, Called
  <1>7. CASE verdict # "reserve"
    <2>1. rt' = t
      BY <1>4, <1>7
    <2>2. ASSUME verdict = "wait" PROVE CallOK(t, calls'[g], ran)
      <3>1. calls'[g] = Call(k, p, "waiting")
        BY <1>1, <1>4, <2>2
      <3>2. OpenIn(t, k) /\ t.byKey[k].payload = p
        BY <2>2 DEF Verdict, OpenIn
      <3> QED BY <3>1, <3>2, AdmittedOK
    <2>3. ASSUME verdict = "replay" PROVE CallOK(t, calls'[g], ran)
      <3>1. calls'[g] = Reply(k, p, t.byKey[k].res)
        BY <1>1, <1>4, <2>3
      <3>2. k \in Completed(t) /\ t.byKey[k].payload = p
        BY <2>3 DEF Verdict, Completed
      <3>3. Told(ran, k, p, t.byKey[k].res)
        BY <1>2, <3>2 DEF History, Same, Told
      <3> QED BY <3>1, <3>3, RepliedOK
    <2>4. ASSUME verdict \notin {"wait", "replay"} PROVE CallOK(t, calls'[g], ran)
      <3>1. calls'[g] = Reply(k, p, verdict)
        BY <1>1, <1>4, <1>7, <2>4
      <3>2. verdict \notin {"ok", "aborted"}
        BY DEF Verdict
      <3>3. Told(ran, k, p, verdict)
        BY <3>2 DEF Told
      <3> QED BY <3>1, <3>3, RepliedOK
    <2> HIDE DEF verdict
    <2>5. CallOK(t, calls'[g], ran)
      BY <2>2, <2>3, <2>4
    <2>6. Called(t, calls', ran)
      BY <1>2, <1>5, <2>5 DEF History, Called
    <2> QED BY <1>2, <1>3, <2>1, <2>6 DEF History
  <1> QED BY <1>6, <1>7

LEMMA WaitHistory ==
  ASSUME HInv, NEW g \in Calls, WaitEnds(g) \/ WaitGivenUp(g)
  PROVE  History(rt, calls, ran, now)'
  <1>1. History(rt, calls, ran, now) /\ DOMAIN calls = Calls
    BY DEF HInv, IInv
  <1>2. /\ rt' = rt /\ ran' = ran /\ now' = now
        /\ \A h \in Calls \ {g} : calls'[h] = calls[h]
    BY <1>1 DEF WaitEnds, WaitGivenUp
  <1>3. CallOK(rt, calls[g], ran)
    BY <1>1 DEF History, Called
  <1>4. ASSUME WaitEnds(g) PROVE CallOK(rt, calls'[g], ran)
    <2>1. /\ calls[g].phase = "waiting"
          /\ calls'[g] = Reply(calls[g].key, calls[g].payload, calls[g].got)
      BY <1>1, <1>4 DEF WaitEnds
    <2>2. calls[g].key \in Key /\ Told(ran, calls[g].key, calls[g].payload, calls[g].got)
      BY <1>3, <2>1 DEF CallOK
    <2> QED BY <2>1, <2>2, RepliedOK
  <1>5. ASSUME WaitGivenUp(g) PROVE CallOK(rt, calls'[g], ran)
    <2>1. /\ calls[g].phase = "waiting"
          /\ calls'[g] = Reply(calls[g].key, calls[g].payload, "in_progress")
      BY <1>1, <1>5 DEF WaitGivenUp
    <2>2. calls[g].key \in Key /\ Told(ran, calls[g].key, calls[g].payload, "in_progress")
      BY <1>3, <2>1 DEF CallOK, Told
    <2> QED BY <2>1, <2>2, RepliedOK
  <1>6. Called(rt, calls', ran)
    BY <1>1, <1>2, <1>4, <1>5 DEF History, Called
  <1> QED BY <1>1, <1>2, <1>6 DEF History

LEMMA TickHistory ==
  ASSUME HInv, Tick
  PROVE  History(rt, calls, ran, now)'
  <1>1. History(rt, calls, ran, now) /\ now \in Nat
    BY DEF HInv, IInv
  <1>2. rt' = rt /\ calls' = calls /\ ran' = ran /\ now' = now + 1
    BY DEF Tick
  <1>3. ASSUME NEW k \in Key, HasRun(ran, k), Lapsed(ran, k, now)
        PROVE  Lapsed(ran, k, now + 1)
    <2>1. ran[k].at \in Nat
      BY <1>1, <1>3 DEF History, Recorded
    <2>2. now + 1 \in Nat /\ now <= now + 1
      BY <1>1
    <2> QED BY <1>1, <1>3, <2>1, <2>2, StaysLapsed
  <1>4. InHorizon(rt, ran, now + 1)
    BY <1>1, <1>3 DEF History, InHorizon
  <1> QED BY <1>1, <1>2, <1>4 DEF History

\* What the end of command k's execution says to the calls.
LEMMA CalledWhenFinished ==
  ASSUME NEW g \in Calls, NEW res \in Results, NEW k \in Key, NEW p,
         NEW t, NEW u, NEW cs, NEW cs2, NEW r, NEW r2,
         Called(t, cs, r), t.byKey[k].payload = p, r[k].count = 0,
         cs2[g] = Reply(k, p, res),
         \A h \in Calls \ {g} :
            cs2[h] = IF cs[h].phase = "waiting" /\ cs[h].key = k /\ cs[h].got = "none"
                     THEN [cs[h] EXCEPT !.got = res] ELSE cs[h],
         \A h \in Calls \ {g} : ~Runs(cs, h, k),
         \A c : Awaits(t, c) /\ c.key # k => Awaits(u, c),
         Told(r2, k, p, res),
         \A j \in Key \ {k} : r2[j] = r[j]
  PROVE  Called(u, cs2, r2)
  <1>2. CallOK(u, cs2[g], r2)
    BY RepliedOK
  <1>3. ASSUME NEW j \in Key, NEW q, NEW x, Told(r, j, q, x) PROVE Told(r2, j, q, x)
    BY <1>3 DEF Told, HasRun
  <1>4. ASSUME NEW h \in Calls \ {g} PROVE CallOK(u, cs2[h], r2)
    <2> DEFINE c == cs[h]
               d == cs2[h]
    <2>1. CallOK(t, c, r) /\ ~(c.phase = "running" /\ c.key = k)
      BY DEF Called, Runs
    <2>2. d = IF c.phase = "waiting" /\ c.key = k /\ c.got = "none" THEN [c EXCEPT !.got = res] ELSE c
      OBVIOUS
    <2> HIDE DEF c, d
    <2>3. ASSUME c.phase = "waiting", c.key = k, c.got = "none"
          PROVE  CallOK(u, d, r2)
      <3>1. d = [phase |-> c.phase, key |-> k, payload |-> c.payload, got |-> res, reply |-> c.reply]
        BY <2>1, <2>2, <2>3 DEF CallOK, IsCall
      <3>2. c.payload = p /\ res # "none"
        BY <2>1, <2>3 DEF CallOK, Awaits, Results
      <3>3. d.phase = "waiting" /\ d.key = k /\ d.payload = p /\ d.got = res /\ d.reply = c.reply
        BY <2>3, <3>1, <3>2
      <3>4. IsCall(d)
        BY <3>1, <3>3, <2>3, <3>2 DEF IsCall
      <3> QED BY <3>2, <3>3, <3>4 DEF CallOK
    <2>4. ASSUME ~(c.phase = "waiting" /\ c.key = k /\ c.got = "none")
          PROVE  CallOK(u, d, r2)
      <3>1. d = c
        BY <2>2, <2>4
      <3>2. c.phase \in {"running", "waiting", "replied"} => c.key \in Key
        BY <2>1 DEF CallOK
      <3>3. c.phase = "running" => Awaits(u, c)
        BY <2>1 DEF CallOK
      <3>4. c.phase = "waiting" /\ c.got = "none" => Awaits(u, c)
        BY <2>1, <2>4 DEF CallOK
      <3>5. c.phase = "waiting" => Told(r2, c.key, c.payload, c.got)
        BY <1>3, <2>1, <3>2 DEF CallOK
      <3>6. c.phase = "replied" => Told(r2, c.key, c.payload, c.reply)
        BY <1>3, <2>1, <3>2 DEF CallOK
      <3>7. IsCall(c)
        BY <2>1 DEF CallOK
      <3>8. CallOK(u, c, r2)
        BY <3>2, <3>3, <3>4, <3>5, <3>6, <3>7 DEF CallOK
      <3> QED BY <3>1, <3>8
    <2> QED BY <2>3, <2>4 DEF d
  <1> QED BY <1>2, <1>4 DEF Called

\* The table as a result is stored in it, before the entry past the cap goes.
LEMMA StoredHistory ==
  ASSUME NEW t, Table(t), NEW k \in Key, OpenIn(t, k), NEW u, NEW x \in Receipt,
         NEW r, NEW r2, NEW cs, NEW cs2, NEW time \in Nat,
         History(t, cs, r, time), r[k].count = 0, \A j \in Key : r[j].count \in {0, 1},
         u.stores = t.stores + 1, DOMAIN u.byKey = DOMAIN t.byKey, u.byKey[k] = x, x.completed,
         \A j \in DOMAIN t.byKey \ {k} : u.byKey[j] = t.byKey[j],
         r2[k] = [count |-> 1, payload |-> x.payload, res |-> x.res, at |-> time, n |-> t.stores + 1],
         x.at = time, x.n = t.stores + 1,
         \A j \in Key \ {k} : r2[j] = r[j],
         Called(u, cs2, r2)
  PROVE  History(u, cs2, r2, time)
  <1>1. /\ r2[k].count = 1 /\ r2[k].payload = x.payload /\ r2[k].res = x.res
        /\ r2[k].at = time /\ r2[k].n = t.stores + 1
    OBVIOUS
  <1>2. t.stores \in Nat
    BY DEF Table, Shape
  <1>3. k \in Completed(u) /\ \A j \in Completed(u) \ {k} : j \in Completed(t) /\ u.byKey[j] = t.byKey[j]
    BY DEF OpenIn, Completed
  <1>4. \A j \in Completed(t) : j # k /\ j \in Completed(u)
    BY DEF OpenIn, Completed
  <1>5. Completed(u) \subseteq Key
    BY DEF Completed, Table
  <1>6. Same(u, r2)
    <2>1. \A j \in Completed(u) \ {k} : Same(t, r) => /\ HasRun(r, j) /\ r[j].payload = u.byKey[j].payload
                                             /\ r[j].res = u.byKey[j].res
                                             /\ r[j].at = u.byKey[j].at /\ r[j].n = u.byKey[j].n
      BY <1>3 DEF Same
    <2> QED BY <1>1, <1>5, <2>1 DEF Same, HasRun, History
  <1>7. Recorded(u, r2)
    <2>1. \A j \in Key \ {k} : HasRun(r2, j) => r2[j].at \in Nat /\ r2[j].n \in 1..t.stores
      BY DEF History, Recorded, HasRun
    <2>2. \A i, j \in Key \ {k} : HasRun(r2, i) /\ HasRun(r2, j) /\ r2[i].n = r2[j].n => i = j
      BY DEF History, Recorded, HasRun
    <2>3. \A j \in Key \ {k} : HasRun(r2, j) => r2[j].n # r2[k].n
      BY <1>1, <1>2, <2>1
    <2>4. r2[k].n \in 1..u.stores /\ \A n \in 1..t.stores : n \in 1..u.stores
      BY <1>1, <1>2
    <2> QED BY <1>1, <2>1, <2>2, <2>3, <2>4 DEF Recorded
  <1>8. InHorizon(u, r2, time)
    <2> SUFFICES ASSUME NEW j \in Key, HasRun(r2, j), j \notin Completed(u)
                 PROVE  Lapsed(r2, j, time)
      BY DEF InHorizon
    <2>1. j # k /\ r2[j] = r[j] /\ HasRun(r, j)
      BY <1>3 DEF HasRun
    <2>2. r[j].at \in Nat /\ Lapsed(r, j, time)
      BY <1>4, <2>1 DEF History, Recorded, InHorizon
    <2>3. Later(r, j) \subseteq Later(r2, j)
      BY <2>1 DEF Later
    <2> QED BY <2>1, <2>2, <2>3, StaysLapsed
  <1> QED BY <1>6, <1>7, <1>8 DEF History

LEMMA FinishHistory ==
  ASSUME HInv, NEW g \in Calls, NEW res \in Results, Finish(g, res)
  PROVE  History(rt, calls, ran, now)'
  <1> DEFINE k == calls[g].key
             p == calls[g].payload
  <1>1. /\ Table(rt) /\ Remembered(rt, ran) /\ Owned(rt, calls, ran) /\ now \in Nat
        /\ DOMAIN calls = Calls /\ DOMAIN ran = Key
    BY DEF HInv, IInv
  <1>2. /\ Same(rt, ran) /\ Recorded(rt, ran) /\ InHorizon(rt, ran, now) /\ Called(rt, calls, ran)
        /\ History(rt, calls, ran, now)
    BY DEF HInv, History
  <1>3. /\ calls[g].phase = "running" /\ rt' = Published(rt, k, res)
        /\ calls' = [Woken(k, res) EXCEPT ![g] = Reply(k, p, res)]
        /\ ran' = Executed(k, p, res) /\ now' = now
    BY DEF Finish
  <1>4. k \in Key /\ OpenIn(rt, k) /\ ran[k].count = 0 /\ \A h \in Calls \ {g} : ~Runs(calls, h, k)
    BY <1>1, <1>3 DEF Owned
  <1>5. rt.byKey[k].payload = p
    BY <1>2, <1>3 DEF Called, CallOK, Awaits
  <1>6. calls'[g] = Reply(k, p, res)
    BY <1>3 DEF Woken
  <1>7. \A h \in Calls \ {g} :
          calls'[h] = IF calls[h].phase = "waiting" /\ calls[h].key = k /\ calls[h].got = "none"
                      THEN [calls[h] EXCEPT !.got = res] ELSE calls[h]
    BY <1>3 DEF Woken, Parked
  <1> HIDE DEF k, p
  <1>8. CASE res = "gate"
    <2>1. rt' = Dropped(rt, {k}) /\ ran' = ran
      BY <1>3, <1>8 DEF Published, Executed
    <2>2. {k} \in SUBSET DOMAIN rt.byKey
      BY <1>4 DEF OpenIn
    <2>3. /\ rt'.stores = rt.stores /\ DOMAIN rt'.byKey = DOMAIN rt.byKey \ {k}
          /\ \A j \in DOMAIN rt'.byKey : rt'.byKey[j] = rt.byKey[j]
      BY <1>1, <2>1, <2>2, DroppedTable
    <2>4. Completed(rt') = Completed(rt) /\ \A j \in Completed(rt) : rt'.byKey[j] = rt.byKey[j]
      BY <1>4, <2>3 DEF Completed, OpenIn
    <2>5. Same(rt', ran) /\ Recorded(rt', ran) /\ InHorizon(rt', ran, now)
      BY <1>2, <2>3, <2>4 DEF Same, Recorded, InHorizon
    <2>6. \A c : Awaits(rt, c) /\ c.key # k => Awaits(rt', c)
      BY <2>3 DEF Awaits, OpenIn
    <2>7. Told(ran, k, p, res)
      BY <1>8 DEF Told
    <2>8. Called(rt', calls', ran)
      BY <1>2, <1>4, <1>5, <1>6, <1>7, <2>6, <2>7, CalledWhenFinished
    <2> QED BY <1>3, <2>1, <2>5, <2>8 DEF History
  <1>9. CASE res # "gate"
    <2> DEFINE x == [rt.byKey[k] EXCEPT !.completed = TRUE, !.res = res, !.at = now, !.n = rt.stores + 1]
               u == [clientSeq |-> rt.clientSeq, clients |-> rt.clients,
                     byKey |-> [rt.byKey EXCEPT ![k] = x], stores |-> rt.stores + 1]
    <2>1. rt.byKey[k] \in Receipt /\ k \in DOMAIN rt.byKey /\ rt.stores + 1 \in Nat
      BY <1>1, <1>4 DEF Table, Shape, OpenIn
    <2>2. /\ x \in Receipt /\ x.completed /\ x.payload = p /\ x.res = res
          /\ x.at = now /\ x.n = rt.stores + 1
      BY <1>1, <1>5, <2>1 DEF Receipt
    <2>3. rt' = Pruned(u)
      BY <1>1, <1>3, <1>9, PublishedStores DEF x, u
    <2>4. ran' = [ran EXCEPT ![k] = [count |-> @.count + 1, payload |-> p, res |-> res, at |-> now, n |-> rt.stores + 1]]
      BY <1>3, <1>9 DEF Executed
    <2> HIDE DEF x
    <2>5. /\ Table(u) /\ u.stores = rt.stores + 1
          /\ DOMAIN u.byKey = DOMAIN rt.byKey /\ u.byKey[k] = x
          /\ \A j \in DOMAIN rt.byKey \ {k} : u.byKey[j] = rt.byKey[j]
      BY <1>1, <2>1, <2>2, StoredTable
    <2> HIDE DEF u
    <2>6. /\ ran'[k] = [count |-> 1, payload |-> p, res |-> res, at |-> now, n |-> rt.stores + 1]
          /\ \A j \in Key \ {k} : ran'[j] = ran[j]
      BY <1>1, <1>4, <2>4
    <2>7. \A c : Awaits(rt, c) /\ c.key # k => Awaits(u, c)
      BY <2>5 DEF Awaits, OpenIn
    <2>8. Told(ran', k, p, res)
      BY <2>6 DEF Told, HasRun
    <2>9. Called(u, calls', ran')
      BY <1>2, <1>4, <1>5, <1>6, <1>7, <2>6, <2>7, <2>8, CalledWhenFinished
    <2>10. \A j \in Key : ran[j].count \in {0, 1}
      BY <1>1 DEF Remembered
    <2>11. History(u, calls', ran', now)
      BY <1>1, <1>2, <1>4, <2>2, <2>5, <2>6, <2>9, <2>10, StoredHistory
    <2> QED BY <1>3, <2>3, <2>5, <2>11, PrunedHistory
  <1> QED BY <1>8, <1>9

LEMMA NextHistory == HInv /\ [Next]_vars => HInv'
  <1> SUFFICES ASSUME HInv, [Next]_vars PROVE HInv'
    OBVIOUS
  <1>1. IInv'
    BY NextInv DEF HInv
  <1>2. CASE NewClient
    BY <1>1, <1>2, NewClientHistory DEF HInv
  <1>3. CASE \E c \in 1..MaxClients : ReleaseClient(c) \/ ClaimClient(c)
    BY <1>1, <1>3, ClientHistory DEF HInv
  <1>4. CASE \E g \in Calls, k \in Key, p \in Payloads : Send(g, k, p)
    BY <1>1, <1>4, SendHistory DEF HInv
  <1>5. CASE \E g \in Calls, res \in Results : Finish(g, res)
    BY <1>1, <1>5, FinishHistory DEF HInv
  <1>6. CASE \E g \in Calls : WaitEnds(g) \/ WaitGivenUp(g)
    BY <1>1, <1>6, WaitHistory DEF HInv
  <1>7. CASE Tick
    BY <1>1, <1>7, TickHistory DEF HInv
  <1>8. CASE UNCHANGED vars
    <2>1. rt' = rt /\ calls' = calls /\ ran' = ran /\ now' = now
      BY <1>8 DEF vars
    <2> QED BY <1>1, <2>1 DEF HInv
  <1> QED BY <1>2, <1>3, <1>4, <1>5, <1>6, <1>7, <1>8 DEF Next

\* A call (receipts.go) that is told an outcome, at once, after a wait or from
\* the table, is told that of the one execution of its own id with its own
\* payload, whatever was evicted or retired in between.
THEOREM AnswersOwn == Spec => []AnswersAreOwn
  <1>1. HInv => AnswersAreOwn
    BY DEF HInv, History, Called, CallOK, Told, HasRun, AnswersAreOwn
  <1>2. Init => HInv
    BY InitInv, InitHistory DEF HInv
  <1> QED BY <1>1, <1>2, NextHistory, PTL DEF Spec

\* RetryHorizon's promise (receipts.go), for every cap and age: a result no
\* older than the age with fewer than the cap stored after it is in the table,
\* and its client is known.
THEOREM KeptInHorizon == Spec => []KeptWithinHorizon
  <1>1. ASSUME HInv PROVE KeptWithinHorizon
    <2> SUFFICES ASSUME NEW k \in Key, ran[k].count > 0, now - ran[k].at <= ReceiptAge,
                        Cardinality(Later(ran, k)) < ReceiptCap
                 PROVE  /\ k.client \in DOMAIN rt.clients /\ k \in DOMAIN rt.byKey
                        /\ rt.byKey[k].completed /\ rt.byKey[k].res = ran[k].res
      BY DEF KeptWithinHorizon, Later
    <2>1. /\ Table(rt) /\ Remembered(rt, ran) /\ now \in Nat
          /\ Same(rt, ran) /\ Recorded(rt, ran) /\ InHorizon(rt, ran, now)
      BY <1>1 DEF HInv, IInv, History
    <2>2. HasRun(ran, k)
      BY <2>1 DEF Remembered, HasRun
    <2>3. ran[k].at \in Nat /\ ReceiptAge \in Nat /\ ReceiptCap \in Nat
      BY <2>1, <2>2, ReceiptsAssumption DEF Recorded, ReceiptsAssumption
    <2>4. ~Lapsed(ran, k, now)
      BY <2>1, <2>3, LaterIsFinite DEF Lapsed
    <2>5. k \in Completed(rt)
      BY <2>1, <2>2, <2>4 DEF InHorizon
    <2> QED BY <2>1, <2>5 DEF Completed, Table, Same
  <1>2. Init => HInv
    BY InitInv, InitHistory DEF HInv
  <1> QED BY <1>1, <1>2, NextHistory, PTL DEF Spec
=============================================================================
