-------------------------- MODULE EngineOrderProofs --------------------------
(***************************************************************************)
(* What the engine owes its clients and its host, for every value of the   *)
(* constants: a follow-up is prompted once and is not lost, an exit fence  *)
(* has something to wait for and nothing starts behind it, a host told     *)
(* "idle" may end the session, and a client that folds the log shows the   *)
(* engine's own state.                                                     *)
(*                                                                         *)
(* The invariant is JInv, which stands beside EngineProofs' IInv.  Its     *)
(* heart is Orderly: a row is in one place (RowsApart), and what the       *)
(* session answered, in a continuation (ContTells) and in the turn the     *)
(* engine took it into (TurnTells), says whether the prompt reached the    *)
(* agent.  So only a row that did not is put back (RestoreTurnOrderly).    *)
(*                                                                         *)
(* Every operator of a section keeps Orderly and goes Onward: an ended     *)
(* exit fence stays ended with no turn claimed, and what a host's fence    *)
(* found still stays still (Goes); a settlement also keeps the row it ends *)
(* (Passes).  HeldBack, which Sync restores on every way out, keeps the    *)
(* session's wakes out; HostTells carries a host's verdict across all of   *)
(* it.  There is one lemma per action (...Keeps), then NextKeeps and the   *)
(* theorems.                                                               *)
(*                                                                         *)
(* The second half is the client's view.  FoldLeft is unrolled by its last *)
(* event (FoldAppend) and by batches (FoldConcat), over Induction.  Inside *)
(* a section the view lags: Saying is how far, in what the section has yet *)
(* to place, and Said that it lags by nothing else.  A batch placed closes *)
(* the gap (PlaceSaid and the lemmas after it), a change that no event     *)
(* tells of opens none (Silent), and every way out of a section is Seen,   *)
(* the invariant, by one lemma per action (...Seen).                       *)
(***************************************************************************)
EXTENDS EngineProofs, WellFoundedInduction

-----------------------------------------------------------------------------
(* The rows of the queue, by their ids *)

Ids(q) == {q[i].id : i \in DOMAIN q}
Distinct(q) == \A i, j \in DOMAIN q : q[i].id = q[j].id => i = j

LEMMA IdsTyped == ASSUME NEW q \in Seq(Row) PROVE Ids(q) \subseteq Nat \ {0}
  <1>1. \A i \in DOMAIN q : q[i] \in Row
    OBVIOUS
  <1> QED BY <1>1 DEF Ids, Row

LEMMA HasIds == ASSUME NEW q, NEW id PROVE Has(q, id) <=> id \in Ids(q)
  BY DEF Has, Ids

LEMMA NoIds == Ids(<<>>) = {} /\ Distinct(<<>>)
  BY DEF Ids, Distinct

LEMMA TakeIds ==
  ASSUME NEW q \in Seq(Row), Distinct(q), NEW id
  PROVE  Ids(Take(q, id)) = Ids(q) \ {id} /\ Distinct(Take(q, id))
  <1> DEFINE p == Take(q, id)
             n == Position(q, id)
  <1>1. CASE ~Has(q, id)
    BY <1>1, HasIds DEF Take
  <1>2. CASE Has(q, id)
    <2>1. n \in 1..Len(q) /\ q[n].id = id
      BY <1>2, PositionInQueue
    <2>2. p = SubSeq(q, 1, n - 1) \o SubSeq(q, n + 1, Len(q))
      BY <1>2 DEF Take, RemoveAt
    <2> HIDE DEF n, p
    <2>3. /\ SubSeq(q, 1, n - 1) \in Seq(Row) /\ SubSeq(q, n + 1, Len(q)) \in Seq(Row)
          /\ Len(SubSeq(q, 1, n - 1)) = n - 1 /\ Len(SubSeq(q, n + 1, Len(q))) = Len(q) - n
          /\ \A k \in 1..(n - 1) : SubSeq(q, 1, n - 1)[k] = q[k]
          /\ \A k \in 1..(Len(q) - n) : SubSeq(q, n + 1, Len(q))[k] = q[n + k]
      BY <2>1
    <2>4. /\ p \in Seq(Row) /\ Len(p) = Len(q) - 1
          /\ \A k \in 1..(Len(q) - 1) : p[k] = IF k < n THEN q[k] ELSE q[k + 1]
      <3> DEFINE a == SubSeq(q, 1, n - 1)
                 b == SubSeq(q, n + 1, Len(q))
      <3> HIDE DEF a, b
      <3>1. /\ a \in Seq(Row) /\ b \in Seq(Row) /\ Len(a) = n - 1 /\ Len(b) = Len(q) - n
            /\ \A k \in 1..(n - 1) : a[k] = q[k]
            /\ \A k \in 1..(Len(q) - n) : b[k] = q[n + k]
        BY <2>3 DEF a, b
      <3>2. p = a \o b
        BY <2>2 DEF a, b
      <3>3. p \in Seq(Row) /\ Len(p) = Len(q) - 1
        <4>1. a \o b \in Seq(Row) /\ Len(a \o b) = Len(a) + Len(b)
          BY <3>1, ConcatProperties
        <4> QED BY <2>1, <3>1, <3>2, <4>1
      <3>4. ASSUME NEW k \in 1..(Len(q) - 1)
            PROVE  p[k] = IF k < n THEN q[k] ELSE q[k + 1]
        <4>1. CASE k < n
          BY <2>1, <3>1, <3>2, <4>1
        <4>2. CASE ~(k < n)
          <5>1. p[k] = b[k - (n - 1)]
            BY <2>1, <3>1, <3>2, <4>2
          <5>2. k - (n - 1) \in 1..(Len(q) - n) /\ n + (k - (n - 1)) = k + 1
            BY <2>1, <4>2
          <5> QED BY <3>1, <4>2, <5>1, <5>2
        <4> QED BY <4>1, <4>2
      <3> QED BY <3>3, <3>4
    <2>5. DOMAIN p = 1..(Len(q) - 1) /\ DOMAIN q = 1..Len(q)
      BY <2>4
    <2> DEFINE at(k) == IF k < n THEN k ELSE k + 1
    <2>6. \A k \in DOMAIN p : at(k) \in DOMAIN q /\ at(k) # n /\ p[k] = q[at(k)]
      BY <2>1, <2>4, <2>5
    <2>7. \A k, l \in DOMAIN p : at(k) = at(l) => k = l
      BY <2>1, <2>5
    <2>8. \A m \in DOMAIN q : m # n => \E k \in DOMAIN p : at(k) = m
      <3> SUFFICES ASSUME NEW m \in DOMAIN q, m # n PROVE \E k \in DOMAIN p : at(k) = m
        OBVIOUS
      <3>1. CASE m < n
        BY <2>1, <2>5, <3>1
      <3>2. CASE m > n
        <4>1. m - 1 \in DOMAIN p /\ at(m - 1) = m
          BY <2>1, <2>5, <3>2
        <4> QED BY <4>1
      <3> QED BY <2>1, <2>5, <3>1, <3>2
    <2> HIDE DEF at
    <2>9. Distinct(p)
      BY <2>6, <2>7 DEF Distinct
    <2>10. Ids(p) = Ids(q) \ {id}
      <3>1. \A k \in DOMAIN p : p[k].id \in Ids(q) /\ p[k].id # id
        BY <2>1, <2>5, <2>6 DEF Ids, Distinct
      <3>2. \A m \in DOMAIN q : q[m].id # id => q[m].id \in Ids(p)
        BY <2>1, <2>6, <2>8 DEF Ids
      <3> QED BY <3>1, <3>2 DEF Ids
    <2> QED BY <2>9, <2>10 DEF p
  <1> QED BY <1>1, <1>2

LEMMA ConcatIds ==
  ASSUME NEW p \in Seq(Row), NEW q \in Seq(Row), Distinct(p), Distinct(q), Ids(p) \cap Ids(q) = {}
  PROVE  Ids(p \o q) = Ids(p) \cup Ids(q) /\ Distinct(p \o q)
  <1> DEFINE r == p \o q
  <1>1. /\ DOMAIN r = 1..(Len(p) + Len(q)) /\ DOMAIN p = 1..Len(p) /\ DOMAIN q = 1..Len(q)
        /\ \A i \in DOMAIN p : r[i] = p[i]
        /\ \A i \in DOMAIN q : r[Len(p) + i] = q[i]
        /\ Len(p) \in Nat /\ Len(q) \in Nat
    OBVIOUS
  <1> HIDE DEF r
  <1>2. ASSUME NEW i \in DOMAIN r, i \notin DOMAIN p
        PROVE  i - Len(p) \in DOMAIN q /\ r[i] = q[i - Len(p)]
    <2>1. i - Len(p) \in DOMAIN q /\ Len(p) + (i - Len(p)) = i
      BY <1>1, <1>2
    <2> QED BY <1>1, <2>1
  <1>3. \A i \in DOMAIN p : i \in DOMAIN r /\ r[i].id = p[i].id
    BY <1>1
  <1>4. \A i \in DOMAIN q : Len(p) + i \in DOMAIN r /\ r[Len(p) + i].id = q[i].id
    BY <1>1
  <1>5. Ids(r) = Ids(p) \cup Ids(q)
    <2>1. Ids(p) \subseteq Ids(r)
      BY <1>3 DEF Ids
    <2>2. Ids(q) \subseteq Ids(r)
      BY <1>4 DEF Ids
    <2>3. Ids(r) \subseteq Ids(p) \cup Ids(q)
      BY <1>1, <1>2 DEF Ids
    <2> QED BY <2>1, <2>2, <2>3
  <1>6. Distinct(r)
    <2> SUFFICES ASSUME NEW i \in DOMAIN r, NEW j \in DOMAIN r, r[i].id = r[j].id PROVE i = j
      BY DEF Distinct
    <2>1. CASE i \in DOMAIN p /\ j \in DOMAIN p
      BY <1>1, <2>1 DEF Distinct
    <2>2. CASE i \notin DOMAIN p /\ j \notin DOMAIN p
      <3>1. i - Len(p) = j - Len(p)
        BY <1>2, <2>2 DEF Distinct
      <3> QED BY <1>1, <3>1
    <2>3. CASE i \in DOMAIN p /\ j \notin DOMAIN p
      <3>1. r[i].id \in Ids(p) /\ r[j].id \in Ids(q)
        BY <1>2, <1>3, <2>3 DEF Ids
      <3> QED BY <3>1
    <2>4. CASE i \notin DOMAIN p /\ j \in DOMAIN p
      <3>1. r[i].id \in Ids(q) /\ r[j].id \in Ids(p)
        BY <1>2, <1>3, <2>4 DEF Ids
      <3> QED BY <3>1
    <2> QED BY <2>1, <2>2, <2>3, <2>4
  <1> QED BY <1>5, <1>6 DEF r

LEMMA OneId == ASSUME NEW row \in Row PROVE Ids(<<row>>) = {row.id} /\ Distinct(<<row>>)
  BY DEF Ids, Distinct

LEMMA AppendIds ==
  ASSUME NEW q \in Seq(Row), Distinct(q), NEW row \in Row, row.id \notin Ids(q)
  PROVE  Ids(Append(q, row)) = Ids(q) \cup {row.id} /\ Distinct(Append(q, row))
  <1>1. Append(q, row) = q \o <<row>>
    OBVIOUS
  <1>2. <<row>> \in Seq(Row)
    OBVIOUS
  <1>3. /\ Ids(<<row>>) = {row.id} /\ Distinct(<<row>>)
        /\ Ids(q) \cap Ids(<<row>>) = {}
    BY OneId
  <1>4. Ids(q \o <<row>>) = Ids(q) \cup Ids(<<row>>) /\ Distinct(q \o <<row>>)
    BY <1>2, <1>3, ConcatIds, Zenon
  <1> QED BY <1>1, <1>3, <1>4

LEMMA EditIds ==
  ASSUME NEW q \in Seq(Row), Distinct(q), NEW id, Has(q, id)
  PROVE  Ids(Edit(q, id)) = Ids(q) /\ Distinct(Edit(q, id))
  <1> DEFINE n == Position(q, id)
             p == Edit(q, id)
             edited == [id |-> id, ver |-> q[n].ver + 1]
  <1>1. n \in DOMAIN q /\ q[n].id = id
    BY PositionInQueue
  <1>2. p = [q EXCEPT ![n] = edited] /\ edited.id = id
    BY DEF Edit
  <1> HIDE DEF n, p, edited
  <1>3. DOMAIN p = DOMAIN q /\ \A i \in DOMAIN q : p[i].id = q[i].id
    BY <1>1, <1>2
  <1>4. Ids(p) = Ids(q) /\ Distinct(p)
    BY <1>3 DEF Ids, Distinct
  <1> QED BY <1>4 DEF p

LEMMA SteerIds ==
  ASSUME NEW seq \in Nat, NEW n \in Nat
  PROVE  Ids(SteerRows(seq, n)) \subseteq (seq + 1)..(seq + n) /\ Distinct(SteerRows(seq, n))
  <1> DEFINE r == SteerRows(seq, n)
  <1>1. DOMAIN r = 1..n /\ \A i \in 1..n : r[i].id = seq + n + 1 - i
    BY DEF SteerRows
  <1> HIDE DEF r
  <1>2. Ids(r) \subseteq (seq + 1)..(seq + n)
    BY <1>1 DEF Ids
  <1>3. Distinct(r)
    BY <1>1 DEF Distinct
  <1> QED BY <1>2, <1>3 DEF r

-----------------------------------------------------------------------------
(* What a turn's row and the exit fence stand for *)

Ran(s, row) == row \in s.reached \cup {0}

\* A fence over a turn is over the current one, until that one has ended.
FenceBound(e) ==
  e.exit.up /\ ~e.closed /\ ~e.exit.ended /\ e.exit.turn # 0 => e.exit.turn = e.cur.id

\* A row is in one place: the queue, the running turn, or with the agent.
RowsApart(e, s) ==
  /\ Distinct(e.queue)
  /\ \A id \in Ids(e.queue) : id <= e.rowSeq /\ id \notin s.reached /\ id # e.cur.row.id
  /\ \A id \in s.reached : id # 0 /\ id <= e.rowSeq
  /\ e.cur.row.id <= e.rowSeq

\* A continuation is the current turn's, unless the engine is closed, and what
\* it has come back with says whether its prompt reached the agent.
ContTells(e, s, c) ==
  /\ c.phase # "back" => c.turn = s.slot /\ c.res = "none"
  /\ ~e.closed => c.turn = e.cur.id /\ c.row = e.cur.row.id
  /\ c.row <= e.rowSeq
  /\ c.phase \in {"claimed", "open"} => c.row \notin s.reached \cup Ids(e.queue)
  /\ c.phase = "sent" => Ran(s, c.row)
  /\ c.res = "foreign" => e.closed \/ c.row \notin s.reached
  /\ c.res \in StopReasons => Ran(s, c.row)
  /\ c.res = "failed" => e.closed \/ Ran(s, c.row)
  /\ c.res = "withdrawn" => e.closed \/ e.cur.cancelAsked
  /\ c.phase = "back" => c.res # "none"

\* What the engine took of the continuation says the same of the turn.
TurnTells(e, s) ==
  /\ e.cur.id = 0 => e.cur.row = NoRow
  /\ e.cur.returned =>
       /\ e.cur.res = "foreign" => e.cur.row.id \notin s.reached
       /\ e.cur.res \in StopReasons \cup {"failed"} => Ran(s, e.cur.row.id)
       /\ e.cur.res = "withdrawn" => e.cur.cancelAsked
       /\ e.cur.res \notin {"inflight", "none"}
  /\ e.cur.retry => e.cur.res = "foreign" /\ RetryForeignTurn

\* A cancel's mark, and a cancel on its way, are of a turn that was asked.
MarksTell(e, s) ==
  /\ ~e.closed /\ s.slot # 0 /\ s.cancelling => e.cur.cancelAsked
  /\ e.cur.id # 0 /\ e.holds # {} => e.cur.cancelAsked
  /\ s.closed => e.closed
  /\ e.closed => e.cur.id = 0

Orderly(x) ==
  /\ FenceBound(x.e) /\ RowsApart(x.e, x.s)
  /\ \A c \in x.s.conts : ContTells(x.e, x.s, c)
  /\ TurnTells(x.e, x.s) /\ MarksTell(x.e, x.s)

\* Nothing runs, waits or is about to be admitted.
Still(e) == e.cur.id = 0 /\ e.queue = <<>> /\ e.armed = NoSend /\ ~e.admitting

\* What every part of a section keeps: an exit fence that has ended its turn
\* holds, and so does the stillness under a close fence.
Onward(y, x) ==
  /\ ExitFenceEnded(x.e) => ExitFenceEnded(y.e) /\ y.e.turnSeq = x.e.turnSeq
  /\ x.e.closeFences # {} /\ Still(x.e) => Still(y.e)
  /\ y.e.closeFences = x.e.closeFences
  /\ y.e.closed = x.e.closed /\ y.s.closed = x.s.closed
  /\ y.s.reached = x.s.reached
  /\ y.s.children = x.s.children /\ y.s.pending = x.s.pending
  /\ Wake(y.s) => Wake(x.s)

LEMMA OnwardTransitive ==
  ASSUME NEW x, NEW y, NEW z, Onward(y, x), Onward(z, y)
  PROVE  Onward(z, x)
  BY DEF Onward

\* The current turn stays the current one.
SameTurn(y, x) == x.e.cur.id # 0 => y.e.cur.id = x.e.cur.id

LEMMA SameTurnTransitive ==
  ASSUME NEW x, NEW y, NEW z, SameTurn(y, x), SameTurn(z, y)
  PROVE  SameTurn(z, x)
  BY DEF SameTurn

\* Nothing of what Orderly reads changes, but that the send may be disarmed and
\* a wake may end.
Alike(y, x) ==
  /\ y.e.exit = x.e.exit /\ y.e.cur = x.e.cur /\ y.e.turnSeq = x.e.turnSeq
  /\ y.e.queue = x.e.queue /\ y.e.rowSeq = x.e.rowSeq
  /\ y.e.closed = x.e.closed /\ y.e.stopped = x.e.stopped /\ y.e.holds = x.e.holds
  /\ y.e.closeFences = x.e.closeFences /\ y.e.admitting = x.e.admitting
  /\ y.e.armed \in {x.e.armed, NoSend}
  /\ y.s.conts = x.s.conts /\ y.s.slot = x.s.slot /\ y.s.reached = x.s.reached
  /\ y.s.children = x.s.children /\ y.s.pending = x.s.pending /\ y.s.closed = x.s.closed
  /\ y.s.cancelling => x.s.cancelling
  /\ Wake(y.s) => Wake(x.s)

LEMMA AlikeItself == ASSUME NEW x PROVE Alike(x, x)
  BY DEF Alike

LEMMA AlikeTransitive ==
  ASSUME NEW x, NEW y, NEW z, Alike(y, x), Alike(z, y)
  PROVE  Alike(z, x)
  BY DEF Alike

LEMMA AlikeOrderly ==
  ASSUME NEW x, NEW y, Alike(y, x)
  PROVE  /\ Orderly(x) => Orderly(y)
         /\ Onward(y, x) /\ SameTurn(y, x)
  <1>1. Orderly(x) => Orderly(y)
    <2> SUFFICES ASSUME Orderly(x) PROVE Orderly(y)
      OBVIOUS
    <2>1. FenceBound(y.e)
      BY DEF Alike, Orderly, FenceBound
    <2>2. RowsApart(y.e, y.s)
      BY DEF Alike, Orderly, RowsApart
    <2>3. \A c \in y.s.conts : ContTells(y.e, y.s, c)
      BY DEF Alike, Orderly, ContTells, Ran
    <2>4. TurnTells(y.e, y.s)
      BY DEF Alike, Orderly, TurnTells, Ran
    <2>5. MarksTell(y.e, y.s)
      BY DEF Alike, Orderly, MarksTell
    <2> QED BY <2>1, <2>2, <2>3, <2>4, <2>5 DEF Orderly
  <1>2. Onward(y, x) /\ SameTurn(y, x)
    BY DEF Alike, Onward, SameTurn, Still, ExitFenceEnded
  <1> QED BY <1>1, <1>2

\* A field the argument does not read is set.
Aside(f, e) ==
  /\ f.exit = e.exit /\ f.cur = e.cur /\ f.turnSeq = e.turnSeq
  /\ f.queue = e.queue /\ f.rowSeq = e.rowSeq
  /\ f.closed = e.closed /\ f.stopped = e.stopped /\ f.holds = e.holds
  /\ f.closeFences = e.closeFences /\ f.admitting = e.admitting /\ f.armed = e.armed

LEMMA AsideAlike ==
  ASSUME NEW x, NEW y, Aside(y.e, x.e), y.s = x.s
  PROVE  Alike(y, x)
  BY DEF Aside, Alike

LEMMA PlaceAlike == ASSUME NEW x, Section(x), NEW evs PROVE Alike(Place(x, evs), x)
  BY PlaceSection DEF Alike

LEMMA LookIfAlike == ASSUME NEW x, Section(x), NEW reads PROVE Alike(LookIf(x, reads), x)
  <1> DEFINE saw == x.e.sawForeign \/ (Native /\ ForeignTurn(x.s))
             e == [x.e EXCEPT !.sawForeign = saw]
  <1>1. x.e \in EngType
    BY DEF Section
  <1>2. Look(x).e = e /\ Look(x).s = x.s
    BY DEF Section, Look, EngType
  <1> HIDE DEF saw
  <1>3. Aside(e, x.e)
    BY <1>1 DEF EngType, Aside
  <1> QED BY <1>2, <1>3, AsideAlike, AlikeItself DEF LookIf

LEMMA DisarmAlike == ASSUME NEW x, Section(x) PROVE Alike(Disarm(x), x) /\ Disarm(x).e.armed = NoSend
  <1> DEFINE e == [x.e EXCEPT !.armed = NoSend]
  <1>1. x.e \in EngType
    BY DEF Section
  <1>2. CASE x.e.armed # NoSend
    <2>1. Disarm(x).e = e /\ Disarm(x).s = x.s
      BY <1>2 DEF Section, Disarm
    <2>2. e.armed = NoSend /\ Alike(Disarm(x), x)
      BY <1>1, <2>1 DEF Alike, EngType
    <2> QED BY <2>1, <2>2
  <1>3. CASE x.e.armed = NoSend
    BY <1>3, AlikeItself DEF Disarm
  <1> QED BY <1>2, <1>3

LEMMA RaiseAlike == ASSUME NEW x, Section(x) PROVE Alike(Raise(x), x)
  <1> DEFINE y == [x EXCEPT !.e.fenced = TRUE, !.s = FenceUp(@)]
             e == [x.e EXCEPT !.fenced = TRUE]
             s == FenceUp(x.s)
  <1>1. x.e \in EngType /\ x.s \in SesType
    BY DEF Section
  <1>2. y.e = e /\ y.s = s
    BY DEF Section
  <1>3. Alike(y, x)
    <2> HIDE DEF y
    <2> QED BY <1>1, <1>2 DEF Alike, EngType, SesType, FenceUp, Wake
  <1>4. Raise(x) = IF Native THEN y ELSE x
    BY DEF Raise
  <1> HIDE DEF y
  <1> QED BY <1>3, <1>4, AlikeItself

LEMMA LowerAlike == ASSUME NEW x, Section(x) PROVE Alike(Lower(x), x)
  <1> DEFINE y == [x EXCEPT !.e.fenced = FALSE, !.s = FenceDown(@)]
             e == [x.e EXCEPT !.fenced = FALSE]
             s == FenceDown(x.s)
  <1>1. x.e \in EngType /\ x.s \in SesType
    BY DEF Section
  <1>2. y.e = e /\ y.s = s
    BY DEF Section
  <1>3. Alike(y, x)
    <2> HIDE DEF y
    <2> QED BY <1>1, <1>2 DEF Alike, EngType, SesType, FenceDown, Wake
  <1>4. Lower(x) = IF x.e.fenced THEN y ELSE x
    BY DEF Lower
  <1> HIDE DEF y
  <1> QED BY <1>3, <1>4, AlikeItself

LEMMA SettleOwedDrainAlike ==
  ASSUME NEW x, Section(x) PROVE Alike(SettleOwedDrain(x), x)
  <1> DEFINE y == [x EXCEPT !.e.sawForeign = FALSE]
             e == [x.e EXCEPT !.sawForeign = FALSE]
             w(v, b) == [v EXCEPT !.e.drainOwed = b]
  <1>1. x.e \in EngType
    BY DEF Section
  <1>2. e \in EngType /\ Aside(e, x.e)
    BY <1>1 DEF EngType, Aside
  <1>3. Section(y) /\ y.e = e /\ y.s = x.s
    BY <1>2 DEF Section
  <1>4. Alike(y, x)
    BY <1>2, <1>3, AsideAlike
  <1>5. ASSUME NEW v, Section(v), NEW b PROVE Alike(w(v, b), v)
    <2> DEFINE f == [v.e EXCEPT !.drainOwed = b]
    <2>1. v.e \in EngType
      BY <1>5 DEF Section
    <2>2. Aside(f, v.e)
      BY <2>1 DEF EngType, Aside
    <2>3. w(v, b).e = f /\ w(v, b).s = v.s
      BY <1>5 DEF Section
    <2> HIDE DEF w, f
    <2> QED BY <2>2, <2>3, AsideAlike
  <1>6. Section(Raise(y)) /\ Alike(Raise(y), y)
    BY <1>3, RaiseSection, RaiseAlike
  <1>7. SettleOwedDrain(x) \in {w(y, FALSE), y, w(y, TRUE), w(Raise(y), ForeignTurn(x.s))}
    BY DEF SettleOwedDrain
  <1> HIDE DEF y, w
  <1>8. \A b : Alike(w(y, b), x)
    BY <1>3, <1>4, <1>5, AlikeTransitive
  <1>9. Alike(w(Raise(y), ForeignTurn(x.s)), x)
    BY <1>4, <1>5, <1>6, AlikeTransitive
  <1> QED BY <1>4, <1>7, <1>8, <1>9

\* The fence is lifted over a row that is nowhere; else it stands.
LEMMA LiftExitFenceOrderly ==
  ASSUME NEW x, Section(x)
  PROVE  /\ Orderly(x) => Orderly(LiftExitFence(x))
         /\ Onward(LiftExitFence(x), x)
         /\ LiftExitFence(x).e.queue = x.e.queue /\ LiftExitFence(x).e.cur = x.e.cur
         /\ LET e == LiftExitFence(x).e
            IN  e.exit.up /\ ~e.exit.ended /\ e.exit.turn = 0 => Has(e.queue, e.exit.row)
  <1> DEFINE y == [x EXCEPT !.e.exit = NoFence]
             e == [x.e EXCEPT !.exit = NoFence]
             lifts == x.e.exit.up /\ ~x.e.exit.ended /\ x.e.exit.turn = 0 /\ ~Has(x.e.queue, x.e.exit.row)
  <1>1. x.e \in EngType
    BY DEF Section
  <1>2. y.e = e /\ y.s = x.s
    BY DEF Section
  <1>3. /\ e.exit = NoFence /\ e.cur = x.e.cur /\ e.turnSeq = x.e.turnSeq
        /\ e.queue = x.e.queue /\ e.rowSeq = x.e.rowSeq
        /\ e.closed = x.e.closed /\ e.holds = x.e.holds
        /\ e.closeFences = x.e.closeFences /\ e.admitting = x.e.admitting /\ e.armed = x.e.armed
        /\ NoFence.up = FALSE
    BY <1>1 DEF EngType, NoFence
  <1> HIDE DEF e
  <1>4. LiftExitFence(x) = IF lifts THEN y ELSE x
    BY DEF LiftExitFence
  <1> HIDE DEF y
  <1>5. CASE lifts
    <2>1. FenceBound(y.e)
      BY <1>2, <1>3 DEF FenceBound
    <2>2. Orderly(x) => RowsApart(y.e, y.s) /\ TurnTells(y.e, y.s) /\ MarksTell(y.e, y.s)
      BY <1>2, <1>3 DEF Orderly, RowsApart, TurnTells, MarksTell, Ran
    <2>3. Orderly(x) => \A c \in y.s.conts : ContTells(y.e, y.s, c)
      BY <1>2, <1>3 DEF Orderly, ContTells, Ran
    <2>4. Onward(y, x)
      BY <1>2, <1>3, <1>5 DEF Onward, Still, ExitFenceEnded
    <2> QED BY <1>2, <1>3, <1>4, <1>5, <2>1, <2>2, <2>3, <2>4 DEF Orderly
  <1>6. CASE ~lifts
    BY <1>4, <1>6, AlikeItself, AlikeOrderly
  <1> QED BY <1>5, <1>6

\* An exit fence over a row is over one that waits.
RowAwaited(e) == e.exit.up /\ ~e.exit.ended /\ e.exit.turn = 0 => Has(e.queue, e.exit.row)

\* No wake starts behind the ended turn of the exit fence, nor behind a host's
\* fence.
HeldBack(x) == Native /\ (ExitFenceEnded(x.e) \/ x.e.closeFences # {}) => x.s.fenced = TRUE

LEMMA SyncOrderly ==
  ASSUME NEW x, Section(x)
  PROVE  /\ Orderly(x) => Orderly(Sync(x))
         /\ Onward(Sync(x), x) /\ HeldBack(Sync(x)) /\ RowAwaited(Sync(x).e)
         /\ Sync(x).e.queue = x.e.queue /\ Sync(x).e.cur = x.e.cur
  <1> DEFINE y == LiftExitFence(x)
             z == SettleOwedDrain(y)
             s == Sync(x)
  <1>1. /\ Section(y) /\ Onward(y, x) /\ RowAwaited(y.e)
        /\ y.e.queue = x.e.queue /\ y.e.cur = x.e.cur
        /\ Orderly(x) => Orderly(y)
    BY LiftExitFenceSection, LiftExitFenceOrderly DEF RowAwaited
  <1>2. Section(z) /\ Alike(z, y)
    BY <1>1, SettleOwedDrainSection, SettleOwedDrainAlike
  <1>3. /\ Alike(Raise(z), z) /\ Alike(Lower(z), z)
        /\ Native => Raise(z).s.fenced = TRUE
    BY <1>2, RaiseAlike, LowerAlike, RaiseSection
  <1>4. s = IF ~Native THEN y ELSE IF FenceWant(z.e) THEN Raise(z) ELSE Lower(z)
    BY DEF Sync
  <1>5. (ExitFenceEnded(z.e) \/ z.e.closeFences # {}) => FenceWant(z.e)
    BY DEF FenceWant
  <1> DEFINE u == Raise(z)
             l == Lower(z)
  <1> HIDE DEF y, z, u, l, s
  <1>6. Alike(u, y) /\ Alike(l, y)
    BY <1>2, <1>3, AlikeTransitive DEF u, l
  <1>7. Alike(s, y)
    BY <1>4, <1>6, AlikeItself DEF u, l
  <1>8. HeldBack(s)
    <2>1. CASE Native /\ FenceWant(z.e)
      BY <1>3, <1>4, <2>1 DEF HeldBack
    <2>2. CASE Native /\ ~FenceWant(z.e)
      <3>1. s = l
        BY <1>4, <2>2 DEF l
      <3>2. l.e.exit = z.e.exit /\ l.e.closeFences = z.e.closeFences
        BY <1>3 DEF Alike, l
      <3> QED BY <1>5, <2>2, <3>1, <3>2 DEF HeldBack, ExitFenceEnded
    <2>3. CASE ~Native
      BY <2>3 DEF HeldBack
    <2> QED BY <2>1, <2>2, <2>3
  <1>9. Onward(s, x) /\ (Orderly(x) => Orderly(s))
    BY <1>1, <1>7, AlikeOrderly, OnwardTransitive
  <1>10. RowAwaited(s.e) /\ s.e.queue = x.e.queue /\ s.e.cur = x.e.cur
    BY <1>1, <1>7 DEF Alike, RowAwaited
  <1> QED BY <1>8, <1>9, <1>10 DEF s

\* The state a step leaves, as a section.
Left == [e |-> eng', s |-> ses']

LEMMA OrderlyReads ==
  ASSUME NEW x, NEW y, y.e = x.e, y.s = x.s, Orderly(x)
  PROVE  Orderly(y)
  BY DEF Orderly

LEMMA OrderlyLeft == ASSUME Orderly(Left) PROVE Orderly(Enter)'
  BY DEF Orderly, Left, Enter, FenceBound, RowsApart, ContTells, TurnTells, MarksTell, Ran, Distinct, Ids

\* What a section leaves behind.
LEMMA LeaveOrderly ==
  ASSUME NEW x, Section(x), Orderly(x), Leave(x)
  PROVE  /\ Orderly(Left) /\ Onward(Left, x) /\ HeldBack(Left) /\ RowAwaited(eng')
         /\ eng'.queue = x.e.queue /\ eng'.cur = x.e.cur
  <1>1. PICK y \in Meanwhile(x) : Commit(Sync(y))
    BY DEF Leave
  <1> DEFINE w == [x EXCEPT !.s = WakeEnded(@)]
             s == WakeEnded(x.s)
  <1>2. y = x \/ y = w
    BY <1>1 DEF Meanwhile
  <1>3. x.s \in SesType /\ s \in SesType
    BY WakeEndedType DEF Section
  <1>4. Section(w) /\ w.e = x.e /\ w.s = s
    BY <1>3 DEF Section
  <1> HIDE DEF w
  <1>5. Alike(w, x)
    BY <1>3, <1>4 DEF Alike, WakeEnded, SesType, Wake
  <1>6. Section(y) /\ Alike(y, x)
    BY <1>2, <1>4, <1>5, AlikeItself
  <1>7. Orderly(y) /\ Onward(y, x) /\ y.e.queue = x.e.queue /\ y.e.cur = x.e.cur
    BY <1>6, AlikeOrderly DEF Alike
  <1> DEFINE z == Sync(y)
  <1>8. /\ Orderly(z) /\ Onward(z, y) /\ HeldBack(z) /\ RowAwaited(z.e)
        /\ z.e.queue = y.e.queue /\ z.e.cur = y.e.cur
    BY <1>6, <1>7, SyncOrderly
  <1>9. eng' = z.e /\ ses' = z.s
    BY <1>1 DEF Commit
  <1> HIDE DEF z
  <1>10. Left.e = z.e /\ Left.s = z.s
    BY <1>9 DEF Left
  <1>11. Orderly(Left) /\ HeldBack(Left)
    BY <1>8, <1>10, OrderlyReads DEF HeldBack
  <1>12. Onward(z, x)
    BY <1>7, <1>8, OnwardTransitive
  <1>13. Onward(Left, x)
    BY <1>10, <1>12 DEF Onward
  <1> QED BY <1>7, <1>8, <1>9, <1>11, <1>13

-----------------------------------------------------------------------------
(* Claims *)

BegunOf(b, s, t, row) ==
  /\ b.reached = s.reached /\ b.closed = s.closed /\ b.agent = s.agent
  /\ b.children = s.children /\ b.pending = s.pending
  /\ \E c : /\ b.conts = s.conts \cup {c}
            /\ c.turn = t /\ c.row = row
            /\ \/ c.phase = "claimed" /\ c.res = "none" /\ b.slot = t /\ b.cancelling = FALSE
               \/ c.phase = "back" /\ c.res = "foreign" /\ b.slot = 0

LEMMA BeginTells ==
  ASSUME NEW s \in SesType, NEW t \in Nat \ {0}, NEW row \in Nat, s.slot = 0
  PROVE  BegunOf(Begin(s, t, row), s, t, row)
  <1> DEFINE cont == [turn |-> t, row |-> row, phase |-> "claimed", res |-> "none", steers |-> 0]
             refused == [cont EXCEPT !.phase = "back", !.res = "foreign"]
             b == Begin(s, t, row)
  <1> SUFFICES BegunOf(b, s, t, row)
    OBVIOUS
  <1>1. CASE Wake(s)
    <2>1. b = [s EXCEPT !.conts = @ \cup {refused}]
      BY <1>1 DEF Begin, ClaimRefusal
    <2>2. refused.turn = t /\ refused.row = row /\ refused.phase = "back" /\ refused.res = "foreign"
      OBVIOUS
    <2> HIDE DEF refused, b
    <2> QED BY <2>1, <2>2 DEF SesType, BegunOf
  <1>2. CASE ~Wake(s)
    <2>1. b = [s EXCEPT !.slot = t, !.cancelling = FALSE, !.conts = @ \cup {cont}]
      BY <1>2 DEF Begin, ClaimRefusal
    <2>2. cont.turn = t /\ cont.row = row /\ cont.phase = "claimed" /\ cont.res = "none"
      OBVIOUS
    <2> HIDE DEF cont, b
    <2> QED BY <2>1, <2>2 DEF SesType, BegunOf
  <1> QED BY <1>1, <1>2

\* May a section start a turn.
MayStart(x) == MayClaim(x) /\ ~ExitFenceEnded(x.e) /\ x.e.closeFences = {}

\* A turn is started of a row, which leaves the queue; NoRow leaves it alone.
StartedRow(z, x, row) ==
  LET id == x.e.turnSeq + 1
  IN  /\ z.s = Begin(Raced(x.s), id, row.id)
      /\ z.e.turnSeq = id
      /\ z.e.cur.id = id /\ z.e.cur.row = row /\ z.e.cur.returned = FALSE /\ z.e.cur.retry = FALSE
      /\ z.e.exit.up = x.e.exit.up /\ z.e.exit.ended = x.e.exit.ended
      /\ z.e.exit.turn \in {id, x.e.exit.turn}
      /\ z.e.queue = Take(x.e.queue, row.id) /\ z.e.rowSeq = x.e.rowSeq
      /\ z.e.closed = x.e.closed /\ z.e.holds = x.e.holds
      /\ z.e.closeFences = x.e.closeFences

\* No continuation is left behind the turn that is over.
LEMMA NoneLeft ==
  ASSUME NEW x, Inside(x), Orderly(x), ~x.e.closed, x.e.cur.id = 0 \/ x.e.cur.returned
  PROVE  x.s.conts = {} /\ x.s.slot = 0
  <1>1. x.s.conts \in SUBSET Cont
    BY DEF Inside, Section, SesType
  <1>2. ASSUME NEW c \in x.s.conts PROVE FALSE
    <2>1. c.turn = x.e.cur.id /\ c.turn # 0
      BY <1>1 DEF Orderly, ContTells, Cont
    <2> QED BY <2>1 DEF Inside, Safe
  <1> QED BY <1>2 DEF Inside, Safe

LEMMA StartedRowOrderly ==
  ASSUME NEW x, Inside(x), Orderly(x), MayStart(x),
         NEW row \in Row \cup {NoRow}, row.id \in Ids(x.e.queue) \cup {0},
         NEW z, StartedRow(z, x, row)
  PROVE  Orderly(z) /\ Onward(z, x) /\ SameTurn(z, x)
  <1> DEFINE id == x.e.turnSeq + 1
             q == x.e.queue
  <1>1. /\ x.s \in SesType /\ id \in Nat \ {0} /\ row.id \in Nat /\ q \in Seq(Row)
        /\ x.e.rowSeq \in Nat
    BY DEF Inside, Section, EngType, Row, NoRow
  <1>2. x.s.conts = {} /\ x.s.slot = 0 /\ x.e.cur.id = 0 /\ ~x.e.closed /\ x.e.holds = {}
    BY NoneLeft DEF MayStart, MayClaim
  <1>3. Raced(x.s) = x.s
    BY NotRaced DEF MayStart, MayClaim
  <1>4. PICK c : /\ z.s.reached = x.s.reached /\ z.s.closed = x.s.closed /\ z.s.agent = x.s.agent
                 /\ z.s.children = x.s.children /\ z.s.pending = x.s.pending
                 /\ z.s.conts = {c} /\ c.turn = id /\ c.row = row.id
                 /\ \/ c.phase = "claimed" /\ c.res = "none" /\ z.s.slot = id /\ z.s.cancelling = FALSE
                    \/ c.phase = "back" /\ c.res = "foreign" /\ z.s.slot = 0
    <2>1. z.s = Begin(x.s, id, row.id)
      BY <1>3 DEF StartedRow
    <2>2. BegunOf(z.s, x.s, id, row.id)
      BY <1>1, <1>2, <2>1, BeginTells
    <2>3. \A c : x.s.conts \cup {c} = {c}
      BY <1>2
    <2> HIDE DEF id
    <2> QED BY <2>2, <2>3 DEF BegunOf
  <1>5. Distinct(q) /\ \A i \in Ids(q) : i <= x.e.rowSeq /\ i \notin x.s.reached
    BY DEF Orderly, RowsApart
  <1>6. \A r \in x.s.reached : r # 0 /\ r <= x.e.rowSeq
    BY DEF Orderly, RowsApart
  <1>7. row.id <= x.e.rowSeq /\ row.id \notin x.s.reached
    BY <1>1, <1>5, <1>6
  <1>8. Ids(z.e.queue) = Ids(q) \ {row.id} /\ Distinct(z.e.queue)
    BY <1>1, <1>5, TakeIds DEF StartedRow
  <1> HIDE DEF id, q
  <1>9. /\ z.e.turnSeq = id /\ z.e.cur.id = id /\ z.e.cur.row = row
        /\ z.e.cur.returned = FALSE /\ z.e.cur.retry = FALSE
        /\ z.e.rowSeq = x.e.rowSeq /\ ~z.e.closed /\ z.e.holds = {}
    BY <1>2 DEF StartedRow, id
  <1>10. RowsApart(z.e, z.s)
    BY <1>4, <1>5, <1>6, <1>7, <1>8, <1>9 DEF RowsApart
  <1>11. FenceBound(z.e)
    BY <1>2, <1>9 DEF StartedRow, FenceBound, Orderly, id
  <1>12. \A d \in z.s.conts : ContTells(z.e, z.s, d)
    BY <1>4, <1>7, <1>8, <1>9 DEF ContTells, StopReasons
  <1>13. TurnTells(z.e, z.s)
    BY <1>1, <1>9 DEF TurnTells
  <1>14. MarksTell(z.e, z.s)
    BY <1>2, <1>4, <1>9 DEF MarksTell, Orderly
  <1>15. Onward(z, x) /\ SameTurn(z, x)
    BY <1>2, <1>4 DEF Onward, SameTurn, StartedRow, MayStart, Wake
  <1> QED BY <1>10, <1>11, <1>12, <1>13, <1>14, <1>15 DEF Orderly

\* What a claim makes of a section.
ClaimedOf(y, x, row) ==
  LET id == x.e.turnSeq + 1
  IN  /\ y.s = Begin(Raced(x.s), id, row.id)
      /\ y.e.turnSeq = id
      /\ y.e.cur.id = id /\ y.e.cur.row = row /\ y.e.cur.returned = FALSE /\ y.e.cur.retry = FALSE
      /\ y.e.exit.up = x.e.exit.up /\ y.e.exit.ended = x.e.exit.ended
      /\ y.e.exit.turn \in {id, x.e.exit.turn}
      /\ y.e.queue = x.e.queue /\ y.e.rowSeq = x.e.rowSeq
      /\ y.e.closed = x.e.closed /\ y.e.holds = x.e.holds
      /\ y.e.closeFences = x.e.closeFences

LEMMA ClaimTells ==
  ASSUME NEW x, Section(x), NEW row \in Row \cup {NoRow}, NEW origin
  PROVE  ClaimedOf(Claim(x, row, origin), x, row)
  <1> DEFINE id == x.e.turnSeq + 1
             s == Begin(Raced(x.s), id, row.id)
             fencedRow == x.e.exit.up /\ x.e.exit.turn = 0 /\ row # NoRow /\ row.id = x.e.exit.row
             cur == [NoTurn EXCEPT !.id = id, !.row = row]
             exit == IF fencedRow THEN [x.e.exit EXCEPT !.turn = id] ELSE x.e.exit
             st == Append(x.st, StartedEvent(id, origin))
             e == [x.e EXCEPT !.turnSeq = id, !.cur = cur, !.activity = "working", !.exit = exit]
             y == Claim(x, row, origin)
  <1>1. x.e \in EngType /\ x.e.exit \in ExitFence
    BY DEF Section, EngType
  <1>2. y = [x EXCEPT !.s = s, !.e.turnSeq = id, !.e.cur = cur, !.e.activity = "working",
                      !.e.exit = exit, !.st = st]
    BY DEF Claim
  <1>3. cur.id = id /\ cur.row = row /\ cur.returned = FALSE /\ cur.retry = FALSE
    BY DEF NoTurn
  <1>4. exit.up = x.e.exit.up /\ exit.ended = x.e.exit.ended /\ exit.turn \in {id, x.e.exit.turn}
    BY <1>1 DEF ExitFence
  <1> HIDE DEF id, s, cur, exit, st
  <1>5. y.e = e /\ y.s = s
    BY <1>2 DEF Section
  <1> HIDE DEF y
  <1>6. /\ e.turnSeq = id /\ e.cur = cur /\ e.exit = exit
        /\ e.queue = x.e.queue /\ e.rowSeq = x.e.rowSeq
        /\ e.closed = x.e.closed /\ e.holds = x.e.holds /\ e.closeFences = x.e.closeFences
    BY <1>1 DEF EngType
  <1> HIDE DEF e
  <1> QED BY <1>3, <1>4, <1>5, <1>6 DEF id, s, y, ClaimedOf

LEMMA SendRowTells ==
  ASSUME NEW y, Section(y), NEW id
  PROVE  LET z == SendRow(y, id)
         IN  /\ z.s = y.s /\ z.e.queue = Take(y.e.queue, id)
             /\ z.e.turnSeq = y.e.turnSeq /\ z.e.cur = y.e.cur /\ z.e.exit = y.e.exit
             /\ z.e.rowSeq = y.e.rowSeq /\ z.e.closed = y.e.closed /\ z.e.holds = y.e.holds
             /\ z.e.closeFences = y.e.closeFences
  <1> DEFINE q == Take(y.e.queue, id)
             e == [y.e EXCEPT !.queue = q]
             z == SendRow(y, id)
  <1>1. y.e \in EngType
    BY DEF Section
  <1>2. z.e = e /\ z.s = y.s
    BY DEF Section, SendRow
  <1> HIDE DEF q, z
  <1> QED BY <1>1, <1>2 DEF EngType, q, z

\* A claim of a row the queue names by id, and the row leaving.
LEMMA ClaimSendOrderly ==
  ASSUME NEW x, Inside(x), Orderly(x), MayStart(x), NEW origin,
         NEW row \in Row \cup {NoRow}, row.id \in Ids(x.e.queue) \cup {0},
         NEW id, Take(x.e.queue, id) = Take(x.e.queue, row.id)
  PROVE  LET z == SendRow(Claim(x, row, origin), id)
         IN  Orderly(z) /\ Onward(z, x) /\ SameTurn(z, x)
  <1> DEFINE y == Claim(x, row, origin)
             z == SendRow(y, id)
  <1>1. Section(x) /\ Section(y)
    BY ClaimSection DEF Inside
  <1>2. StartedRow(z, x, row)
    <2>1. /\ z.s = y.s /\ z.e.queue = Take(y.e.queue, id)
          /\ z.e.turnSeq = y.e.turnSeq /\ z.e.cur = y.e.cur /\ z.e.exit = y.e.exit
          /\ z.e.rowSeq = y.e.rowSeq /\ z.e.closed = y.e.closed /\ z.e.holds = y.e.holds
          /\ z.e.closeFences = y.e.closeFences
      BY <1>1, SendRowTells
    <2>2. ClaimedOf(y, x, row)
      BY <1>1, ClaimTells
    <2> HIDE DEF y, z
    <2> QED BY <2>1, <2>2 DEF ClaimedOf, StartedRow
  <1> HIDE DEF z
  <1> QED BY <1>2, StartedRowOrderly DEF z

LEMMA LookupNames ==
  ASSUME NEW q \in Seq(Row), NEW id \in Nat
  PROVE  LET row == Lookup(q, id)
         IN  /\ row \in Row \cup {NoRow} /\ row.id \in Ids(q) \cup {0}
             /\ Take(q, id) = Take(q, row.id)
             /\ id = 0 => Take(q, row.id) = q
  <1> DEFINE row == Lookup(q, id)
  <1>1. ~Has(q, 0)
    BY HasIds, IdsTyped
  <1>2. row \in Row \cup {NoRow}
    BY LookupType
  <1>3. CASE Has(q, id)
    <2>1. row.id = id
      BY <1>3, PositionInQueue DEF Lookup
    <2> HIDE DEF row
    <2> QED BY <1>1, <1>2, <1>3, <2>1, HasIds DEF row
  <1>4. CASE ~Has(q, id)
    <2>1. row.id = 0
      BY <1>4 DEF Lookup, NoRow
    <2> HIDE DEF row
    <2>2. Take(q, id) = q /\ Take(q, row.id) = q
      BY <1>1, <1>4, <2>1 DEF Take
    <2> QED BY <1>2, <2>1, <2>2 DEF row
  <1> QED BY <1>3, <1>4

LEMMA ClaimOrderly ==
  ASSUME NEW x, Inside(x), Orderly(x), MayStart(x), NEW origin
  PROVE  LET z == Claim(x, NoRow, origin)
         IN  Orderly(z) /\ Onward(z, x) /\ SameTurn(z, x)
  <1> DEFINE z == Claim(x, NoRow, origin)
  <1>1. Section(x) /\ NoRow \in Row \cup {NoRow} /\ NoRow.id = 0 /\ x.e.queue \in Seq(Row)
    BY DEF Inside, Section, EngType, NoRow
  <1>2. Take(x.e.queue, 0) = x.e.queue
    BY <1>1, HasIds, IdsTyped DEF Take
  <1>3. StartedRow(z, x, NoRow)
    <2>1. ClaimedOf(z, x, NoRow)
      BY <1>1, ClaimTells
    <2> HIDE DEF z
    <2> QED BY <1>1, <1>2, <2>1 DEF ClaimedOf, StartedRow
  <1> HIDE DEF z
  <1> QED BY <1>1, <1>3, StartedRowOrderly DEF z

\* What the parts of a section that may start a turn make of it.
Goes(y, x) == Orderly(y) /\ Onward(y, x) /\ SameTurn(y, x)

LEMMA GoesTransitive ==
  ASSUME NEW x, NEW y, NEW z, Goes(y, x), Goes(z, y)
  PROVE  Goes(z, x)
  BY OnwardTransitive, SameTurnTransitive DEF Goes

LEMMA AlikeGoes == ASSUME NEW x, NEW y, Orderly(x), Alike(y, x) PROVE Goes(y, x)
  BY AlikeOrderly DEF Goes

LEMMA LookupNothing == ASSUME NEW q \in Seq(Row) PROVE Lookup(q, 0) = NoRow
  BY HasIds, IdsTyped DEF Lookup

LEMMA FireArmedOrderly ==
  ASSUME NEW x, Inside(x), Orderly(x), MayStart(x)
  PROVE  Goes(FireArmed(x), x)
  <1> DEFINE from == x.e.armed.from
             w == [x EXCEPT !.e.armed = NoSend]
             e == [x.e EXCEPT !.armed = NoSend]
             row == Lookup(x.e.queue, from)
             y == Claim(w, row, "send_now")
             z == SendRow(y, from)
  <1>1. x.e \in EngType /\ x.e.queue \in Seq(Row) /\ from \in Nat
    BY DEF Inside, Section, EngType, Send
  <1>2. e \in EngType
    BY <1>1 DEF EngType, NoSend, Send
  <1>3. Section(w) /\ w.e = e /\ w.s = x.s
    BY <1>2 DEF Inside, Section
  <1>4. FireArmed(x) = IF from = 0 THEN y ELSE z
    BY DEF FireArmed
  <1>5. /\ row \in Row \cup {NoRow} /\ row.id \in Ids(x.e.queue) \cup {0}
        /\ Take(x.e.queue, from) = Take(x.e.queue, row.id)
    BY <1>1, LookupNames
  <1>6. from = 0 => row = NoRow
    BY <1>1, LookupNothing
  <1> HIDE DEF w, row, from
  <1>7. Same(w, x)
    BY <1>1, <1>3 DEF Same, SameButFence, EngType
  <1>8. Alike(w, x) /\ w.e.exit = x.e.exit /\ w.e.closeFences = x.e.closeFences /\ w.e.queue = x.e.queue
    BY <1>1, <1>3 DEF Alike, EngType
  <1>9. Inside(w) /\ MayStart(w)
    <2>1. Inside(w) /\ MayClaim(w)
      BY <1>3, <1>7, InsideSame DEF MayStart
    <2> QED BY <1>8, <2>1 DEF MayStart, ExitFenceEnded
  <1>10. Goes(w, x)
    BY <1>8, AlikeGoes
  <1>11. from = 0 => Goes(y, w)
    BY <1>6, <1>9, <1>10, ClaimOrderly DEF Goes
  <1>12. Goes(z, w)
    BY <1>5, <1>8, <1>9, <1>10, ClaimSendOrderly DEF Goes
  <1> HIDE DEF y, z
  <1> QED BY <1>4, <1>10, <1>11, <1>12, GoesTransitive

LEMMA DrainHeadOrderly ==
  ASSUME NEW x, Inside(x), Orderly(x), MayStart(x)
  PROVE  Goes(DrainHead(x), x)
  <1> DEFINE row == HeadRow(x.e.queue)
             z == SendRow(Claim(x, row, "drain"), row.id)
  <1>1. x.e.queue \in Seq(Row)
    BY DEF Inside, Section, EngType
  <1>2. row \in Row \cup {NoRow}
    BY <1>1, HeadRowType
  <1>3. row.id \in Ids(x.e.queue) \cup {0}
    BY <1>1 DEF HeadRow, NoRow, Ids
  <1>4. DrainHead(x) = z
    BY DEF DrainHead
  <1> HIDE DEF row
  <1>5. Goes(z, x)
    BY <1>2, <1>3, ClaimSendOrderly DEF Goes
  <1> QED BY <1>4, <1>5

LEMMA SuccessorOrderly ==
  ASSUME NEW x, Inside(x), Orderly(x), NEW mayRun
  PROVE  Goes(Successor(x, mayRun), x)
  <1> DEFINE y == LookIf(x, x.e.activity = "idle" /\ Free(x.e))
             z == IF ArmedRowGone(y.e) THEN Disarm(y) ELSE y
             w == [y EXCEPT !.e.passHeld = @ \/ y.e.closeFences # {}]
             e == [y.e EXCEPT !.passHeld = @ \/ y.e.closeFences # {}]
  <1>1. Inside(y) /\ Alike(y, x)
    BY LookIfInside, LookIfAlike DEF Inside
  <1>2. Goes(y, x)
    BY <1>1, AlikeGoes
  <1>3. Goes(w, x)
    <2> HIDE DEF y
    <2>1. y.e \in EngType
      BY <1>1 DEF Inside, Section
    <2>2. Aside(e, y.e)
      BY <2>1 DEF EngType, Aside
    <2>3. w.e = e /\ w.s = y.s
      BY <1>1 DEF Inside, Section
    <2> HIDE DEF w, e
    <2>4. Alike(w, y)
      BY <2>2, <2>3, AsideAlike
    <2> QED BY <1>1, <2>4, AlikeTransitive, AlikeGoes
  <1>4. CanStart(y) => MayStart(y)
    BY <1>1 DEF CanStart, Free, Refuses, MayClaim, MayStart, Inside
  <1>5. Successor(x, mayRun) =
          IF y.e.activity # "idle" \/ ~CanStart(y) THEN w
          ELSE IF z.e.armed # NoSend THEN FireArmed(z)
          ELSE IF mayRun /\ z.e.queue # <<>> THEN DrainHead(z)
          ELSE z
    BY DEF Successor
  <1> HIDE DEF y, w
  <1>6. Inside(z) /\ Goes(z, x) /\ (MayStart(y) => MayStart(z))
    <2>1. /\ Inside(Disarm(y)) /\ Alike(Disarm(y), y)
          /\ MayClaim(y) => MayClaim(Disarm(y))
      BY <1>1, DisarmInside, DisarmAlike DEF Inside
    <2>2. Goes(Disarm(y), x) /\ (MayStart(y) => MayStart(Disarm(y)))
      BY <1>2, <2>1, AlikeGoes, GoesTransitive DEF Alike, MayStart, ExitFenceEnded, Goes
    <2> QED BY <1>1, <1>2, <2>1, <2>2
  <1> HIDE DEF z
  <1>7. CASE y.e.activity # "idle" \/ ~CanStart(y)
    BY <1>3, <1>5, <1>7
  <1>8. CASE CanStart(y)
    <2>1. Goes(FireArmed(z), z) /\ Goes(DrainHead(z), z)
      BY <1>4, <1>6, <1>8, FireArmedOrderly, DrainHeadOrderly DEF Goes
    <2>2. Goes(FireArmed(z), x) /\ Goes(DrainHead(z), x)
      BY <1>6, <2>1, GoesTransitive
    <2> QED BY <1>3, <1>5, <1>6, <2>2
  <1> QED BY <1>7, <1>8

LEMMA PlaceGoes ==
  ASSUME NEW x, NEW y, Section(y), Goes(y, x), NEW evs
  PROVE  Goes(Place(y, evs), x)
  BY PlaceAlike, AlikeGoes, GoesTransitive DEF Goes

LEMMA DrainOrderly ==
  ASSUME NEW x, Inside(x), Orderly(x)
  PROVE  Goes(Drain(x), x)
  <1> DEFINE y == Successor(x, TRUE)
             evs == y.dis \o y.qev \o y.st
  <1>1. Inside(y) /\ Goes(y, x)
    BY SuccessorInside, SuccessorOrderly
  <1>2. Drain(x) = Place(y, evs)
    BY DEF Drain
  <1> HIDE DEF y, evs
  <1> QED BY <1>1, <1>2, PlaceGoes DEF Inside

-----------------------------------------------------------------------------
(* Changes of the queue alone *)

\* The queue is another one, of rows that are nowhere else.
Requeued(y, x) ==
  /\ y.e.exit = x.e.exit /\ y.e.cur = x.e.cur /\ y.e.turnSeq = x.e.turnSeq
  /\ y.e.closed = x.e.closed /\ y.e.stopped = x.e.stopped /\ y.e.holds = x.e.holds
  /\ y.e.closeFences = x.e.closeFences /\ y.e.admitting = x.e.admitting /\ y.e.armed = x.e.armed
  /\ y.s = x.s
  /\ y.e.rowSeq \in Nat /\ x.e.rowSeq \in Nat /\ x.e.rowSeq <= y.e.rowSeq
  /\ Distinct(y.e.queue)
  /\ \A id \in Ids(y.e.queue) : id \in Ids(x.e.queue) \/ (id > x.e.rowSeq /\ id <= y.e.rowSeq)

LEMMA RequeuedGoes ==
  ASSUME NEW x, NEW y, Section(x), Section(y), Orderly(x), Requeued(y, x),
         x.e.closeFences # {} /\ Still(x.e) => y.e.queue = <<>>
  PROVE  Goes(y, x)
  <1>1. /\ x.e.cur.row.id \in Nat /\ x.s.reached \in SUBSET Nat /\ x.s.conts \in SUBSET Cont
        /\ y.e.queue \in Seq(Row) /\ x.e.queue \in Seq(Row)
    <2>1. x.e.cur \in Turn
      BY DEF Section, EngType
    <2>2. x.e.cur.row.id \in Nat
      BY <2>1 DEF Turn, Row, NoRow
    <2> QED BY <2>2 DEF Section, EngType, SesType
  <1>2. Ids(y.e.queue) \subseteq Nat \ {0} /\ Ids(x.e.queue) \subseteq Nat \ {0}
    BY <1>1, IdsTyped
  <1>3. /\ x.e.rowSeq \in Nat /\ y.e.rowSeq \in Nat /\ x.e.rowSeq <= y.e.rowSeq
        /\ \A id \in Ids(y.e.queue) : id \in Ids(x.e.queue) \/ (id > x.e.rowSeq /\ id <= y.e.rowSeq)
    BY DEF Requeued
  <1>4. RowsApart(x.e, x.s)
    BY DEF Orderly
  <1>5. \A id \in Ids(y.e.queue) : id <= y.e.rowSeq /\ id \notin x.s.reached /\ id # x.e.cur.row.id
    BY <1>1, <1>2, <1>3, <1>4 DEF RowsApart
  <1>6. RowsApart(y.e, y.s)
    BY <1>1, <1>3, <1>4, <1>5 DEF RowsApart, Requeued
  <1>7. FenceBound(y.e) /\ TurnTells(y.e, y.s) /\ MarksTell(y.e, y.s)
    BY DEF Requeued, Orderly, FenceBound, TurnTells, MarksTell
  <1>8. ASSUME NEW c \in y.s.conts PROVE ContTells(y.e, y.s, c)
    <2>1. c \in x.s.conts /\ c.row \in Nat /\ ContTells(x.e, x.s, c)
      BY <1>1 DEF Requeued, Orderly, Cont
    <2>2. c.row <= y.e.rowSeq
      BY <1>3, <2>1 DEF ContTells
    <2>3. c.row \notin Ids(x.e.queue) => c.row \notin Ids(y.e.queue)
      BY <1>3, <2>1 DEF ContTells
    <2> QED BY <2>1, <2>2, <2>3 DEF Requeued, ContTells
  <1>9. Onward(y, x) /\ SameTurn(y, x)
    BY DEF Requeued, Onward, SameTurn, ExitFenceEnded, Still
  <1> QED BY <1>6, <1>7, <1>8, <1>9 DEF Orderly, Goes

LEMMA ClearQueueOrderly ==
  ASSUME NEW x, Section(x), Orderly(x)
  PROVE  Goes(ClearQueue(x), x)
  <1> DEFINE e == [x.e EXCEPT !.queue = <<>>]
             y == ClearQueue(x)
  <1>1. x.e \in EngType /\ Section(y)
    BY ClearQueueSection DEF Section
  <1>2. y.e = e /\ y.s = x.s
    BY DEF Section, ClearQueue
  <1> HIDE DEF y
  <1>3. Requeued(y, x) /\ y.e.queue = <<>>
    BY <1>1, <1>2, NoIds DEF Requeued, EngType
  <1> QED BY <1>1, <1>3, RequeuedGoes DEF y

LEMMA PutBackSteersOrderly ==
  ASSUME NEW x, Section(x), Orderly(x), x.e.cur.id # 0, NEW n \in Nat
  PROVE  /\ Goes(PutBackSteers(x, n), x)
         /\ PutBackSteers(x, n).s = x.s
         /\ PutBackSteers(x, n).e.cur = x.e.cur /\ PutBackSteers(x, n).e.stopped = x.e.stopped
         /\ PutBackSteers(x, n).e.turnSeq = x.e.turnSeq
  <1> DEFINE rows == SteerRows(x.e.rowSeq, n)
             q == rows \o x.e.queue
             seq == x.e.rowSeq + n
             e == [x.e EXCEPT !.queue = q, !.rowSeq = seq]
             y == PutBackSteers(x, n)
  <1>1. /\ x.e \in EngType /\ Section(y) /\ x.e.rowSeq \in Nat /\ x.e.queue \in Seq(Row)
        /\ seq \in Nat /\ x.e.rowSeq <= seq
    <2>1. x.e \in EngType /\ Section(y)
      BY PutBackSteersSection DEF Section
    <2> HIDE DEF y
    <2> QED BY <2>1 DEF EngType
  <1>2. y.e = e /\ y.s = x.s
    BY DEF Section, PutBackSteers
  <1>3. rows \in Seq(Row) /\ Distinct(rows) /\ Ids(rows) \subseteq (x.e.rowSeq + 1)..seq
    BY <1>1, SteerIds, SteerRowsType
  <1>4. Distinct(x.e.queue) /\ \A id \in Ids(x.e.queue) : id <= x.e.rowSeq
    BY DEF Orderly, RowsApart
  <1> HIDE DEF rows, seq
  <1>5. Ids(rows) \cap Ids(x.e.queue) = {}
    BY <1>1, <1>3, <1>4
  <1>6. Distinct(q) /\ Ids(q) = Ids(rows) \cup Ids(x.e.queue)
    BY <1>1, <1>3, <1>4, <1>5, ConcatIds
  <1>7. \A id \in Ids(q) : id \in Ids(x.e.queue) \/ (id > x.e.rowSeq /\ id <= seq)
    BY <1>1, <1>3, <1>6
  <1> HIDE DEF q, y
  <1>8. /\ e.queue = q /\ e.rowSeq = seq
        /\ e.exit = x.e.exit /\ e.cur = x.e.cur /\ e.turnSeq = x.e.turnSeq
        /\ e.closed = x.e.closed /\ e.stopped = x.e.stopped /\ e.holds = x.e.holds
        /\ e.closeFences = x.e.closeFences /\ e.admitting = x.e.admitting /\ e.armed = x.e.armed
    BY <1>1 DEF EngType
  <1> HIDE DEF e
  <1>9. Requeued(y, x)
    BY <1>1, <1>2, <1>6, <1>7, <1>8 DEF Requeued
  <1>10. ~Still(x.e)
    BY DEF Still
  <1>11. Goes(y, x)
    BY <1>1, <1>9, <1>10, RequeuedGoes
  <1> QED BY <1>2, <1>8, <1>11 DEF y

-----------------------------------------------------------------------------
(* Settling *)

\* A turn that is over without its prompt having reached the agent has its row
\* back at the head.
Safekeeps(y, x) ==
  LET t == x.e.cur
  IN  /\ t.row # NoRow /\ t.row.id \notin x.s.reached /\ y.e.cur.id # t.id
      /\ ~RetryForeignTurn /\ ~t.cancelAsked /\ ~x.e.stopped
      => y.e.queue # <<>> /\ Head(y.e.queue) = t.row

Passes(y, x) == Orderly(y) /\ Onward(y, x) /\ Safekeeps(y, x)

LEMMA GoesPasses == ASSUME NEW x, NEW y, Orderly(x), Goes(y, x) PROVE Passes(y, x)
  BY DEF Goes, Passes, Safekeeps, SameTurn, Orderly, TurnTells

\* The current turn goes, and its row at most goes back to the queue.
TurnGone(y, x) ==
  /\ y.s = x.s /\ y.e.cur = NoTurn
  /\ y.e.turnSeq = x.e.turnSeq /\ y.e.closed = x.e.closed /\ y.e.rowSeq = x.e.rowSeq
  /\ y.e.closeFences = x.e.closeFences
  /\ ExitFenceEnded(x.e) => ExitFenceEnded(y.e)
  /\ FenceBound(y.e)
  /\ Distinct(y.e.queue)
  /\ \A id \in Ids(y.e.queue) :
       id \in Ids(x.e.queue) \/ (id = x.e.cur.row.id /\ id \notin x.s.reached)

LEMMA TurnGoneOrderly ==
  ASSUME NEW x, Inside(x), Orderly(x), x.e.cur.returned, ~x.e.closed,
         NEW y, Section(y), TurnGone(y, x)
  PROVE  Orderly(y) /\ Onward(y, x)
  <1>1. /\ NoTurn.id = 0 /\ NoTurn.row = NoRow /\ NoRow.id = 0 /\ NoTurn.returned = FALSE
        /\ NoTurn.retry = FALSE
    BY DEF NoTurn, NoRow
  <1>2. x.s.conts = {} /\ x.s.slot = 0 /\ x.e.cur.id # 0
    BY NoneLeft DEF Inside, Safe
  <1>3. Ids(y.e.queue) \subseteq Nat \ {0} /\ x.e.rowSeq \in Nat
    BY IdsTyped DEF Section, EngType, Inside
  <1>4. RowsApart(y.e, y.s)
    BY <1>1, <1>3 DEF RowsApart, TurnGone, Orderly
  <1>5. TurnTells(y.e, y.s) /\ MarksTell(y.e, y.s)
    BY <1>1, <1>2 DEF TurnTells, MarksTell, TurnGone, Orderly
  <1>6. \A c \in y.s.conts : ContTells(y.e, y.s, c)
    BY <1>2 DEF TurnGone
  <1>7. Onward(y, x)
    BY <1>2 DEF Onward, TurnGone, Still
  <1> QED BY <1>4, <1>5, <1>6, <1>7 DEF Orderly, TurnGone

LEMMA RestoreTurnOrderly ==
  ASSUME NEW x, Inside(x), Orderly(x), x.e.cur.returned, ~x.e.closed,
         NEW t, t = x.e.cur, t.row # NoRow, t.res = "foreign"
  PROVE  /\ Orderly(RestoreTurn(x, t)) /\ Onward(RestoreTurn(x, t), x)
         /\ RestoreTurn(x, t).e.queue # <<>> /\ Head(RestoreTurn(x, t).e.queue) = t.row
  <1> DEFINE q == Restore(x.e.queue, t.row)
             qev == Append(x.qev, QueuedEvent(t.row, 0))
             exit == IF x.e.exit.up /\ x.e.exit.turn = t.id THEN [x.e.exit EXCEPT !.turn = 0] ELSE x.e.exit
             y == [x EXCEPT !.e.queue = q, !.qev = qev, !.e.exit = exit,
                            !.e.cur = NoTurn, !.e.activity = "idle",
                            !.e.recheck = TRUE, !.e.rearm = TRUE]
             e == [x.e EXCEPT !.queue = q, !.exit = exit, !.cur = NoTurn, !.activity = "idle",
                              !.recheck = TRUE, !.rearm = TRUE]
             z == IF y.e.armed.turn # t.id THEN Disarm(y) ELSE y
             evs == z.qev \o <<EndedEvent(t.id, 0, Len(z.e.queue))>> \o z.dis
  <1>1. x.e \in EngType /\ x.e.queue \in Seq(Row) /\ x.e.exit \in ExitFence /\ t \in Turn
    BY DEF Inside, Section, EngType
  <1>2. t.row \in Row
    BY <1>1 DEF Turn
  <1>3. q = <<t.row>> \o x.e.queue /\ q \in Seq(Row) /\ q # <<>> /\ Head(q) = t.row
    <2>1. <<t.row>> \in Seq(Row) /\ q = <<t.row>> \o x.e.queue
      BY <1>2 DEF Restore
    <2> HIDE DEF q
    <2> QED BY <1>1, <1>2, <2>1
  <1>4. /\ exit \in ExitFence
        /\ x.e.exit.up => exit.up
        /\ exit.ended = x.e.exit.ended /\ (exit.up => x.e.exit.up)
        /\ x.e.exit.up /\ x.e.exit.turn = t.id => exit.turn = 0
        /\ ~(x.e.exit.up /\ x.e.exit.turn = t.id) => exit.turn = x.e.exit.turn
    BY <1>1 DEF ExitFence
  <1>5. NoTurn \in Turn /\ NoTurn.id = 0
    BY DEF NoTurn, Turn
  <1>6. RestoreTurn(x, t) = Place(z, evs)
    BY DEF RestoreTurn
  <1> HIDE DEF q, qev, exit
  <1>7. e \in EngType
    BY <1>1, <1>3, <1>4, <1>5 DEF EngType, Activities
  <1>8. Section(y) /\ y.e = e /\ y.s = x.s
    BY <1>7 DEF Inside, Section
  <1>9. /\ e.cur = NoTurn /\ e.closed = x.e.closed /\ e.turnSeq = x.e.turnSeq
        /\ e.rowSeq = x.e.rowSeq /\ e.closeFences = x.e.closeFences /\ e.queue = q /\ e.exit = exit
    BY <1>1 DEF EngType
  <1> HIDE DEF y, e
  <1>10. /\ t.row.id \notin x.s.reached /\ t.row.id \notin Ids(x.e.queue)
         /\ Distinct(x.e.queue)
    BY DEF Orderly, TurnTells, RowsApart
  <1>11. Distinct(q) /\ Ids(q) = {t.row.id} \cup Ids(x.e.queue)
    <2>1. <<t.row>> \in Seq(Row) /\ Ids(<<t.row>>) = {t.row.id} /\ Distinct(<<t.row>>)
      BY <1>2, OneId
    <2>2. Ids(<<t.row>>) \cap Ids(x.e.queue) = {}
      BY <1>10, <2>1
    <2>3. /\ Ids(<<t.row>> \o x.e.queue) = Ids(<<t.row>>) \cup Ids(x.e.queue)
          /\ Distinct(<<t.row>> \o x.e.queue)
      BY <1>1, <1>10, <2>1, <2>2, ConcatIds, Zenon
    <2> QED BY <1>3, <2>1, <2>3
  <1>12. FenceBound(y.e) /\ (ExitFenceEnded(x.e) => ExitFenceEnded(y.e))
    <2>1. FenceBound(x.e)
      BY DEF Orderly
    <2> QED BY <1>4, <1>5, <1>8, <1>9, <2>1 DEF FenceBound, ExitFenceEnded
  <1>13. TurnGone(y, x)
    BY <1>8, <1>9, <1>10, <1>11, <1>12 DEF TurnGone
  <1>14. Orderly(y) /\ Onward(y, x)
    BY <1>8, <1>13, TurnGoneOrderly
  <1>15. Section(z) /\ Alike(z, y)
    BY <1>8, DisarmSection, DisarmAlike, AlikeItself
  <1> HIDE DEF z, evs
  <1> DEFINE p == Place(z, evs)
  <1>16. Alike(p, y)
    BY <1>15, PlaceAlike, AlikeTransitive
  <1> HIDE DEF p
  <1>17. Orderly(p) /\ Onward(p, x) /\ p.e.queue = q
    <2>1. Orderly(p) /\ Onward(p, y)
      BY <1>14, <1>16, AlikeOrderly
    <2> QED BY <1>8, <1>9, <1>14, <1>16, <2>1, OnwardTransitive DEF Alike
  <1> QED BY <1>3, <1>6, <1>17 DEF p

LEMMA EndTheTurnOrderly ==
  ASSUME NEW x, Inside(x), Orderly(x), x.e.cur.returned, ~x.e.closed, NEW t, t = x.e.cur
  PROVE  Orderly(EndTheTurn(x, t)) /\ Onward(EndTheTurn(x, t), x)
  <1> DEFINE exit == IF EndsExitFence(x.e, t) THEN [x.e.exit EXCEPT !.ended = TRUE] ELSE x.e.exit
             activity == IF Failed(t) THEN "error" ELSE "idle"
             y == [x EXCEPT !.e.exit = exit, !.e.cur = NoTurn, !.e.activity = activity]
             e == [x.e EXCEPT !.exit = exit, !.cur = NoTurn, !.activity = activity]
  <1>1. x.e \in EngType /\ x.e.exit \in ExitFence
    BY DEF Inside, Section, EngType
  <1>2. EndTheTurn(x, t) = y
    BY DEF EndTheTurn
  <1>3. /\ exit.up = x.e.exit.up /\ exit.turn = x.e.exit.turn
        /\ x.e.exit.ended => exit.ended
        /\ EndsExitFence(x.e, t) => exit.ended
    BY <1>1 DEF ExitFence
  <1>4. Section(y)
    <2>1. Section(EndTheTurn(x, t))
      BY EndTheTurnInside DEF Inside
    <2> QED BY <1>2, <2>1
  <1> HIDE DEF exit, activity
  <1>5. y.e = e /\ y.s = x.s
    BY DEF Inside, Section
  <1>6. /\ e.cur = NoTurn /\ e.closed = x.e.closed /\ e.turnSeq = x.e.turnSeq
        /\ e.rowSeq = x.e.rowSeq /\ e.closeFences = x.e.closeFences /\ e.queue = x.e.queue
        /\ e.exit = exit
    BY <1>1 DEF EngType
  <1> HIDE DEF y, e
  <1>7. FenceBound(y.e) /\ (ExitFenceEnded(x.e) => ExitFenceEnded(y.e))
    <2>1. FenceBound(x.e)
      BY DEF Orderly
    <2> QED BY <1>3, <1>5, <1>6, <2>1 DEF FenceBound, ExitFenceEnded, EndsExitFence
  <1>8. TurnGone(y, x)
    BY <1>5, <1>6, <1>7 DEF TurnGone, Orderly, RowsApart
  <1> QED BY <1>2, <1>4, <1>8, TurnGoneOrderly

LEMMA FinishTurnOrderly ==
  ASSUME NEW x, Inside(x), Orderly(x), x.e.cur.returned, ~x.e.closed, NEW t, t = x.e.cur
  PROVE  Orderly(FinishTurn(x, t)) /\ Onward(FinishTurn(x, t), x)
  <1> DEFINE clears == Clears(x.e, t)
             y == EndTheTurn(x, t)
             z == IF Failed(t) \/ y.e.armed.turn # t.id THEN Disarm(y) ELSE y
             next == Successor(z, ~clears)
             done == IF clears THEN ClearQueue(next) ELSE next
             evs == done.qev \o <<EndedEvent(t.id, done.e.cur.id, Len(done.e.queue))>>
                      \o done.dis \o done.st
  <1>1. FinishTurn(x, t) = Place(done, evs)
    BY DEF FinishTurn
  <1>2. Inside(y) /\ Orderly(y) /\ Onward(y, x)
    BY EndTheTurnInside, EndTheTurnOrderly
  <1> HIDE DEF y
  <1>3. Inside(z) /\ Orderly(z) /\ Onward(z, x)
    BY <1>2, DisarmInside, DisarmAlike, AlikeOrderly, OnwardTransitive DEF Inside
  <1> HIDE DEF z
  <1>4. Inside(next) /\ Goes(next, z)
    BY <1>3, SuccessorInside, SuccessorOrderly
  <1> HIDE DEF next
  <1>5. Inside(done) /\ Goes(done, z)
    BY <1>4, ClearQueueInside, ClearQueueOrderly, GoesTransitive DEF Inside, Goes
  <1> HIDE DEF done, evs
  <1>6. Goes(Place(done, evs), z)
    BY <1>5, PlaceGoes DEF Inside
  <1> QED BY <1>1, <1>3, <1>6, OnwardTransitive DEF Goes

LEMMA SettleOrderly ==
  ASSUME NEW x, Inside(x), Orderly(x), x.e.cur.returned, ~x.e.closed
  PROVE  Passes(Settle(x), x)
  <1> DEFINE t == x.e.cur
             y == PutBackSteers(x, t.unanswered)
             waiting == [t EXCEPT !.retry = TRUE]
             w == [x EXCEPT !.e.cur = waiting, !.e.kick = TRUE]
             waits == RetryForeignTurn /\ ~x.e.stopped /\ ~t.givenUp /\ t.res = "foreign"
  <1>1. x.e \in EngType /\ t \in Turn /\ t.unanswered \in Nat /\ t.id # 0
    BY DEF Inside, Section, EngType, Turn, Safe
  <1>2. /\ Inside(y) /\ Goes(y, x) /\ y.e.cur = t /\ y.e.stopped = x.e.stopped
        /\ y.e.cur.returned /\ ~y.e.closed
    BY <1>1, PutBackSteersInside, PutBackSteersOrderly DEF Inside, Keeps
  <1>3. waits => Goes(w, x)
    <2> SUFFICES ASSUME waits PROVE Goes(w, x)
      OBVIOUS
    <2> DEFINE e == [x.e EXCEPT !.cur = waiting, !.kick = TRUE]
    <2>1. /\ waiting.id = t.id /\ waiting.row = t.row /\ waiting.returned = t.returned
          /\ waiting.res = t.res /\ waiting.cancelAsked = t.cancelAsked
      BY <1>1 DEF Turn
    <2> HIDE DEF waiting
    <2>2. w.e = e /\ w.s = x.s
      BY DEF Inside, Section
    <2>3. /\ e.cur = waiting /\ e.closed = x.e.closed /\ e.holds = x.e.holds
          /\ e.turnSeq = x.e.turnSeq /\ e.exit = x.e.exit /\ e.queue = x.e.queue
          /\ e.rowSeq = x.e.rowSeq /\ e.closeFences = x.e.closeFences
          /\ e.armed = x.e.armed /\ e.admitting = x.e.admitting
      BY <1>1 DEF EngType
    <2> HIDE DEF w, e
    <2>4. FenceBound(w.e) /\ RowsApart(w.e, w.s) /\ MarksTell(w.e, w.s)
      BY <2>1, <2>2, <2>3 DEF Orderly, FenceBound, RowsApart, MarksTell
    <2>5. \A c \in w.s.conts : ContTells(w.e, w.s, c)
      BY <2>1, <2>2, <2>3 DEF Orderly, ContTells
    <2>6. TurnTells(w.e, w.s)
      BY <1>1, <2>1, <2>2, <2>3 DEF Orderly, TurnTells
    <2>7. Onward(w, x) /\ SameTurn(w, x)
      BY <2>1, <2>2, <2>3 DEF Onward, SameTurn, ExitFenceEnded, Still
    <2> QED BY <2>4, <2>5, <2>6, <2>7 DEF Orderly, Goes
  <1>4. Settle(x) = IF waits THEN w ELSE IF Restores(x.e, t) THEN RestoreTurn(y, t) ELSE FinishTurn(y, t)
    BY DEF Settle
  <1>5. Restores(x.e, t) => t.row # NoRow /\ t.res = "foreign"
    BY DEF Restores, RowRefused
  <1>6. TurnTells(x.e, x.s)
    BY DEF Orderly
  <1>7. /\ t.row # NoRow /\ t.row.id \notin x.s.reached
        /\ ~RetryForeignTurn /\ ~t.cancelAsked /\ ~x.e.stopped
        => Restores(x.e, t)
    <2>1. t.row # NoRow => t.row.id # 0
      BY <1>1 DEF Turn, Row
    <2>2. t.res \in StopReasons \cup {"failed", "withdrawn", "foreign"}
      BY <1>1, <1>6 DEF TurnTells, Turn, Results, Refusals
    <2> QED BY <1>6, <2>1, <2>2 DEF TurnTells, Ran, Restores, RowRefused
  <1> HIDE DEF t, y, w, waits
  <1>8. CASE waits
    BY <1>3, <1>4, <1>8, GoesPasses
  <1>9. CASE ~waits /\ Restores(x.e, t)
    <2> DEFINE r == RestoreTurn(y, t)
    <2>1. Orderly(r) /\ Onward(r, y) /\ r.e.queue # <<>> /\ Head(r.e.queue) = t.row
      BY <1>2, <1>5, <1>9, RestoreTurnOrderly DEF Goes
    <2> HIDE DEF r
    <2>2. Onward(r, x)
      BY <1>2, <2>1, OnwardTransitive DEF Goes
    <2>3. Passes(r, x)
      BY <2>1, <2>2 DEF Passes, Safekeeps, t
    <2> QED BY <1>4, <1>9, <2>3 DEF r
  <1>10. CASE ~waits /\ ~Restores(x.e, t)
    <2> DEFINE r == FinishTurn(y, t)
    <2>1. Orderly(r) /\ Onward(r, y)
      BY <1>2, FinishTurnOrderly DEF Goes
    <2> HIDE DEF r
    <2>2. Onward(r, x)
      BY <1>2, <2>1, OnwardTransitive DEF Goes
    <2>3. Passes(r, x)
      BY <1>7, <1>10, <2>1, <2>2 DEF Passes, Safekeeps, t
    <2> QED BY <1>4, <1>10, <2>3 DEF r
  <1> QED BY <1>8, <1>9, <1>10

\* The current turn is told something new, and stays what it is.
Retold(y, x) ==
  /\ y.s = x.s
  /\ y.e.exit = x.e.exit /\ y.e.turnSeq = x.e.turnSeq
  /\ y.e.queue = x.e.queue /\ y.e.rowSeq = x.e.rowSeq
  /\ y.e.closed = x.e.closed /\ y.e.closeFences = x.e.closeFences /\ y.e.admitting = x.e.admitting
  /\ x.e.closeFences # {} /\ Still(x.e) => y.e.armed = NoSend
  /\ y.e.cur.id = x.e.cur.id /\ y.e.cur.row = x.e.cur.row
  /\ x.e.cur.cancelAsked => y.e.cur.cancelAsked
  /\ y.e.cur.id # 0 /\ y.e.holds # {} => y.e.cur.cancelAsked
  /\ TurnTells(y.e, y.s)

LEMMA RetoldGoes == ASSUME NEW x, NEW y, Orderly(x), Retold(y, x) PROVE Goes(y, x)
  <1>1. FenceBound(y.e) /\ RowsApart(y.e, y.s)
    BY DEF Retold, Orderly, FenceBound, RowsApart
  <1>2. MarksTell(y.e, y.s)
    BY DEF Retold, Orderly, MarksTell
  <1>3. \A c \in y.s.conts : ContTells(y.e, y.s, c)
    BY DEF Retold, Orderly, ContTells
  <1>4. Onward(y, x) /\ SameTurn(y, x)
    BY DEF Retold, Onward, SameTurn, ExitFenceEnded, Still
  <1> QED BY <1>1, <1>2, <1>3, <1>4 DEF Retold, Orderly, Goes

\* The claim of a waiting turn is taken again.
Reclaimed(y, x) ==
  /\ y.s = Begin(Raced(x.s), x.e.cur.id, x.e.cur.row.id)
  /\ y.e.cur.id = x.e.cur.id /\ y.e.cur.row = x.e.cur.row
  /\ y.e.cur.returned = FALSE /\ y.e.cur.retry = FALSE
  /\ y.e.exit = x.e.exit /\ y.e.turnSeq = x.e.turnSeq
  /\ y.e.queue = x.e.queue /\ y.e.rowSeq = x.e.rowSeq
  /\ y.e.closed = x.e.closed /\ y.e.closeFences = x.e.closeFences /\ y.e.holds = x.e.holds

LEMMA ReclaimOrderly ==
  ASSUME NEW x, Inside(x), Orderly(x), x.e.cur.retry, ~x.e.closed, x.e.holds = {},
         RetryForeignTurn \/ ~ForeignTurn(x.s),
         NEW y, Reclaimed(y, x)
  PROVE  Goes(y, x)
  <1> DEFINE id == x.e.cur.id
             row == x.e.cur.row.id
  <1>1. x.s \in SesType /\ id \in Nat \ {0} /\ row \in Nat /\ x.e.cur.returned
    <2>1. x.s \in SesType /\ x.e.cur \in Turn /\ x.e.cur.returned /\ id # 0
      BY DEF Inside, Section, EngType, Safe
    <2> QED BY <2>1 DEF Turn, Row, NoRow
  <1>2. x.s.conts = {} /\ x.s.slot = 0
    BY <1>1, NoneLeft
  <1>3. Raced(x.s) = x.s
    BY NotRaced DEF Inside
  <1>4. PICK c : /\ y.s.reached = x.s.reached /\ y.s.closed = x.s.closed /\ y.s.agent = x.s.agent
                 /\ y.s.children = x.s.children /\ y.s.pending = x.s.pending
                 /\ y.s.conts = {c} /\ c.turn = id /\ c.row = row
                 /\ \/ c.phase = "claimed" /\ c.res = "none" /\ y.s.slot = id /\ y.s.cancelling = FALSE
                    \/ c.phase = "back" /\ c.res = "foreign" /\ y.s.slot = 0
    <2>1. y.s = Begin(x.s, id, row)
      BY <1>3 DEF Reclaimed
    <2>2. BegunOf(y.s, x.s, id, row)
      BY <1>1, <1>2, <2>1, BeginTells
    <2>3. \A c : x.s.conts \cup {c} = {c}
      BY <1>2
    <2> HIDE DEF id, row
    <2> QED BY <2>2, <2>3 DEF BegunOf
  <1>5. row \notin x.s.reached /\ row \notin Ids(x.e.queue) /\ row <= x.e.rowSeq
    BY <1>1 DEF Orderly, TurnTells, RowsApart
  <1>6. FenceBound(y.e) /\ RowsApart(y.e, y.s)
    BY <1>4 DEF Reclaimed, Orderly, FenceBound, RowsApart
  <1>7. \A d \in y.s.conts : ContTells(y.e, y.s, d)
    BY <1>4, <1>5 DEF ContTells, Reclaimed, StopReasons
  <1>8. TurnTells(y.e, y.s)
    BY <1>1 DEF TurnTells, Reclaimed
  <1>9. MarksTell(y.e, y.s)
    BY <1>1, <1>4 DEF MarksTell, Orderly, Reclaimed
  <1>10. Onward(y, x) /\ SameTurn(y, x)
    BY <1>1, <1>4 DEF Onward, SameTurn, Reclaimed, Still, ExitFenceEnded, Wake
  <1> QED BY <1>6, <1>7, <1>8, <1>9, <1>10 DEF Orderly, Goes

LEMMA RetryOrderly ==
  ASSUME NEW x, Inside(x), Orderly(x), x.e.cur.retry, ~x.e.closed
  PROVE  Orderly(Retry(x)) /\ Onward(Retry(x), x)
  <1> DEFINE t == x.e.cur
             due == t.retryDue /\ x.e.holds = {}
             y == LookIf(x, due)
             resting == [t EXCEPT !.retry = FALSE]
             again == [t EXCEPT !.retry = FALSE, !.retryDue = FALSE, !.returned = FALSE]
             z == [x EXCEPT !.e.cur = resting]
             s == Begin(Raced(y.s), t.id, t.row.id)
             w == [y EXCEPT !.s = s, !.e.cur = again]
  <1>1. x.e \in EngType /\ t \in Turn /\ t.returned
    BY DEF Inside, Section, EngType, Safe
  <1>2. /\ resting \in Turn /\ resting.id = t.id /\ resting.row = t.row /\ resting.res = t.res
        /\ resting.cancelAsked = t.cancelAsked /\ resting.returned = t.returned /\ resting.retry = FALSE
        /\ again.id = t.id /\ again.row = t.row /\ again.returned = FALSE /\ again.retry = FALSE
    BY <1>1 DEF Turn
  <1>3. Retry(x) = IF x.e.stopped
                   THEN IF x.e.holds = {} THEN Settle(z) ELSE z
                   ELSE IF ~due \/ ForeignTurn(x.s) THEN y ELSE w
    BY DEF Retry
  <1>4. Section(y) /\ Inside(y) /\ Alike(y, x)
    BY LookIfInside, LookIfAlike DEF Inside
  <1>5. Same(y, x)
    BY LookIfSection DEF Inside
  <1> HIDE DEF due, y, resting, again
  <1>6. Inside(z) /\ Goes(z, x) /\ z.e.cur.returned /\ ~z.e.closed
    <2> DEFINE e == [x.e EXCEPT !.cur = resting]
    <2>1. e \in EngType
      BY <1>1, <1>2 DEF EngType
    <2>2. Section(z) /\ z.e = e /\ z.s = x.s
      BY <2>1 DEF Inside, Section
    <2>3. /\ e.cur = resting /\ e.closed = x.e.closed /\ e.holds = x.e.holds
          /\ e.turnSeq = x.e.turnSeq /\ e.fenced = x.e.fenced
          /\ e.exit = x.e.exit /\ e.queue = x.e.queue /\ e.rowSeq = x.e.rowSeq
          /\ e.closeFences = x.e.closeFences /\ e.admitting = x.e.admitting /\ e.armed = x.e.armed
      BY <1>1 DEF EngType
    <2> HIDE DEF z, e
    <2>4. Inside(z)
      BY <1>1, <1>2, <2>2, <2>3, TurnChanges
    <2>5. TurnTells(z.e, z.s)
      BY <1>2, <2>2, <2>3 DEF TurnTells, Orderly
    <2>6. Retold(z, x)
      BY <1>2, <2>2, <2>3, <2>5 DEF Retold, Still, Orderly, MarksTell
    <2> QED BY <1>1, <1>2, <2>2, <2>3, <2>4, <2>6, RetoldGoes
  <1>7. Orderly(Settle(z)) /\ Onward(Settle(z), x)
    <2>1. Passes(Settle(z), z)
      BY <1>6, SettleOrderly DEF Goes
    <2> HIDE DEF z
    <2> QED BY <1>6, <2>1, OnwardTransitive DEF Passes, Goes
  <1>8. due /\ ~ForeignTurn(x.s) => Goes(w, x)
    <2> SUFFICES ASSUME due, ~ForeignTurn(x.s) PROVE Goes(w, x)
      OBVIOUS
    <2> DEFINE e == [y.e EXCEPT !.cur = again]
    <2>1. y.e \in EngType
      BY <1>4 DEF Section
    <2>2. Goes(y, x) /\ y.e.cur = t
      BY <1>4, AlikeGoes DEF Alike
    <2>3. y.e.cur.retry /\ ~y.e.closed /\ y.e.holds = {} /\ ~ForeignTurn(y.s)
      BY <1>4, <1>5 DEF Same, SameButFence, ForeignTurn, due, Alike
    <2> HIDE DEF s
    <2>4. w.e = e /\ w.s = s
      BY <1>4 DEF Section
    <2>5. /\ e.cur = again /\ e.closed = y.e.closed /\ e.holds = y.e.holds
          /\ e.turnSeq = y.e.turnSeq /\ e.exit = y.e.exit /\ e.queue = y.e.queue
          /\ e.rowSeq = y.e.rowSeq /\ e.closeFences = y.e.closeFences
      BY <2>1 DEF EngType
    <2> HIDE DEF w, e
    <2>6. Reclaimed(w, y)
      BY <1>2, <2>2, <2>4, <2>5 DEF Reclaimed, s
    <2>7. Goes(w, y)
      BY <1>4, <2>2, <2>3, <2>6, ReclaimOrderly DEF Goes
    <2> QED BY <2>2, <2>7, GoesTransitive
  <1>9. Goes(y, x)
    BY <1>4, AlikeGoes
  <1> HIDE DEF z, w
  <1> QED BY <1>3, <1>6, <1>7, <1>8, <1>9 DEF Goes

LEMMA PassOrderly == ASSUME NEW x, Inside(x), Orderly(x) PROVE Passes(Pass(x), x)
  <1>1. Pass(x) = IF x.e.closed THEN x
                  ELSE IF x.e.cur.id = 0 THEN Drain(x)
                  ELSE IF x.e.cur.retry THEN Retry(x)
                  ELSE IF x.e.cur.returned /\ x.e.holds = {} THEN Settle(x)
                  ELSE x
    BY DEF Pass
  <1>2. Passes(x, x)
    BY AlikeItself, AlikeGoes, GoesPasses
  <1>3. Passes(Drain(x), x)
    BY DrainOrderly, GoesPasses
  <1>4. ~x.e.closed /\ x.e.cur.retry => Passes(Retry(x), x)
    BY RetryOrderly DEF Passes, Safekeeps, Orderly, TurnTells
  <1>5. ~x.e.closed /\ x.e.cur.returned => Passes(Settle(x), x)
    BY SettleOrderly
  <1> QED BY <1>1, <1>2, <1>3, <1>4, <1>5

\* What of a turn Safekeeps is about.
SameSubject(w, x) ==
  /\ w.e.cur.id = x.e.cur.id /\ w.e.cur.row = x.e.cur.row
  /\ w.e.cur.cancelAsked = x.e.cur.cancelAsked /\ w.e.stopped = x.e.stopped
  /\ w.s.reached = x.s.reached

LEMMA PassesFrom ==
  ASSUME NEW x, NEW w, NEW z, Passes(z, w), Onward(w, x), SameSubject(w, x)
  PROVE  Passes(z, x)
  BY OnwardTransitive DEF Passes, Goes, SameSubject, Safekeeps

LEMMA PassesThen ==
  ASSUME NEW x, NEW y, NEW z, Passes(y, x), Alike(z, y)
  PROVE  Passes(z, x)
  <1>1. Orderly(z) /\ Onward(z, x)
    BY AlikeOrderly, OnwardTransitive DEF Passes
  <1> QED BY <1>1 DEF Passes, Safekeeps, Alike

-----------------------------------------------------------------------------
(* The invariant, and what a step may not do *)

\* What a host's fence stands on: the stillness its facts were read from, and,
\* once it was told "idle", that the session owes nothing.
HostTells(h) ==
  /\ h \in eng.closeFences <=> hosts[h].phase # "none"
  /\ hosts[h].phase # "none" /\ hosts[h].nothingStarts => ExitFenceEnded(eng)
  /\ hosts[h].phase = "idle" => ~hosts[h].busy
  /\ hosts[h].phase \in {"raised", "idle"} /\ ~hosts[h].busy /\ ~eng.closed =>
       Still(eng) /\ ~Wake(ses)
  /\ hosts[h].phase = "idle" /\ ~eng.closed => ExitFenceEnded(eng) \/ ~OwesWork(ses)

JInv ==
  /\ Orderly(Enter)
  /\ HeldBack(Enter)
  /\ RowAwaited(eng)
  /\ \A h \in Hosts : HostTells(h)

\* What the two action properties say of a step.
NothingStarts ==
  ExitFenceEnded(eng) =>
    /\ ExitFenceEnded(eng')
    /\ eng'.turnSeq = eng.turnSeq
    /\ Native /\ Wake(ses') => Wake(ses)

RowSurvives ==
  LET t == eng.cur
  IN  /\ t.row # NoRow /\ t.row.id \notin ses.reached
      /\ eng'.cur.id # t.id
      /\ ~RetryForeignTurn /\ ~t.cancelAsked /\ ~eng.stopped /\ ~eng'.closed
      => eng'.queue # <<>> /\ Head(eng'.queue) = t.row

Kept == JInv' /\ NothingStarts /\ RowSurvives

LEMMA Entered == Enter.e = eng /\ Enter.s = ses
  BY DEF Enter

\* A step that changes nothing under a host's fence.
LEMMA OnwardStep ==
  ASSUME JInv, Orderly(Left), Onward(Left, Enter), HeldBack(Left), RowAwaited(eng'),
         hosts' = hosts, RowSurvives
  PROVE  Kept
  <1>1. Orderly(Enter)'
    BY OrderlyLeft
  <1>2. HeldBack(Enter)'
    BY DEF HeldBack, Left, Enter, ExitFenceEnded
  <1>3. /\ ExitFenceEnded(eng) => ExitFenceEnded(eng') /\ eng'.turnSeq = eng.turnSeq
        /\ eng.closeFences # {} /\ Still(eng) => Still(eng')
        /\ eng'.closeFences = eng.closeFences /\ eng'.closed = eng.closed
        /\ ses'.children = ses.children /\ ses'.pending = ses.pending
        /\ Wake(ses') => Wake(ses)
    BY DEF Onward, Left, Enter
  <1>4. ASSUME NEW h \in Hosts PROVE HostTells(h)'
    <2>1. HostTells(h)
      BY DEF JInv
    <2>2. (~OwesWork(ses))' <=> ~OwesWork(ses)
      BY <1>3 DEF OwesWork
    <2>3. ExitFenceEnded(eng)' <=> ExitFenceEnded(eng')
      BY DEF ExitFenceEnded
    <2>4. Still(eng)' <=> Still(eng')
      BY DEF Still
    <2>5. Wake(ses)' <=> Wake(ses')
      BY DEF Wake
    <2> QED BY <1>3, <2>1, <2>2, <2>3, <2>4, <2>5 DEF HostTells
  <1>5. RowAwaited(eng)'
    BY DEF RowAwaited, Has
  <1>6. NothingStarts
    BY <1>3 DEF NothingStarts
  <1> QED BY <1>1, <1>2, <1>4, <1>5, <1>6 DEF JInv, Kept

\* A section of the engine's.
LEMMA SectionStep ==
  ASSUME JInv, NEW x, Section(x), Passes(x, Enter), Leave(x), hosts' = hosts
  PROVE  Kept
  <1>1. /\ Orderly(Left) /\ Onward(Left, x) /\ HeldBack(Left) /\ RowAwaited(eng')
        /\ eng'.queue = x.e.queue /\ eng'.cur = x.e.cur
    BY LeaveOrderly DEF Passes
  <1>2. Onward(Left, Enter)
    BY <1>1, OnwardTransitive DEF Passes
  <1>3. RowSurvives
    BY <1>1, Entered DEF Passes, Safekeeps, RowSurvives
  <1> QED BY <1>1, <1>2, <1>3, OnwardStep

LEMMA GoesStep ==
  ASSUME JInv, NEW x, Section(x), Goes(x, Enter), Leave(x), hosts' = hosts
  PROVE  Kept
  <1>1. Passes(x, Enter)
    BY GoesPasses DEF JInv
  <1> QED BY <1>1, SectionStep

\* A step that changes nothing the argument reads.
LEMMA AlikeStep ==
  ASSUME JInv, Alike(Left, Enter), ses'.fenced = ses.fenced, hosts' = hosts
  PROVE  Kept
  <1>1. Goes(Left, Enter)
    BY AlikeGoes DEF JInv
  <1>2. Passes(Left, Enter)
    BY <1>1, GoesPasses DEF JInv
  <1>3. Left.e = eng' /\ Left.s = ses'
    BY DEF Left
  <1>4. RowSurvives
    BY <1>2, <1>3, Entered DEF Passes, Safekeeps, RowSurvives
  <1>5. HeldBack(Left) /\ RowAwaited(eng')
    BY <1>3, Entered DEF JInv, HeldBack, RowAwaited, Alike, ExitFenceEnded
  <1> QED BY <1>1, <1>4, <1>5, OnwardStep DEF Goes

-----------------------------------------------------------------------------
(* The session's own steps *)

\* No wake starts behind a fence, and no background work but from a turn.
LEMMA SessionKeeps ==
  ASSUME IInv, JInv, eng' = eng, hosts' = hosts, Orderly(Left),
         ses'.fenced = ses.fenced, Wake(ses') => Wake(ses) \/ ~ses.fenced,
         OwesWork(ses') => OwesWork(ses) \/ Wake(ses) \/ ses.conts # {}
  PROVE  Kept
  <1>1. Orderly(Enter)'
    BY OrderlyLeft
  <1>2. HeldBack(Enter)' /\ RowAwaited(eng)'
    BY Entered DEF JInv, HeldBack, RowAwaited, Enter, ExitFenceEnded, Has
  <1>3. Wake(ses') /\ ~Wake(ses) => ~ExitFenceEnded(eng) /\ eng.closeFences = {}
    BY Entered DEF JInv, HeldBack, Wake
  <1>4. ~eng.closed /\ eng.cur.id = 0 => ses.conts = {}
    <2>1. ses.conts \in SUBSET Cont
      BY DEF IInv, TypeOK, SesType
    <2>2. \A c \in ses.conts : ~eng.closed => c.turn = eng.cur.id /\ c.turn # 0
      BY <2>1, Entered DEF JInv, Orderly, ContTells, Cont
    <2> QED BY <2>2
  <1>5. ASSUME NEW h \in Hosts PROVE HostTells(h)'
    <2>1. HostTells(h)
      BY DEF JInv
    <2>2. OwesWork(ses)' <=> OwesWork(ses')
      BY DEF OwesWork
    <2>3. ExitFenceEnded(eng)' <=> ExitFenceEnded(eng)
      BY DEF ExitFenceEnded
    <2>4. Still(eng)' <=> Still(eng)
      BY DEF Still
    <2>5. Wake(ses)' <=> Wake(ses')
      BY DEF Wake
    <2>6. Still(eng) => eng.cur.id = 0
      BY DEF Still
    <2>7. hosts[h].phase # "none" => eng.closeFences # {}
      BY <2>1 DEF HostTells
    <2> QED BY <1>3, <1>4, <2>1, <2>2, <2>3, <2>4, <2>5, <2>6, <2>7 DEF HostTells
  <1>6. NothingStarts
    BY <1>3 DEF NothingStarts
  <1>7. RowSurvives
    BY DEF RowSurvives
  <1> QED BY <1>1, <1>2, <1>5, <1>6, <1>7 DEF JInv, Kept

\* One continuation moves on, and at most its row reaches the agent.
LEMMA ContMoves ==
  ASSUME IInv, JInv, eng' = eng, NEW c \in ses.conts, c.phase # "back",
         NEW d, ses'.conts = (ses.conts \ {c}) \cup {d}, ContTells(eng, ses', d),
         ses'.slot \in {0, ses.slot}, ses'.closed = ses.closed, ses'.cancelling => ses.cancelling,
         \/ ses'.reached = ses.reached
         \/ c.phase = "open" /\ c.row # 0 /\ ses'.reached = ses.reached \cup {c.row}
  PROVE  Orderly(Left)
  <1>1. /\ Left.e = eng /\ Left.s = ses' /\ Orderly(Enter)
        /\ ContTells(eng, ses, c)
    BY Entered DEF Left, JInv, Orderly
  <1>2. ASSUME NEW f \in ses.conts, f # c
        PROVE  f.phase = "back" /\ eng.closed
    <2>1. f.turn # c.turn
      BY <1>2, Entered DEF IInv, Safe
    <2>2. ContTells(eng, ses, f)
      BY <1>1, Entered DEF Orderly
    <2> QED BY <1>1, <2>1, <2>2 DEF ContTells
  <1>3. ~eng.cur.returned
    <2>1. eng.cur.returned => ~eng.closed
      BY <1>1, Entered DEF IInv, Safe, Orderly, MarksTell
    <2> QED BY <1>1, <2>1, Entered DEF IInv, Safe, ContTells
  <1>4. FenceBound(eng) /\ MarksTell(eng, ses')
    BY <1>1, Entered DEF Orderly, MarksTell
  <1>5. RowsApart(eng, ses')
    BY <1>1, Entered DEF Orderly, RowsApart, ContTells
  <1>6. TurnTells(eng, ses')
    BY <1>1, <1>3, Entered DEF Orderly, TurnTells
  <1>7. ASSUME NEW f \in ses'.conts PROVE ContTells(eng, ses', f)
    <2>1. CASE f = d
      BY <2>1
    <2>2. CASE f # d
      <3>1. f \in ses.conts /\ f # c
        BY <2>2
      <3>2. ContTells(eng, ses, f) /\ f.phase = "back" /\ eng.closed
        BY <1>1, <1>2, <3>1, Entered DEF Orderly
      <3>3. ses.reached \subseteq ses'.reached
        OBVIOUS
      <3> QED BY <3>2, <3>3 DEF ContTells, Ran
    <2> QED BY <2>1, <2>2
  <1> QED BY <1>1, <1>4, <1>5, <1>6, <1>7 DEF Orderly

\* No continuation is touched.
LEMMA AgentMoves ==
  ASSUME JInv, eng' = eng, ses'.conts = ses.conts, ses'.slot = ses.slot,
         ses'.closed = ses.closed, ses'.reached = ses.reached, ses'.cancelling => ses.cancelling
  PROVE  Orderly(Left)
  <1>1. Left.e = eng /\ Left.s = ses' /\ Orderly(Enter)
    BY DEF Left, JInv
  <1>2. FenceBound(eng) /\ RowsApart(eng, ses') /\ TurnTells(eng, ses') /\ MarksTell(eng, ses')
    BY <1>1, Entered DEF Orderly, RowsApart, TurnTells, MarksTell, Ran
  <1>3. \A c \in ses'.conts : ContTells(eng, ses', c)
    BY <1>1, Entered DEF Orderly, ContTells, Ran
  <1> QED BY <1>1, <1>2, <1>3 DEF Orderly

\* A continuation comes back: the slot is free, and the row is the same one.
ReleasedOf(t, s, c, res) ==
  /\ t.slot = 0 /\ t.closed = s.closed /\ t.cancelling = FALSE /\ t.reached = s.reached
  /\ t.fenced = s.fenced /\ t.agent = s.agent
  /\ t.children = s.children /\ t.pending = s.pending
  /\ \E d : /\ t.conts = (s.conts \ {c}) \cup {d}
            /\ d.turn = c.turn /\ d.row = c.row /\ d.phase = "back" /\ d.res = res

LEMMA ReleasedTells ==
  ASSUME IInv, NEW c \in ses.conts, NEW res \in Results
  PROVE  ReleasedOf(Released(ses, c, res), ses, c, res)
  <1> DEFINE d == [c EXCEPT !.phase = "back", !.res = res]
             conts == (ses.conts \ {c}) \cup {d}
             kick == ses.wakeKick \/ Native
             s == Released(ses, c, res)
  <1>1. ses \in SesType /\ c \in Cont
    BY DEF IInv, TypeOK, SesType
  <1>2. d.turn = c.turn /\ d.row = c.row /\ d.phase = "back" /\ d.res = res
    BY <1>1 DEF Cont
  <1>3. s = [ses EXCEPT !.conts = conts, !.slot = 0, !.cancelling = FALSE, !.wakeKick = kick]
    BY DEF Released
  <1> HIDE DEF d, kick, s
  <1>4. conts = (ses.conts \ {c}) \cup {d}
    OBVIOUS
  <1> HIDE DEF conts
  <1>5. /\ s.slot = 0 /\ s.closed = ses.closed /\ s.cancelling = FALSE /\ s.reached = ses.reached
        /\ s.fenced = ses.fenced /\ s.agent = ses.agent
        /\ s.children = ses.children /\ s.pending = ses.pending /\ s.conts = conts
    BY <1>1, <1>3 DEF SesType
  <1> QED BY <1>2, <1>4, <1>5 DEF s, ReleasedOf

LEMMA ContinuationKeeps ==
  ASSUME IInv, JInv, eng' = eng, hosts' = hosts, NEW c \in ses.conts, NEW res \in Results,
         OpenTurn(c) \/ RefusePrompt(c) \/ SendPrompt(c) \/ StepBoundary(c) \/ EndTurn(c, res)
  PROVE  Kept
  <1>1. /\ ses \in SesType /\ c \in Cont /\ c.phase # "back"
        /\ ContTells(eng, ses, c) /\ MarksTell(eng, ses)
    BY Entered DEF IInv, TypeOK, SesType, JInv, Orderly, OpenTurn, RefusePrompt, SendPrompt,
                   StepBoundary, EndTurn
  <1>2. ASSUME NEW d, ses'.conts = (ses.conts \ {c}) \cup {d}, ContTells(eng, ses', d),
               ses'.slot \in {0, ses.slot}, ses'.closed = ses.closed,
               ses'.cancelling => ses.cancelling,
               \/ ses'.reached = ses.reached
               \/ c.phase = "open" /\ c.row # 0 /\ ses'.reached = ses.reached \cup {c.row},
               ses'.fenced = ses.fenced, ses'.agent = ses.agent, ses'.children = ses.children,
               ses'.pending => ses.pending
        PROVE  Kept
    <2>1. Orderly(Left)
      BY <1>1, <1>2, ContMoves
    <2> QED BY <1>2, <2>1, SessionKeeps DEF Wake, OwesWork
  <1>3. ASSUME NEW r \in Results, NEW s, s = Released(ses, c, r),
               ses'.conts = s.conts, ses'.slot = s.slot, ses'.closed = s.closed,
               ses'.cancelling = s.cancelling, ses'.reached = s.reached, ses'.fenced = s.fenced,
               ses'.agent = s.agent, ses'.children = s.children, ses'.pending = s.pending,
               r = "foreign" => c.row \notin ses.reached,
               r \in StopReasons => Ran(ses, c.row),
               r = "failed" => eng.closed \/ Ran(ses, c.row),
               r = "withdrawn" => eng.closed \/ eng.cur.cancelAsked
        PROVE  Kept
    <2>1. ReleasedOf(s, ses, c, r)
      BY <1>3, ReleasedTells
    <2>2. PICK d : /\ s.conts = (ses.conts \ {c}) \cup {d}
                   /\ d.turn = c.turn /\ d.row = c.row /\ d.phase = "back" /\ d.res = r
      BY <2>1 DEF ReleasedOf
    <2>3. r # "none"
      BY DEF Results, StopReasons, Refusals
    <2>4. ContTells(eng, ses', d)
      BY <1>1, <1>3, <2>1, <2>2, <2>3 DEF ContTells, Ran, ReleasedOf
    <2> QED BY <1>2, <1>3, <2>1, <2>2, <2>4 DEF ReleasedOf
  <1>4. {"withdrawn", "failed", "foreign"} \subseteq Results
    BY DEF Results, Refusals
  <1>5. {"withdrawn", "failed", "foreign"} \cap StopReasons = {}
    BY DEF StopReasons
  <1>6. CASE OpenTurn(c)
    <2>1. CASE ses.cancelling
      <3>1. c.turn = ses.slot /\ c.turn # 0
        BY <1>1, <1>6 DEF OpenTurn, ContTells, Cont
      <3>2. eng.closed \/ eng.cur.cancelAsked
        BY <1>1, <2>1, <3>1 DEF MarksTell
      <3> QED BY <1>3, <1>4, <1>5, <1>6, <2>1, <3>2 DEF OpenTurn
    <2>2. CASE ~ses.cancelling /\ ses.closed
      BY <1>1, <1>3, <1>4, <1>5, <1>6, <2>2 DEF OpenTurn, MarksTell
    <2>3. CASE ~ses.cancelling /\ ~ses.closed
      <3> DEFINE d == [c EXCEPT !.phase = "open"]
                 conts == (ses.conts \ {c}) \cup {d}
      <3>1. d.turn = c.turn /\ d.row = c.row /\ d.res = c.res /\ d.phase = "open" /\ c.phase = "claimed"
        BY <1>1, <1>6 DEF Cont, OpenTurn
      <3>2. ses' = [ses EXCEPT !.conts = conts]
        BY <1>6, <2>3 DEF OpenTurn
      <3> HIDE DEF d, conts
      <3>3. /\ ses'.conts = conts /\ ses'.slot = ses.slot /\ ses'.agent = ses.agent
            /\ ses'.fenced = ses.fenced /\ ses'.closed = ses.closed /\ ses'.cancelling = ses.cancelling
            /\ ses'.reached = ses.reached /\ ses'.children = ses.children /\ ses'.pending = ses.pending
        BY <1>1, <3>2 DEF SesType
      <3>4. ContTells(eng, ses', d)
        BY <1>1, <3>1, <3>3 DEF ContTells, StopReasons
      <3> QED BY <1>2, <3>3, <3>4 DEF conts
    <2> QED BY <2>1, <2>2, <2>3
  <1>7. CASE RefusePrompt(c)
    <2> DEFINE s == Released(ses, c, "foreign")
    <2>1. s \in SesType
      BY <1>1, <1>4, ReleasedType
    <2>2. ses' = [s EXCEPT !.refusalsLeft = @ - 1] /\ c.phase = "open"
      BY <1>7 DEF RefusePrompt
    <2> HIDE DEF s
    <2>3. /\ ses'.conts = s.conts /\ ses'.slot = s.slot /\ ses'.agent = s.agent
          /\ ses'.fenced = s.fenced /\ ses'.closed = s.closed /\ ses'.cancelling = s.cancelling
          /\ ses'.reached = s.reached /\ ses'.children = s.children /\ ses'.pending = s.pending
      BY <2>1, <2>2 DEF SesType
    <2>4. c.row \notin ses.reached
      BY <1>1, <2>2 DEF ContTells
    <2> QED BY <1>3, <1>4, <1>5, <2>3, <2>4 DEF s
  <1>8. CASE SendPrompt(c)
    <2> DEFINE d == [c EXCEPT !.phase = "sent"]
               conts == (ses.conts \ {c}) \cup {d}
               reached == IF c.row = 0 THEN ses.reached ELSE ses.reached \cup {c.row}
    <2>1. d.turn = c.turn /\ d.row = c.row /\ d.res = c.res /\ d.phase = "sent" /\ c.phase = "open"
      BY <1>1, <1>8 DEF Cont, SendPrompt
    <2>2. ses' = [ses EXCEPT !.conts = conts, !.reached = reached]
      BY <1>8 DEF SendPrompt
    <2> HIDE DEF d, conts, reached
    <2>3. /\ ses'.conts = conts /\ ses'.slot = ses.slot /\ ses'.agent = ses.agent
          /\ ses'.fenced = ses.fenced /\ ses'.closed = ses.closed /\ ses'.cancelling = ses.cancelling
          /\ ses'.reached = reached /\ ses'.children = ses.children /\ ses'.pending = ses.pending
      BY <1>1, <2>2 DEF SesType
    <2>4. ContTells(eng, ses', d)
      BY <1>1, <2>1, <2>3 DEF ContTells, StopReasons, Ran, reached
    <2> QED BY <1>2, <2>1, <2>3, <2>4 DEF conts, reached
  <1>9. CASE StepBoundary(c)
    <2> DEFINE d == [c EXCEPT !.steers = 0]
               conts == (ses.conts \ {c}) \cup {d}
    <2>1. d.turn = c.turn /\ d.row = c.row /\ d.res = c.res /\ d.phase = "sent" /\ c.phase = "sent"
      BY <1>1, <1>9 DEF Cont, StepBoundary
    <2>2. ses' = [ses EXCEPT !.conts = conts, !.pending = FALSE]
      BY <1>9 DEF StepBoundary
    <2> HIDE DEF d, conts
    <2>3. /\ ses'.conts = conts /\ ses'.slot = ses.slot /\ ses'.agent = ses.agent
          /\ ses'.fenced = ses.fenced /\ ses'.closed = ses.closed /\ ses'.cancelling = ses.cancelling
          /\ ses'.reached = ses.reached /\ ses'.children = ses.children /\ ses'.pending = FALSE
      BY <1>1, <2>2 DEF SesType
    <2>4. ContTells(eng, ses', d)
      BY <1>1, <2>1, <2>3 DEF ContTells, StopReasons, Ran
    <2> QED BY <1>2, <2>3, <2>4 DEF conts
  <1>10. CASE EndTurn(c, res)
    <2>1. c.phase = "sent" /\ res \in StopReasons \cup {"failed"} /\ ses' = Released(ses, c, res)
      BY <1>10 DEF EndTurn
    <2>2. Ran(ses, c.row)
      BY <1>1, <2>1 DEF ContTells
    <2> QED BY <1>3, <1>5, <2>1, <2>2
  <1> QED BY <1>6, <1>7, <1>8, <1>9, <1>10

LEMMA AgentKeeps ==
  ASSUME IInv, JInv, eng' = eng, hosts' = hosts,
         \/ LaunchChild \/ ChildFinishes
         \/ RecheckRead \/ RecheckClaim \/ WakeOpens \/ WakeEnds
         \/ AgentTurnStarts \/ FlagRaised \/ AgentTurnEnds \/ FlagLowered
  PROVE  Kept
  <1>1. ses \in SesType
    BY DEF IInv, TypeOK
  <1>2. SUFFICES /\ ses'.conts = ses.conts /\ ses'.slot = ses.slot /\ ses'.closed = ses.closed
                 /\ ses'.reached = ses.reached /\ (ses'.cancelling => ses.cancelling)
                 /\ ses'.fenced = ses.fenced /\ (Wake(ses') => Wake(ses) \/ ~ses.fenced)
                 /\ OwesWork(ses') => OwesWork(ses) \/ Wake(ses) \/ ses.conts # {}
    BY AgentMoves, SessionKeeps
  <1>3. CASE LaunchChild
    <2>1. /\ ses' = [ses EXCEPT !.children = ses.children + 1, !.agentLeft = ses.agentLeft - 1]
          /\ Wake(ses) \/ ses.conts # {}
      BY <1>1, <1>3 DEF LaunchChild, SesType, Wake
    <2> QED BY <1>1, <2>1 DEF SesType, Wake
  <1>4. CASE ChildFinishes
    <2>1. /\ ses.children > 0
          /\ ses' = [ses EXCEPT !.children = ses.children - 1, !.pending = TRUE, !.wakeKick = TRUE]
      BY <1>1, <1>4 DEF ChildFinishes, SesType
    <2> QED BY <1>1, <2>1 DEF SesType, Wake, OwesWork
  <1>5. CASE RecheckRead
    BY <1>1, <1>5 DEF RecheckRead, SesType, Wake, OwesWork
  <1>6. CASE RecheckClaim
    BY <1>1, <1>6 DEF RecheckClaim, WakeReady, WakeClaimed, SesType, Wake, OwesWork
  <1>7. CASE WakeOpens
    BY <1>1, <1>7 DEF WakeOpens, SesType, Wake, OwesWork
  <1>8. CASE WakeEnds
    BY <1>1, <1>8 DEF WakeEnds, WakeEnded, SesType, Wake, OwesWork
  <1>9. CASE AgentTurnStarts
    <2>1. /\ ses' = [ses EXCEPT !.agent = "claimed", !.agentLeft = ses.agentLeft - 1] /\ ~Native
      BY <1>1, <1>9 DEF AgentTurnStarts, SesType
    <2> QED BY <1>1, <2>1 DEF SesType, Wake, OwesWork
  <1>10. CASE FlagRaised
    BY <1>1, <1>10 DEF FlagRaised, SesType, Wake, OwesWork
  <1>11. CASE AgentTurnEnds
    BY <1>1, <1>11 DEF AgentTurnEnds, SesType, Wake, OwesWork
  <1>12. CASE FlagLowered
    BY <1>1, <1>12 DEF FlagLowered, SesType, Wake, OwesWork
  <1> QED BY <1>3, <1>4, <1>5, <1>6, <1>7, <1>8, <1>9, <1>10, <1>11, <1>12

LEMMA SessionStepKeeps == ASSUME IInv, JInv, SessionStep PROVE Kept
  <1>1. eng' = eng /\ hosts' = hosts /\ SessionNext
    BY DEF SessionStep
  <1>2. "end_turn" \in Results
    BY DEF Results, StopReasons
  <1>3. CASE \E c \in ses.conts : \/ OpenTurn(c) \/ RefusePrompt(c) \/ SendPrompt(c) \/ StepBoundary(c)
                                  \/ \E res \in Results : EndTurn(c, res)
    BY <1>1, <1>2, <1>3, ContinuationKeeps
  <1>4. CASE \/ LaunchChild \/ ChildFinishes
             \/ RecheckRead \/ RecheckClaim \/ WakeOpens \/ WakeEnds
             \/ AgentTurnStarts \/ FlagRaised \/ AgentTurnEnds \/ FlagLowered
    BY <1>1, <1>4, AgentKeeps
  <1> QED BY <1>1, <1>3, <1>4 DEF SessionNext

-----------------------------------------------------------------------------
(* Changes no event tells of *)

\* The rows, the turn and the armed send are as they were, and nothing is placed.
Silent(y, x) ==
  /\ y.log = x.log /\ y.qev = x.qev /\ y.dis = x.dis /\ y.st = x.st
  /\ y.e.queue = x.e.queue /\ y.e.cur.id = x.e.cur.id /\ y.e.armed = x.e.armed

LEMMA SilentTransitive ==
  ASSUME NEW x, NEW y, NEW z, Silent(y, x), Silent(z, y)
  PROVE  Silent(z, x)
  BY DEF Silent

LEMMA SilentItself == ASSUME NEW x PROVE Silent(x, x)
  BY DEF Silent

LEMMA LookIfSilent == ASSUME NEW x, Section(x), NEW reads PROVE Silent(LookIf(x, reads), x)
  <1> DEFINE saw == x.e.sawForeign \/ (Native /\ ForeignTurn(x.s))
             e == [x.e EXCEPT !.sawForeign = saw]
             y == [x EXCEPT !.e.sawForeign = saw]
  <1>1. x.e \in EngType
    BY DEF Section
  <1>2. Look(x) = y
    BY DEF Look
  <1> HIDE DEF saw
  <1>3. /\ y.e = e /\ y.log = x.log /\ y.qev = x.qev /\ y.dis = x.dis /\ y.st = x.st
    BY DEF Section
  <1> HIDE DEF y
  <1>4. Silent(y, x)
    BY <1>1, <1>3 DEF EngType, Silent
  <1> QED BY <1>2, <1>4, SilentItself DEF LookIf

LEMMA RaiseSilent == ASSUME NEW x, Section(x) PROVE Silent(Raise(x), x)
  <1> DEFINE s == FenceUp(x.s)
             e == [x.e EXCEPT !.fenced = TRUE]
             y == [x EXCEPT !.e.fenced = TRUE, !.s = s]
  <1>1. x.e \in EngType
    BY DEF Section
  <1>2. Raise(x) = y \/ Raise(x) = x
    BY DEF Raise
  <1> HIDE DEF s
  <1>3. /\ y.e = e /\ y.log = x.log /\ y.qev = x.qev /\ y.dis = x.dis /\ y.st = x.st
    BY DEF Section
  <1> HIDE DEF y
  <1>4. Silent(y, x)
    BY <1>1, <1>3 DEF EngType, Silent
  <1> QED BY <1>2, <1>4, SilentItself

-----------------------------------------------------------------------------
(* The engine's own steps *)

LEMMA RaisedKeeps ==
  ASSUME IInv, JInv
  PROVE  /\ Inside(Raise(Enter)) /\ Section(Raise(Enter)) /\ Raise(Enter).e \in EngType
         /\ Alike(Raise(Enter), Enter) /\ Goes(Raise(Enter), Enter)
         /\ Orderly(Raise(Enter)) /\ Orderly(Enter) /\ Section(Enter)
         /\ Onward(Raise(Enter), Enter) /\ SameSubject(Raise(Enter), Enter)
         /\ Silent(Raise(Enter), Enter)
  <1>1. Section(Enter) /\ Orderly(Enter)
    BY EnterInv DEF JInv
  <1>2. Inside(Raise(Enter)) /\ Section(Raise(Enter)) /\ Raise(Enter).e \in EngType
    BY RaisedInv
  <1>3. Alike(Raise(Enter), Enter)
    BY <1>1, RaiseAlike
  <1>4. Goes(Raise(Enter), Enter)
    BY <1>1, <1>3, AlikeGoes
  <1>5. Silent(Raise(Enter), Enter)
    BY <1>1, RaiseSilent
  <1> QED BY <1>1, <1>2, <1>3, <1>4, <1>5 DEF Goes, SameSubject, Alike

\* A section on its way to what is safe, orderly and said of its start.
Ready(x) ==
  /\ Inside(x) /\ Orderly(x)
  /\ Onward(x, Enter) /\ SameSubject(x, Enter) /\ Silent(x, Enter)

\* The driver's section, up to its pass.
Woken(ticked) ==
  LET x == [Raise(Enter) EXCEPT !.e.cur.retryDue = @ \/ (ticked /\ eng.cur.retry),
                                !.e.recheck = @ /\ ~ticked]
  IN  [x EXCEPT !.e.kick = @ /\ ticked]

LEMMA WokenReady == ASSUME IInv, JInv, NEW ticked \in BOOLEAN PROVE Ready(Woken(ticked))
  <1> DEFINE r == Raise(Enter)
             due == r.e.cur.retryDue \/ (ticked /\ eng.cur.retry)
             recheck == r.e.recheck /\ ~ticked
             cur == [r.e.cur EXCEPT !.retryDue = due]
             x == [r EXCEPT !.e.cur.retryDue = due, !.e.recheck = recheck]
             ex == [r.e EXCEPT !.cur = cur, !.recheck = recheck]
             kick == x.e.kick /\ ticked
             w == [x EXCEPT !.e.kick = kick]
             ew == [x.e EXCEPT !.kick = kick]
  <1>1. /\ Inside(r) /\ Section(r) /\ r.e \in EngType /\ r.e.cur \in Turn
        /\ r.e.cur.retry => r.e.cur.returned
    BY RaisedKeeps DEF EngType, Inside, Safe
  <1>2. Woken(ticked) = w
    BY DEF Woken
  <1>3. due \in BOOLEAN /\ recheck \in BOOLEAN
    BY <1>1, RaisedInv DEF EngType, Turn
  <1>4. Goes(r, Enter) /\ Orderly(r) /\ Onward(r, Enter) /\ SameSubject(r, Enter)
        /\ Silent(r, Enter)
    BY RaisedKeeps
  <1> HIDE DEF r, due, recheck
  <1>5. /\ cur \in Turn /\ cur.id = r.e.cur.id /\ cur.row = r.e.cur.row /\ cur.res = r.e.cur.res
        /\ cur.cancelAsked = r.e.cur.cancelAsked
        /\ cur.returned = r.e.cur.returned /\ cur.retry = r.e.cur.retry
    BY <1>1, <1>3 DEF Turn
  <1>6. ex \in EngType
    BY <1>1, <1>3, <1>5 DEF EngType
  <1>7. /\ Section(x) /\ x.e = ex /\ x.s = r.s
        /\ x.log = r.log /\ x.qev = r.qev /\ x.dis = r.dis /\ x.st = r.st
    BY <1>1, <1>6 DEF Section
  <1>8. /\ ex.cur = cur /\ ex.closed = r.e.closed /\ ex.holds = r.e.holds
        /\ ex.turnSeq = r.e.turnSeq /\ ex.fenced = r.e.fenced /\ ex.stopped = r.e.stopped
        /\ ex.exit = r.e.exit /\ ex.queue = r.e.queue /\ ex.rowSeq = r.e.rowSeq
        /\ ex.closeFences = r.e.closeFences /\ ex.admitting = r.e.admitting /\ ex.armed = r.e.armed
    BY <1>1 DEF EngType
  <1> HIDE DEF x, ex, cur
  <1>9. Inside(x)
    BY <1>1, <1>5, <1>7, <1>8, TurnChanges
  <1>10. Goes(x, r) /\ SameSubject(x, r)
    <2>1. TurnTells(x.e, x.s)
      BY <1>4, <1>5, <1>7, <1>8 DEF TurnTells, Orderly
    <2>2. Retold(x, r)
      BY <1>4, <1>5, <1>7, <1>8, <2>1 DEF Retold, Still, Orderly, MarksTell
    <2> QED BY <1>4, <1>5, <1>7, <1>8, <2>2, RetoldGoes DEF SameSubject
  <1>11. x.e \in EngType /\ kick \in BOOLEAN
    BY <1>9 DEF Inside, Section, EngType
  <1> HIDE DEF kick
  <1>12. ew \in EngType /\ Aside(ew, x.e)
    BY <1>11 DEF EngType, Aside
  <1>13. /\ Section(w) /\ w.e = ew /\ w.s = x.s
         /\ w.log = x.log /\ w.qev = x.qev /\ w.dis = x.dis /\ w.st = x.st
    BY <1>9, <1>12 DEF Inside, Section
  <1> HIDE DEF w
  <1>14. Same(w, x)
    BY <1>11, <1>13 DEF Same, SameButFence, EngType
  <1>15. Inside(w) /\ Alike(w, x)
    BY <1>9, <1>12, <1>13, <1>14, InsideSame, AsideAlike
  <1>16. Goes(w, Enter) /\ SameSubject(w, Enter)
    <2>1. Goes(w, x) /\ SameSubject(w, x)
      BY <1>10, <1>15, AlikeGoes DEF Goes, Alike, SameSubject
    <2> QED BY <1>4, <1>10, <2>1, GoesTransitive DEF SameSubject
  <1>17. Silent(w, Enter)
    <2>1. Silent(x, r)
      BY <1>5, <1>7, <1>8 DEF Silent
    <2>2. ew.queue = x.e.queue /\ ew.cur = x.e.cur /\ ew.armed = x.e.armed
      BY <1>11 DEF EngType
    <2>3. Silent(w, x)
      BY <1>13, <2>2 DEF Silent
    <2> QED BY <1>4, <2>1, <2>3, SilentTransitive
  <1> QED BY <1>2, <1>15, <1>16, <1>17 DEF Ready, Goes

LEMMA DriverPassKeeps ==
  ASSUME IInv, JInv, NEW ticked \in BOOLEAN, DriverPass(ticked)
  PROVE  Kept
  <1> DEFINE w == Woken(ticked)
             y == Pass(w)
             tick == y.e.cur.retry \/ y.e.recheck
             z == [y EXCEPT !.e.tick = tick]
             ez == [y.e EXCEPT !.tick = tick]
  <1>1. Leave(z) /\ hosts' = hosts
    BY DEF DriverPass, Woken
  <1>2. Ready(w)
    BY WokenReady
  <1> HIDE DEF w
  <1>3. Inside(y) /\ Passes(y, w)
    BY <1>2, PassInside, PassOrderly DEF Ready
  <1> HIDE DEF y
  <1>4. y.e \in EngType /\ tick \in BOOLEAN
    BY <1>3 DEF Inside, Section, EngType, Turn
  <1> HIDE DEF tick
  <1>5. ez \in EngType /\ Aside(ez, y.e)
    BY <1>4 DEF EngType, Aside
  <1>6. Section(z) /\ z.e = ez /\ z.s = y.s
    BY <1>3, <1>5 DEF Inside, Section
  <1> HIDE DEF z
  <1>7. Passes(z, w)
    BY <1>3, <1>5, <1>6, AsideAlike, PassesThen
  <1>8. Passes(z, Enter)
    BY <1>2, <1>7, PassesFrom DEF Ready
  <1> QED BY <1>1, <1>6, <1>8, SectionStep

LEMMA DriverKeeps == ASSUME IInv, JInv, DriverNext PROVE Kept
  <1>1. eng \in EngType /\ ses \in SesType /\ Left.e = eng' /\ Left.s = ses'
    BY DEF IInv, TypeOK, Left
  <1>2. CASE Kicked
    BY <1>2, DriverPassKeeps DEF Kicked
  <1>3. CASE Ticked
    BY <1>3, DriverPassKeeps DEF Ticked
  <1>4. CASE Rearmed
    <2>1. Aside(eng', eng) /\ ses' = ses /\ hosts' = hosts
      BY <1>1, <1>4 DEF Rearmed, EngType, Aside
    <2> QED BY <1>1, <2>1, Entered, AsideAlike, AlikeStep
  <1>5. CASE ReplayEnds
    <2>1. Aside(eng', eng) /\ ses' = ses /\ hosts' = hosts
      BY <1>1, <1>5 DEF ReplayEnds, EngType, Aside
    <2> QED BY <1>1, <2>1, Entered, AsideAlike, AlikeStep
  <1>6. CASE AgentEndObserved
    <2>1. Aside(eng', eng) /\ hosts' = hosts
      BY <1>1, <1>6 DEF AgentEndObserved, EngType, Aside
    <2> DEFINE kick == ses.wakeKick \/ Native
    <2>2. ses' = [ses EXCEPT !.agent = "none", !.worker = "idle", !.wakeKick = kick]
      BY <1>1, <1>6 DEF AgentEndObserved, AgentEndSeen, SesType
    <2> HIDE DEF kick
    <2>3. Alike(Left, Enter) /\ ses'.fenced = ses.fenced
      BY <1>1, <2>1, <2>2, Entered DEF SesType, Wake, Aside, Alike
    <2> QED BY <2>1, <2>3, AlikeStep
  <1> QED BY <1>2, <1>3, <1>4, <1>5, <1>6 DEF DriverNext

LEMMA StartedKeeps == ASSUME IInv, JInv, NEW ok \in BOOLEAN, Started(ok) PROVE Kept
  <1> DEFINE activity == IF ok THEN "idle" ELSE "error"
             failed == ~ok
             replaying == eng.replaying /\ ok
             e == [eng EXCEPT !.activity = activity, !.startFailed = failed, !.replaying = replaying]
             x == [Enter EXCEPT !.e.activity = activity, !.e.startFailed = failed, !.e.replaying = replaying]
  <1>1. Section(Enter) /\ Enter.e = eng /\ Enter.s = ses /\ eng \in EngType
    BY EnterInv
  <1>2. Leave([Enter EXCEPT !.e.activity = activity, !.e.startFailed = failed, !.e.replaying = @ /\ ok])
        /\ hosts' = hosts
    BY DEF Started
  <1>3. [Enter EXCEPT !.e.activity = activity, !.e.startFailed = failed, !.e.replaying = @ /\ ok] = x
    BY <1>1 DEF Section, EngType
  <1>4. activity \in Activities /\ failed \in BOOLEAN /\ replaying \in BOOLEAN
    BY <1>1 DEF Activities, EngType
  <1> HIDE DEF activity, failed, replaying
  <1>5. e \in EngType /\ Aside(e, eng)
    <2>1. e \in EngType
      BY <1>1, <1>4, StartedType
    <2> QED BY <1>1, <2>1 DEF EngType, Aside
  <1>6. Section(x) /\ x.e = e /\ x.s = ses
    BY <1>1, <1>5 DEF Section
  <1> HIDE DEF x
  <1>7. Goes(x, Enter)
    BY <1>1, <1>5, <1>6, AsideAlike, AlikeGoes DEF JInv
  <1>8. Leave(x)
    BY <1>2, <1>3
  <1> QED BY <1>2, <1>6, <1>7, <1>8, GoesStep

LEMMA DisarmSendKeeps == ASSUME IInv, JInv, DisarmSend PROVE Kept
  <1> DEFINE x == Disarm(Enter)
             z == Place(x, x.dis)
  <1>1. Section(Enter)
    BY EnterInv
  <1>2. Section(x) /\ Same(x, Enter) /\ Alike(x, Enter)
    BY <1>1, DisarmSection, DisarmAlike
  <1>3. Commit(z) /\ hosts' = hosts
    BY DEF DisarmSend
  <1> HIDE DEF x
  <1>4. Section(z) /\ z.e = x.e /\ z.s = x.s
    BY <1>2, PlaceSection
  <1> HIDE DEF z
  <1>5. eng' = x.e /\ ses' = x.s
    BY <1>3, <1>4 DEF Commit
  <1>6. Left.e = x.e /\ Left.s = x.s
    BY <1>5 DEF Left
  <1>7. Alike(Left, Enter) /\ ses'.fenced = ses.fenced
    BY <1>2, <1>5, <1>6, Entered DEF Alike, Same
  <1> QED BY <1>3, <1>7, AlikeStep

\* runTurn's section, up to its pass.
Returned(c) ==
  LET x == Raise([Enter EXCEPT !.s.conts = @ \ {c}])
      back == [x EXCEPT !.e.cur = [@ EXCEPT !.returned = TRUE, !.res = c.res, !.unanswered = c.steers]]
  IN  IF eng.cur.id = c.turn THEN back ELSE x

LEMMA ReturnedReady ==
  ASSUME IInv, JInv, NEW c \in ses.conts, c.phase = "back"
  PROVE  Ready(Returned(c))
  <1> DEFINE conts == ses.conts \ {c}
             s == [ses EXCEPT !.conts = conts]
             w == [Enter EXCEPT !.s.conts = conts]
             x == Raise(w)
             cur == [x.e.cur EXCEPT !.returned = TRUE, !.res = c.res, !.unanswered = c.steers]
             back == [x EXCEPT !.e.cur = cur]
             e == [x.e EXCEPT !.cur = cur]
             y == IF eng.cur.id = c.turn THEN back ELSE x
  <1>1. /\ Section(Enter) /\ Safe(Enter) /\ Enter.e = eng /\ Enter.s = ses
        /\ eng \in EngType /\ ses \in SesType /\ Orderly(Enter)
    BY EnterInv DEF JInv
  <1>2. c \in Cont /\ conts \in SUBSET Cont
    BY <1>1 DEF SesType
  <1>3. c.turn # 0 /\ c.turn # ses.slot /\ c.res # "inflight" /\ \A d \in conts : d.turn # c.turn
    BY <1>1, <1>2 DEF Safe, ContinuationOK, Cont
  <1>4. Returned(c) = y
    BY <1>1 DEF Returned
  <1>5. conts \subseteq ses.conts
    OBVIOUS
  <1> HIDE DEF conts
  <1>6. s \in SesType
    BY <1>1, <1>2 DEF SesType
  <1>7. /\ Section(w) /\ w.e = eng /\ w.s = s
        /\ w.log = Enter.log /\ w.qev = Enter.qev /\ w.dis = Enter.dis /\ w.st = Enter.st
    BY <1>1, <1>6 DEF Section
  <1>8. /\ s.conts = conts /\ s.slot = ses.slot /\ s.agent = ses.agent /\ s.fenced = ses.fenced
        /\ s.reached = ses.reached /\ s.cancelling = ses.cancelling /\ s.closed = ses.closed
        /\ s.children = ses.children /\ s.pending = ses.pending
    BY <1>1 DEF SesType
  <1> HIDE DEF w, s
  <1>9. Safe(w)
    BY <1>1, <1>5, <1>7, <1>8 DEF Safe, FencesAgree, ContinuationOK, Wake
  <1>10. Orderly(w) /\ Onward(w, Enter) /\ SameSubject(w, Enter)
    <2>1. FenceBound(w.e) /\ RowsApart(w.e, w.s) /\ TurnTells(w.e, w.s) /\ MarksTell(w.e, w.s)
      BY <1>1, <1>7, <1>8 DEF Orderly, FenceBound, RowsApart, TurnTells, MarksTell, Ran
    <2>2. \A d \in w.s.conts : ContTells(w.e, w.s, d)
      BY <1>1, <1>5, <1>7, <1>8 DEF Orderly, ContTells, Ran
    <2>3. Onward(w, Enter)
      BY <1>1, <1>7, <1>8 DEF Onward, Wake
    <2> QED BY <1>1, <1>7, <1>8, <2>1, <2>2, <2>3 DEF Orderly, SameSubject
  <1>11. Inside(x) /\ Alike(x, w) /\ SameButFence(x, w) /\ Silent(x, w)
    BY <1>7, <1>9, RaiseInside, RaiseAlike, RaiseSilent
  <1> HIDE DEF x
  <1>12. Goes(x, w) /\ Orderly(x)
    BY <1>10, <1>11, AlikeGoes DEF Goes
  <1>13. /\ x.e \in EngType /\ x.e.cur \in Turn /\ x.e.cur = eng.cur /\ x.s.slot = ses.slot
         /\ x.e.closed = eng.closed
         /\ x.s.conts = conts /\ x.s.reached = ses.reached
    BY <1>7, <1>8, <1>11 DEF Inside, Section, EngType, Alike
  <1>14. /\ cur \in Turn /\ cur.id = eng.cur.id /\ cur.row = eng.cur.row /\ cur.returned = TRUE
         /\ cur.retry = eng.cur.retry /\ cur.cancelAsked = eng.cur.cancelAsked /\ cur.res = c.res
    BY <1>2, <1>13 DEF Turn, Cont
  <1> HIDE DEF cur
  <1>15. e \in EngType
    BY <1>13, <1>14 DEF EngType
  <1>16. /\ Section(back) /\ back.e = e /\ back.s = x.s
         /\ back.log = x.log /\ back.qev = x.qev /\ back.dis = x.dis /\ back.st = x.st
    BY <1>11, <1>15 DEF Inside, Section
  <1>17. /\ e.cur = cur /\ e.closed = x.e.closed /\ e.holds = x.e.holds
         /\ e.turnSeq = x.e.turnSeq /\ e.fenced = x.e.fenced /\ e.stopped = x.e.stopped
         /\ e.exit = x.e.exit /\ e.queue = x.e.queue /\ e.rowSeq = x.e.rowSeq
         /\ e.closeFences = x.e.closeFences /\ e.admitting = x.e.admitting /\ e.armed = x.e.armed
    BY <1>13 DEF EngType
  <1> HIDE DEF back, e
  <1>18. eng.cur.id = c.turn => Inside(back) /\ Goes(back, x) /\ SameSubject(back, x)
    <2> SUFFICES ASSUME eng.cur.id = c.turn PROVE Inside(back) /\ Goes(back, x) /\ SameSubject(back, x)
      OBVIOUS
    <2>1. FencesAgree(back)
      BY <1>11, <1>16, <1>17 DEF Inside, Safe, FencesAgree
    <2>2. \A d \in back.s.conts : ContinuationOK(back, d)
      BY <1>11, <1>16, <1>17 DEF Inside, Safe, ContinuationOK
    <2>3. back.s.slot # back.e.cur.id /\ \A d \in back.s.conts : d.turn # back.e.cur.id
      BY <1>3, <1>13, <1>14, <1>16, <1>17
    <2>4. Safe(back)
      BY <1>3, <1>11, <1>13, <1>14, <1>16, <1>17, <2>1, <2>2, <2>3 DEF Inside, Safe
    <2>5. Inside(back)
      BY <1>11, <1>16, <2>4 DEF Inside
    <2>6. ~eng.closed /\ ~eng.cur.retry
      <3>1. ~eng.closed
        BY <1>1, <1>3 DEF Orderly, MarksTell
      <3>2. ~eng.cur.returned
        BY <1>1 DEF Safe
      <3> QED BY <1>1, <3>1, <3>2 DEF Safe
    <2>7. ContTells(eng, ses, c)
      BY <1>1 DEF Orderly
    <2>8. TurnTells(back.e, back.s)
      <3>1. c.row = eng.cur.row.id /\ c.res # "none"
        BY <1>2, <2>6, <2>7 DEF ContTells
      <3>2. /\ c.res = "foreign" => c.row \notin ses.reached
            /\ c.res \in StopReasons \cup {"failed"} => Ran(ses, c.row)
            /\ c.res = "withdrawn" => eng.cur.cancelAsked
        BY <2>6, <2>7 DEF ContTells
      <3>3. Ran(back.s, c.row) <=> Ran(ses, c.row)
        BY <1>13, <1>16 DEF Ran
      <3> QED BY <1>3, <1>13, <1>14, <1>16, <1>17, <2>6, <3>1, <3>2, <3>3 DEF TurnTells
    <2>9. Retold(back, x)
      BY <1>12, <1>13, <1>14, <1>16, <1>17, <2>8 DEF Retold, Still, Orderly, MarksTell
    <2> QED BY <1>12, <1>13, <1>14, <1>16, <1>17, <2>5, <2>9, RetoldGoes DEF SameSubject
  <1>19. Inside(y) /\ Orderly(y) /\ Onward(y, Enter) /\ SameSubject(y, Enter)
    <2>1. Inside(x) /\ Onward(x, Enter) /\ SameSubject(x, Enter)
      BY <1>10, <1>11, <1>12, OnwardTransitive DEF Goes, SameSubject, Alike
    <2>2. CASE eng.cur.id = c.turn
      <3>1. Onward(back, Enter) /\ SameSubject(back, Enter)
        BY <1>18, <2>1, <2>2, OnwardTransitive DEF Goes, SameSubject
      <3> QED BY <1>18, <2>2, <3>1 DEF Goes
    <2> QED BY <1>12, <2>1, <2>2
  <1>20. Silent(y, Enter)
    <2>1. Silent(w, Enter)
      BY <1>1, <1>7 DEF Silent
    <2>2. Silent(x, Enter)
      BY <1>11, <2>1, SilentTransitive
    <2>3. Silent(back, x)
      BY <1>13, <1>14, <1>16, <1>17 DEF Silent
    <2> QED BY <2>2, <2>3, SilentTransitive
  <1> QED BY <1>4, <1>19, <1>20 DEF Ready

LEMMA ReturnKeeps == ASSUME IInv, JInv, NEW c \in ses.conts, Return(c) PROVE Kept
  <1> DEFINE y == Returned(c)
             z == Pass(y)
  <1>1. Leave(z) /\ hosts' = hosts /\ c.phase = "back"
    BY DEF Return, Returned
  <1>2. Ready(y)
    BY <1>1, ReturnedReady
  <1> HIDE DEF y
  <1>3. Section(z) /\ Passes(z, y)
    BY <1>2, PassInside, PassOrderly DEF Ready, Inside
  <1> HIDE DEF z
  <1>4. Passes(z, Enter)
    BY <1>2, <1>3, PassesFrom DEF Ready
  <1> QED BY <1>1, <1>3, <1>4, SectionStep

-----------------------------------------------------------------------------
(* Interjections, and commands on the queue *)

LEMMA RefusesUnderFence == ~Refuses(eng) => eng.closeFences = {} /\ ~eng.closed
  BY DEF Refuses

LEMMA InterjectKeeps == ASSUME IInv, JInv, InterjectAdmitted \/ InterjectMade PROVE Kept
  <1>1. /\ eng \in EngType /\ ses \in SesType /\ ses.conts \in SUBSET Cont
        /\ Left.e = eng' /\ Left.s = ses' /\ Enter.e = eng /\ Enter.s = ses
        /\ Orderly(Enter) /\ HeldBack(Enter) /\ RowAwaited(eng)
    BY Entered DEF IInv, TypeOK, SesType, Left, JInv
  <1>2. ASSUME NEW admitting,
               eng' = [eng EXCEPT !.admitting = admitting], hosts' = hosts,
               admitting => eng.closeFences = {},
               ses'.slot = ses.slot, ses'.reached = ses.reached, ses'.cancelling = ses.cancelling,
               ses'.closed = ses.closed, ses'.agent = ses.agent, ses'.fenced = ses.fenced,
               ses'.children = ses.children, ses'.pending = ses.pending,
               \A d \in ses'.conts : \E c \in ses.conts :
                 d.turn = c.turn /\ d.row = c.row /\ d.phase = c.phase /\ d.res = c.res
        PROVE  Kept
    <2>1. /\ eng'.admitting = admitting
          /\ eng'.cur = eng.cur /\ eng'.closed = eng.closed /\ eng'.holds = eng.holds
          /\ eng'.turnSeq = eng.turnSeq /\ eng'.stopped = eng.stopped
          /\ eng'.exit = eng.exit /\ eng'.queue = eng.queue /\ eng'.rowSeq = eng.rowSeq
          /\ eng'.closeFences = eng.closeFences /\ eng'.armed = eng.armed
      BY <1>1, <1>2 DEF EngType
    <2>2. FenceBound(eng') /\ RowsApart(eng', ses') /\ TurnTells(eng', ses') /\ MarksTell(eng', ses')
      BY <1>1, <1>2, <2>1 DEF Orderly, FenceBound, RowsApart, TurnTells, MarksTell, Ran
    <2>3. ASSUME NEW d \in ses'.conts PROVE ContTells(eng', ses', d)
      <3>1. PICK c \in ses.conts : d.turn = c.turn /\ d.row = c.row /\ d.phase = c.phase /\ d.res = c.res
        BY <1>2
      <3>2. ContTells(eng, ses, c)
        BY <1>1 DEF Orderly
      <3> QED BY <1>2, <2>1, <3>1, <3>2 DEF ContTells, Ran
    <2>4. Orderly(Left)
      BY <1>1, <2>2, <2>3 DEF Orderly
    <2>5. Onward(Left, Enter)
      BY <1>1, <1>2, <2>1 DEF Onward, Still, ExitFenceEnded, Wake
    <2>6. HeldBack(Left) /\ RowAwaited(eng')
      BY <1>1, <1>2, <2>1 DEF HeldBack, RowAwaited, ExitFenceEnded
    <2>7. RowSurvives
      BY <2>1 DEF RowSurvives
    <2> QED BY <1>2, <2>4, <2>5, <2>6, <2>7, OnwardStep
  <1>3. CASE InterjectAdmitted
    BY <1>2, <1>3, RefusesUnderFence DEF InterjectAdmitted
  <1>4. CASE InterjectMade
    <2> DEFINE taken(c) == Native /\ Interjectable(ses, c)
               next(c) == IF taken(c) THEN [c EXCEPT !.steers = @ + 1] ELSE c
               conts == {next(c) : c \in ses.conts}
    <2>1. ses' = [ses EXCEPT !.conts = conts] /\ eng' = [eng EXCEPT !.admitting = FALSE] /\ hosts' = hosts
      BY <1>4 DEF InterjectMade
    <2>2. ASSUME NEW c \in ses.conts
          PROVE  /\ next(c).turn = c.turn /\ next(c).row = c.row
                 /\ next(c).phase = c.phase /\ next(c).res = c.res
      BY <1>1 DEF Cont
    <2> HIDE DEF next
    <2>3. \A d \in conts : \E c \in ses.conts :
            d.turn = c.turn /\ d.row = c.row /\ d.phase = c.phase /\ d.res = c.res
      BY <2>2
    <2> HIDE DEF conts
    <2>4. /\ ses'.conts = conts /\ ses'.slot = ses.slot /\ ses'.reached = ses.reached
          /\ ses'.cancelling = ses.cancelling /\ ses'.closed = ses.closed /\ ses'.agent = ses.agent
          /\ ses'.fenced = ses.fenced /\ ses'.children = ses.children /\ ses'.pending = ses.pending
      BY <1>1, <2>1 DEF SesType
    <2> QED BY <1>2, <2>1, <2>3, <2>4
  <1> QED BY <1>3, <1>4

\* A section that puts another queue in place, and no host's fence is up.
LEMMA RequeuedStep ==
  ASSUME IInv, JInv, NEW q \in Seq(Row), NEW log, Leave([Enter EXCEPT !.e.queue = q, !.log = log]),
         hosts' = hosts, ~Refuses(eng), Distinct(q), Ids(q) \subseteq Ids(eng.queue)
  PROVE  Kept
  <1> DEFINE e == [eng EXCEPT !.queue = q]
             x == [Enter EXCEPT !.e.queue = q, !.log = log]
  <1>1. Section(Enter) /\ Enter.e = eng /\ Enter.s = ses /\ eng \in EngType /\ eng.rowSeq \in Nat
    BY EnterInv DEF EngType
  <1>2. e \in EngType
    BY <1>1 DEF EngType
  <1>3. Section(x) /\ x.e = e /\ x.s = ses
    BY <1>1, <1>2 DEF Section
  <1> HIDE DEF x
  <1>4. Requeued(x, Enter)
    BY <1>1, <1>3 DEF Requeued, EngType
  <1>5. Goes(x, Enter)
    BY <1>1, <1>3, <1>4, RefusesUnderFence, RequeuedGoes DEF JInv
  <1> QED BY <1>3, <1>5, GoesStep DEF x

\* A row of a new id is added at the tail.
LEMMA AddRowOrderly ==
  ASSUME NEW x, Section(x), Orderly(x), x.e.closeFences = {}
  PROVE  Goes(AddRow(x), x) /\ Section(AddRow(x))
  <1> DEFINE row == [id |-> x.e.rowSeq + 1, ver |-> 0]
             q == Append(x.e.queue, row)
             seq == x.e.rowSeq + 1
             e == [x.e EXCEPT !.queue = q, !.rowSeq = seq]
             y == AddRow(x)
  <1>1. x.e \in EngType /\ x.e.rowSeq \in Nat /\ x.e.queue \in Seq(Row) /\ Section(y)
    BY AddRowSection DEF Section, EngType
  <1>2. row \in Row /\ row.id = seq /\ seq \in Nat /\ x.e.rowSeq < seq
    BY <1>1 DEF Row
  <1>3. y.e = e /\ y.s = x.s
    BY DEF Section, AddRow, Add
  <1>4. Distinct(x.e.queue) /\ \A id \in Ids(x.e.queue) : id <= x.e.rowSeq
    BY DEF Orderly, RowsApart
  <1> HIDE DEF row, seq, y
  <1>5. seq \notin Ids(x.e.queue)
    BY <1>1, <1>2, <1>4
  <1>6. Distinct(q) /\ Ids(q) = Ids(x.e.queue) \cup {seq}
    BY <1>1, <1>2, <1>4, <1>5, AppendIds
  <1> HIDE DEF q
  <1>7. /\ e.queue = q /\ e.rowSeq = seq
        /\ e.exit = x.e.exit /\ e.cur = x.e.cur /\ e.turnSeq = x.e.turnSeq
        /\ e.closed = x.e.closed /\ e.stopped = x.e.stopped /\ e.holds = x.e.holds
        /\ e.closeFences = x.e.closeFences /\ e.admitting = x.e.admitting /\ e.armed = x.e.armed
    BY <1>1 DEF EngType
  <1> HIDE DEF e
  <1>8. Requeued(y, x)
    BY <1>1, <1>2, <1>3, <1>6, <1>7 DEF Requeued
  <1>9. Goes(y, x)
    BY <1>1, <1>8, RequeuedGoes
  <1> QED BY <1>1, <1>9 DEF y

LEMMA QueueVerbKeeps == ASSUME IInv, JInv, QueueVerb PROVE Kept
  <1>1. /\ Section(Enter) /\ Enter.e = eng /\ eng.queue \in Seq(Row) /\ Orderly(Enter)
        /\ Distinct(eng.queue)
    BY EnterInv DEF EngType, JInv, Orderly, RowsApart
  <1>2. CASE QueueRow
    <2>1. ~Refuses(eng) /\ Leave(AddRow(Enter)) /\ hosts' = hosts
      BY <1>2 DEF QueueRow
    <2>2. Goes(AddRow(Enter), Enter) /\ Section(AddRow(Enter))
      BY <1>1, <2>1, RefusesUnderFence, AddRowOrderly
    <2> QED BY <2>1, <2>2, GoesStep
  <1>3. CASE ClearRows
    <2> DEFINE x == ClearQueue(Enter)
               z == Place(x, x.qev)
    <2>1. Section(x) /\ Goes(x, Enter)
      BY <1>1, ClearQueueSection, ClearQueueOrderly
    <2>2. Leave(z) /\ hosts' = hosts
      BY <1>3 DEF ClearRows
    <2> HIDE DEF x
    <2>3. Section(z) /\ Goes(z, Enter)
      BY <2>1, PlaceSection, PlaceGoes
    <2> HIDE DEF z
    <2> QED BY <2>2, <2>3, GoesStep
  <1>4. ASSUME NEW id, EditQueued(id) PROVE Kept
    <2> DEFINE q == Edit(eng.queue, id)
               log == <<EditedEvent(Lookup(q, id), Position(q, id) - 1)>>
    <2>1. Leave([Enter EXCEPT !.e.queue = q, !.log = log]) /\ hosts' = hosts /\ ~Refuses(eng)
      BY <1>4 DEF EditQueued
    <2>2. q \in Seq(Row) /\ Ids(q) \subseteq Ids(eng.queue) /\ Distinct(q)
      BY <1>1, <1>4, EditType, EditIds DEF EditQueued
    <2> HIDE DEF q, log
    <2> QED BY <2>1, <2>2, RequeuedStep
  <1>5. ASSUME NEW id, Unqueue(id) PROVE Kept
    <2> DEFINE q == Take(eng.queue, id)
               log == <<RemovedEvent(Lookup(eng.queue, id), Position(eng.queue, id) - 1)>>
    <2>1. Leave([Enter EXCEPT !.e.queue = q, !.log = log]) /\ hosts' = hosts /\ ~Refuses(eng)
      BY <1>1, <1>5 DEF Unqueue
    <2>2. q \in Seq(Row) /\ Ids(q) \subseteq Ids(eng.queue) /\ Distinct(q)
      BY <1>1, TakeType, TakeIds
    <2> HIDE DEF q, log
    <2> QED BY <2>1, <2>2, RequeuedStep
  <1> QED BY <1>2, <1>3, <1>4, <1>5 DEF QueueVerb

-----------------------------------------------------------------------------
(* Commands that admit a prompt *)

LEMMA AdmissionKeeps ==
  ASSUME IInv, JInv, NEW mode
  PROVE  /\ Inside(Admission(mode)) /\ Section(Admission(mode))
         /\ Alike(Admission(mode), Enter) /\ Goes(Admission(mode), Enter)
         /\ Orderly(Admission(mode)) /\ Admission(mode).e.queue = eng.queue
  <1> DEFINE r == Raise(Enter)
             reads == ~Refuses(eng) /\ (mode = "send_now" \/ (~RetryForeignTurn /\ Free(eng)))
             x == Admission(mode)
  <1>1. x = LookIf(r, reads)
    BY DEF Admission
  <1>2. Section(r) /\ Alike(r, Enter) /\ Orderly(Enter)
    BY RaisedKeeps
  <1>3. Inside(x) /\ Section(x)
    BY AdmissionInv
  <1> HIDE DEF r, reads, x
  <1>4. Alike(x, r)
    BY <1>1, <1>2, LookIfAlike
  <1>5. Alike(x, Enter)
    BY <1>2, <1>4, AlikeTransitive
  <1>6. Goes(x, Enter) /\ Orderly(x)
    BY <1>2, <1>5, AlikeGoes DEF Goes
  <1> QED BY <1>3, <1>5, <1>6, Entered DEF Alike, x

\* The exit fence is set over a row, or over the turn that is current.
LEMMA FenceSetGoes ==
  ASSUME NEW x, Section(x), Orderly(x), ~ExitFenceEnded(x.e),
         NEW exit \in ExitFence, exit.turn \in {0, x.e.cur.id}
  PROVE  Goes([x EXCEPT !.e.exit = exit], x)
  <1> DEFINE y == [x EXCEPT !.e.exit = exit]
             e == [x.e EXCEPT !.exit = exit]
  <1>1. x.e \in EngType
    BY DEF Section
  <1>2. y.e = e /\ y.s = x.s
    BY DEF Section
  <1> HIDE DEF y
  <1>3. /\ e.exit = exit /\ e.cur = x.e.cur /\ e.turnSeq = x.e.turnSeq
        /\ e.queue = x.e.queue /\ e.rowSeq = x.e.rowSeq
        /\ e.closed = x.e.closed /\ e.holds = x.e.holds
        /\ e.closeFences = x.e.closeFences /\ e.admitting = x.e.admitting /\ e.armed = x.e.armed
    BY <1>1 DEF EngType
  <1> HIDE DEF e
  <1>4. FenceBound(y.e)
    BY <1>2, <1>3 DEF FenceBound
  <1>5. RowsApart(y.e, y.s) /\ TurnTells(y.e, y.s) /\ MarksTell(y.e, y.s)
    BY <1>2, <1>3 DEF Orderly, RowsApart, TurnTells, MarksTell, Ran
  <1>6. \A c \in y.s.conts : ContTells(y.e, y.s, c)
    BY <1>2, <1>3 DEF Orderly, ContTells, Ran
  <1>7. Onward(y, x) /\ SameTurn(y, x)
    BY <1>2, <1>3 DEF Onward, SameTurn, Still
  <1> QED BY <1>4, <1>5, <1>6, <1>7 DEF Orderly, Goes, y

LEMMA SubmitStartsKeeps ==
  ASSUME IInv, JInv, NEW mode, NEW from \in Nat, NEW fence \in BOOLEAN, fence => from = 0,
         SubmitStarts(mode, from, fence)
  PROVE  Kept
  <1> DEFINE x == Admission(mode)
             row == Lookup(eng.queue, from)
             origin == IF mode = "send_now" THEN "send_now" ELSE "submit"
             y == Claim(x, row, origin)
             z == IF from = 0 THEN y ELSE SendRow(y, from)
             exit == [NoFence EXCEPT !.up = TRUE, !.turn = z.e.cur.id]
             w == IF fence THEN [z EXCEPT !.e.exit = exit] ELSE z
             v == Place(w, w.qev \o w.st)
  <1>1. Inside(x) /\ Section(x) /\ Goes(x, Enter) /\ Orderly(x) /\ x.e.queue = eng.queue
    BY AdmissionKeeps
  <1>2. eng.queue \in Seq(Row)
    BY EnterInv DEF EngType
  <1>3. /\ row \in Row \cup {NoRow} /\ row.id \in Ids(eng.queue) \cup {0}
        /\ Take(eng.queue, from) = Take(eng.queue, row.id)
    BY <1>2, LookupNames
  <1>4. from = 0 => row = NoRow
    BY <1>2, LookupNothing
  <1>5. Leave(v) /\ SubmitOutcome(x, mode, from) = "start" /\ hosts' = hosts
    BY DEF SubmitStarts
  <1> HIDE DEF x, row, origin
  <1>6. CanSubmit(x) /\ ~Refuses(x.e) /\ ~ExitFenced(x.e, from)
    BY <1>5 DEF SubmitOutcome
  <1>7. MayClaim(x)
    BY <1>1, <1>6 DEF CanSubmit, CanStart, Free, Refuses, MayClaim, Inside
  <1>8. ~ExitFenceEnded(x.e)
    BY <1>6 DEF ExitFenced, ExitFenceEnded
  <1>9. MayStart(x)
    BY <1>6, <1>7, <1>8 DEF MayStart, Refuses
  <1>10. Inside(y) /\ ClaimedOf(y, x, row)
    BY <1>1, <1>3, <1>7, ClaimInside, ClaimTells
  <1>11. from = 0 => Goes(y, x)
    BY <1>1, <1>4, <1>9, ClaimOrderly DEF Goes
  <1>12. Goes(SendRow(y, from), x)
    BY <1>1, <1>3, <1>9, ClaimSendOrderly DEF Goes
  <1> HIDE DEF y
  <1>13. Inside(z) /\ Section(z) /\ Goes(z, x)
    BY <1>10, <1>11, <1>12, SendRowInside DEF Inside
  <1>14. fence => ~ExitFenceEnded(z.e)
    BY <1>8, <1>10 DEF ClaimedOf, ExitFenceEnded
  <1> HIDE DEF z
  <1>15. exit \in ExitFence /\ exit.turn = z.e.cur.id
    BY <1>13 DEF NoFence, ExitFence, Inside, Section, EngType, Turn
  <1> HIDE DEF exit
  <1>16. Section(w) /\ Goes(w, z)
    <2>1. CASE fence
      <3>1. w = [z EXCEPT !.e.exit = exit] /\ Orderly(z)
        BY <1>13, <2>1 DEF Goes
      <3> HIDE DEF w
      <3> QED BY <1>13, <1>14, <1>15, <2>1, <3>1, FenceSetInside, FenceSetGoes DEF Inside
    <2>2. CASE ~fence
      BY <1>13, <2>2, AlikeItself, AlikeGoes DEF Goes
    <2> QED BY <2>1, <2>2
  <1> HIDE DEF w
  <1>17. Section(v) /\ Goes(v, w)
    <2>1. Section(v)
      BY <1>16, PlaceSection
    <2>2. Alike(v, w)
      BY <1>16, PlaceAlike
    <2> QED BY <1>16, <2>1, <2>2, AlikeGoes DEF Goes
  <1> HIDE DEF v
  <1>18. Goes(v, Enter)
    BY <1>1, <1>13, <1>16, <1>17, GoesTransitive
  <1> QED BY <1>5, <1>17, <1>18, GoesStep

LEMMA SubmitQueuesKeeps ==
  ASSUME IInv, JInv, NEW fence \in BOOLEAN, SubmitQueues(fence)
  PROVE  Kept
  <1> DEFINE x == Admission("queue")
             y == AddRow(x)
             exit == [NoFence EXCEPT !.up = TRUE, !.row = y.e.rowSeq]
             z == [y EXCEPT !.e.exit = exit]
             w == IF fence THEN z ELSE y
  <1>1. Inside(x) /\ Section(x) /\ Goes(x, Enter) /\ Orderly(x)
    BY AdmissionKeeps
  <1>2. Leave(w) /\ SubmitOutcome(x, "queue", 0) = "queue" /\ hosts' = hosts
    BY DEF SubmitQueues
  <1> HIDE DEF x
  <1>3. ~Refuses(x.e) /\ ~ExitFenced(x.e, 0)
    BY <1>2 DEF SubmitOutcome
  <1>4. x.e.closeFences = {} /\ ~ExitFenceEnded(x.e) /\ ~x.e.exit.up
    BY <1>3 DEF Refuses, ExitFenced, ExitFenceEnded
  <1>5. Goes(y, x) /\ Section(y) /\ y.e.exit = x.e.exit
    <2>1. Goes(y, x) /\ Section(y)
      BY <1>1, <1>4, AddRowOrderly
    <2>2. y.e.exit = x.e.exit
      BY <1>1 DEF AddRow, Section, EngType
    <2> QED BY <2>1, <2>2
  <1> HIDE DEF y
  <1>6. exit \in ExitFence /\ exit.turn = 0
    BY <1>5 DEF NoFence, ExitFence, Section, EngType
  <1> HIDE DEF exit
  <1>7. Section(z) /\ Goes(z, y)
    <2>1. Goes(z, y)
      BY <1>4, <1>5, <1>6, FenceSetGoes DEF Goes, ExitFenceEnded
    <2> DEFINE e == [y.e EXCEPT !.exit = exit]
    <2>2. e \in EngType
      BY <1>5, <1>6 DEF Section, EngType
    <2>3. Section(z)
      BY <1>5, <2>2 DEF Section
    <2> QED BY <2>1, <2>3
  <1> HIDE DEF z
  <1>8. Section(w) /\ Goes(w, Enter)
    BY <1>1, <1>5, <1>7, GoesTransitive
  <1> HIDE DEF w
  <1> QED BY <1>2, <1>8, GoesStep

LEMMA SubmitRefusedKeeps ==
  ASSUME IInv, JInv, NEW mode, NEW from, SubmitRefused(mode, from)
  PROVE  Kept
  BY AdmissionKeeps, GoesStep DEF SubmitRefused

-----------------------------------------------------------------------------
(* Cancels *)

\* The current turn is asked, and stays the current one.
LEMMA HoldOrderly ==
  ASSUME NEW x, Section(x), Orderly(x), NEW c \in Calls
  PROVE  Goes(Hold(x, c), x) /\ Hold(x, c).e.admitting = x.e.admitting
  <1> DEFINE holds == x.e.holds \cup {c}
             asked == x.e.cur.cancelAsked \/ x.e.cur.id # 0
             cur == [x.e.cur EXCEPT !.cancelAsked = asked]
             y == [x EXCEPT !.e.holds = holds, !.e.cur.cancelAsked = asked]
             e == [x.e EXCEPT !.holds = holds, !.cur = cur]
             z == Hold(x, c)
  <1>1. x.e \in EngType /\ x.e.cur \in Turn
    BY DEF Section, EngType
  <1>2. z = y
    BY <1>1 DEF Hold, Section, EngType
  <1> HIDE DEF holds, asked, z
  <1>3. /\ cur.id = x.e.cur.id /\ cur.row = x.e.cur.row /\ cur.returned = x.e.cur.returned
        /\ cur.retry = x.e.cur.retry /\ cur.res = x.e.cur.res /\ cur.cancelAsked = asked
    BY <1>1 DEF Turn
  <1>4. y.e = e /\ y.s = x.s
    BY <1>1 DEF Section, EngType
  <1> HIDE DEF cur
  <1>5. /\ e.cur = cur /\ e.holds = holds /\ e.exit = x.e.exit /\ e.turnSeq = x.e.turnSeq
        /\ e.queue = x.e.queue /\ e.rowSeq = x.e.rowSeq /\ e.closed = x.e.closed
        /\ e.closeFences = x.e.closeFences /\ e.admitting = x.e.admitting /\ e.armed = x.e.armed
    BY <1>1 DEF EngType
  <1> HIDE DEF y, e
  <1>6. TurnTells(z.e, z.s)
    BY <1>2, <1>3, <1>4, <1>5 DEF Orderly, TurnTells, asked
  <1>7. Retold(z, x)
    BY <1>2, <1>3, <1>4, <1>5, <1>6 DEF Retold, Still, asked
  <1> QED BY <1>2, <1>4, <1>5, <1>7, RetoldGoes DEF z

LEMMA SubmitArmsKeeps ==
  ASSUME IInv, JInv, NEW from \in Nat, NEW c \in Calls, SubmitArms(from, c)
  PROVE  Kept
  <1> DEFINE x == Admission("send_now")
             h == Hold(x, c)
             armed == [turn |-> eng.cur.id, from |-> from]
             log == Append(h.log, ArmedEvent)
             y == [h EXCEPT !.e.armed = armed, !.log = log]
             e == [h.e EXCEPT !.armed = armed]
  <1>1. Inside(x) /\ Section(x) /\ Goes(x, Enter) /\ Orderly(x)
    BY AdmissionKeeps
  <1>2. Leave(y) /\ hosts' = hosts /\ SubmitOutcome(x, "send_now", from) = "arm"
    BY DEF SubmitArms
  <1>3. armed \in Send
    BY EnterInv DEF Send, EngType, Turn
  <1> HIDE DEF x, armed
  <1>4. x.e.closeFences = {}
    BY <1>2 DEF SubmitOutcome, Refuses
  <1>5. Goes(h, x) /\ Section(h)
    BY <1>1, HoldOrderly, HoldInside DEF Inside
  <1> HIDE DEF h, log
  <1>6. h.e \in EngType /\ h.e.closeFences = {} /\ Orderly(h)
    BY <1>4, <1>5 DEF Section, Goes, Onward
  <1>7. e \in EngType
    BY <1>3, <1>6 DEF EngType
  <1>8. Section(y) /\ y.e = e /\ y.s = h.s
    BY <1>5, <1>7 DEF Section
  <1> HIDE DEF y
  <1>9. /\ e.cur = h.e.cur /\ e.holds = h.e.holds /\ e.exit = h.e.exit /\ e.turnSeq = h.e.turnSeq
        /\ e.queue = h.e.queue /\ e.rowSeq = h.e.rowSeq /\ e.closed = h.e.closed
        /\ e.closeFences = h.e.closeFences /\ e.admitting = h.e.admitting
    BY <1>6 DEF EngType
  <1> HIDE DEF e
  <1>10. Goes(y, h)
    <2>1. TurnTells(y.e, y.s)
      BY <1>6, <1>8, <1>9 DEF Orderly, TurnTells
    <2>2. Retold(y, h)
      BY <1>6, <1>8, <1>9, <2>1 DEF Orderly, Retold, MarksTell
    <2> QED BY <1>6, <2>2, RetoldGoes
  <1>11. Goes(y, Enter)
    BY <1>1, <1>5, <1>10, GoesTransitive
  <1> QED BY <1>2, <1>8, <1>11, GoesStep

LEMMA SubmitKeeps == ASSUME IInv, JInv, Submit PROVE Kept
  <1> DEFINE rows == {0} \cup {eng.queue[i].id : i \in DOMAIN eng.queue}
  <1>1. rows \subseteq Nat
    <2>1. eng.queue \in Seq(Row)
      BY EnterInv DEF EngType
    <2>2. \A i \in DOMAIN eng.queue : eng.queue[i] \in Row
      BY <2>1
    <2> QED BY <2>2 DEF Row
  <1>2. ASSUME NEW mode, NEW from, SubmitRefused(mode, from) PROVE Kept
    BY <1>2, SubmitRefusedKeeps
  <1>3. ASSUME NEW from \in rows, NEW mode, SubmitStarts(mode, from, FALSE) PROVE Kept
    BY <1>1, <1>3, SubmitStartsKeeps
  <1>4. ASSUME NEW from \in rows, NEW c \in Calls, SubmitArms(from, c) PROVE Kept
    BY <1>1, <1>4, SubmitArmsKeeps
  <1>5. ASSUME NEW fence \in BOOLEAN, SubmitQueues(fence) PROVE Kept
    BY <1>5, SubmitQueuesKeeps
  <1>6. ASSUME SubmitStarts("queue", 0, TRUE) PROVE Kept
    BY <1>6, SubmitStartsKeeps
  <1> HIDE DEF rows
  <1> QED BY <1>2, <1>3, <1>4, <1>5, <1>6 DEF Submit, rows

LEMMA CancelHeldKeeps == ASSUME IInv, JInv, NEW c \in Calls, CancelHeld(c) PROVE Kept
  <1> DEFINE r == Raise(Enter)
             x == LookIf(r, eng.cur.id = 0)
             y == Hold(x, c)
  <1>1. Inside(r) /\ Section(r) /\ Goes(r, Enter) /\ Orderly(r)
    BY RaisedKeeps
  <1>2. Leave(y) /\ hosts' = hosts
    BY DEF CancelHeld
  <1> HIDE DEF r
  <1>3. Inside(x) /\ Section(x) /\ Goes(x, r)
    BY <1>1, LookIfInside, LookIfSection, LookIfAlike, AlikeGoes
  <1> HIDE DEF x
  <1>4. Section(y) /\ Goes(y, x)
    BY <1>3, HoldInside, HoldOrderly DEF Inside, Goes
  <1> HIDE DEF y
  <1>5. Goes(y, Enter)
    BY <1>1, <1>3, <1>4, GoesTransitive
  <1> QED BY <1>2, <1>4, <1>5, GoesStep

LEMMA CancelRefusedKeeps == ASSUME IInv, JInv, CancelRefused PROVE Kept
  BY RaisedKeeps, GoesStep DEF CancelRefused

LEMMA StoppedGoes ==
  ASSUME NEW x, Section(x), Orderly(x)
  PROVE  Goes([x EXCEPT !.e.stopped = TRUE], x)
  <1> DEFINE y == [x EXCEPT !.e.stopped = TRUE]
             e == [x.e EXCEPT !.stopped = TRUE]
  <1>1. x.e \in EngType
    BY DEF Section
  <1>2. y.e = e /\ y.s = x.s
    BY DEF Section
  <1> HIDE DEF y
  <1>3. /\ e.exit = x.e.exit /\ e.cur = x.e.cur /\ e.turnSeq = x.e.turnSeq
        /\ e.queue = x.e.queue /\ e.rowSeq = x.e.rowSeq /\ e.closed = x.e.closed
        /\ e.holds = x.e.holds
        /\ e.closeFences = x.e.closeFences /\ e.admitting = x.e.admitting /\ e.armed = x.e.armed
    BY <1>1 DEF EngType
  <1> HIDE DEF e
  <1>4. TurnTells(y.e, y.s)
    BY <1>2, <1>3 DEF Orderly, TurnTells
  <1>5. Retold(y, x)
    BY <1>2, <1>3, <1>4 DEF Orderly, MarksTell, Retold, Still
  <1> QED BY <1>5, RetoldGoes DEF y

LEMMA StopHeldKeeps == ASSUME IInv, JInv, NEW c \in Calls, StopHeld(c) PROVE Kept
  <1> DEFINE x == Raise(Enter)
             s == [x EXCEPT !.e.stopped = TRUE]
             q == ClearQueue(s)
             d == Disarm(q)
             y == IF eng.stopped THEN x ELSE d
             evs == y.qev \o y.dis
             p == Place(y, evs)
             z == Hold(p, c)
  <1>1. Inside(x) /\ Section(x) /\ Goes(x, Enter) /\ Orderly(x)
    BY RaisedKeeps
  <1>2. Leave(z) /\ hosts' = hosts
    BY DEF StopHeld
  <1> HIDE DEF x
  <1>3. Inside(s) /\ Section(s) /\ Goes(s, x)
    BY <1>1, StoppedInside, StoppedGoes DEF Inside
  <1> HIDE DEF s
  <1>4. Inside(q) /\ Section(q) /\ Goes(q, s)
    BY <1>3, ClearQueueInside, ClearQueueOrderly DEF Inside, Goes
  <1> HIDE DEF q
  <1>5. Inside(d) /\ Section(d) /\ Goes(d, q)
    BY <1>4, DisarmInside, DisarmAlike, AlikeGoes DEF Inside, Goes
  <1> HIDE DEF d
  <1>6. Inside(y) /\ Section(y) /\ Goes(y, Enter)
    BY <1>1, <1>3, <1>4, <1>5, GoesTransitive
  <1> HIDE DEF y, evs
  <1>7. Inside(p) /\ Section(p) /\ Goes(p, Enter)
    BY <1>6, PlaceInside, PlaceGoes DEF Inside
  <1> HIDE DEF p
  <1>8. Section(z) /\ Goes(z, p)
    BY <1>7, HoldInside, HoldOrderly DEF Inside, Goes
  <1> HIDE DEF z
  <1>9. Goes(z, Enter)
    BY <1>7, <1>8, GoesTransitive
  <1> QED BY <1>2, <1>8, <1>9, GoesStep

\* The mark falls on a turn that was asked: its claim has the slot.
LEMMA CancelMarksKeeps == ASSUME IInv, JInv, NEW c \in Calls, CancelMarks(c) PROVE Kept
  <1>1. /\ ses \in SesType /\ Left.e = eng' /\ Left.s = ses' /\ Orderly(Enter)
        /\ eng' = eng /\ hosts' = hosts /\ calls[c].phase = "held"
    BY DEF IInv, TypeOK, Left, JInv, CancelMarks
  <1>2. /\ ses'.conts = ses.conts /\ ses'.slot = ses.slot /\ ses'.closed = ses.closed
        /\ ses'.reached = ses.reached /\ ses'.fenced = ses.fenced /\ ses'.agent = ses.agent
        /\ ses'.children = ses.children /\ ses'.pending = ses.pending
    BY <1>1 DEF CancelMarks, CancelMark, SesType
  <1>3. MarksTell(eng, ses')
    <2>1. eng.holds # {}
      BY <1>1 DEF IInv, HoldsMatch
    <2>2. ~eng.closed => ses.slot \in {0, eng.cur.id}
      BY Entered DEF IInv, Safe
    <2> QED BY <1>1, <1>2, <2>1, <2>2, Entered DEF Orderly, MarksTell
  <1>4. FenceBound(eng) /\ RowsApart(eng, ses') /\ TurnTells(eng, ses')
    BY <1>1, <1>2, Entered DEF Orderly, RowsApart, TurnTells, Ran
  <1>5. \A d \in ses'.conts : ContTells(eng, ses', d)
    BY <1>1, <1>2, Entered DEF Orderly, ContTells, Ran
  <1>6. Orderly(Left)
    BY <1>1, <1>3, <1>4, <1>5 DEF Orderly
  <1> QED BY <1>1, <1>2, <1>6, SessionKeeps DEF Wake, OwesWork

\* The hold given back.
Freed(c) == [Raise(Enter) EXCEPT !.e.holds = @ \ {c}]

LEMMA FreedReady == ASSUME IInv, JInv, NEW c \in Calls PROVE Ready(Freed(c))
  <1> DEFINE r == Raise(Enter)
             holds == r.e.holds \ {c}
             x == [r EXCEPT !.e.holds = holds]
             e == [r.e EXCEPT !.holds = holds]
  <1>1. /\ Inside(r) /\ Section(r) /\ r.e \in EngType /\ Orderly(r)
        /\ Onward(r, Enter) /\ SameSubject(r, Enter) /\ Silent(r, Enter)
    BY RaisedKeeps
  <1>2. Freed(c) = x
    BY DEF Freed
  <1> HIDE DEF r
  <1>3. holds \in SUBSET Calls /\ holds \subseteq r.e.holds
    BY <1>1 DEF EngType
  <1> HIDE DEF holds
  <1>4. e \in EngType
    BY <1>1, <1>3 DEF EngType
  <1>5. /\ Section(x) /\ x.e = e /\ x.s = r.s
        /\ x.log = r.log /\ x.qev = r.qev /\ x.dis = r.dis /\ x.st = r.st
    BY <1>1, <1>4 DEF Section
  <1>6. /\ e.cur = r.e.cur /\ e.closed = r.e.closed /\ e.holds = holds
        /\ e.turnSeq = r.e.turnSeq /\ e.fenced = r.e.fenced /\ e.stopped = r.e.stopped
        /\ e.exit = r.e.exit /\ e.queue = r.e.queue /\ e.rowSeq = r.e.rowSeq
        /\ e.closeFences = r.e.closeFences /\ e.admitting = r.e.admitting /\ e.armed = r.e.armed
    BY <1>1 DEF EngType
  <1> HIDE DEF x, e
  <1>7. FencesAgree(x) /\ \A f \in x.s.conts : ContinuationOK(x, f)
    BY <1>1, <1>5, <1>6 DEF Inside, Safe, FencesAgree, ContinuationOK
  <1>8. Safe(x)
    BY <1>1, <1>5, <1>6, <1>7 DEF Inside, Safe
  <1>9. Inside(x)
    BY <1>1, <1>5, <1>8 DEF Inside
  <1>10. Goes(x, r) /\ SameSubject(x, r)
    <2>1. TurnTells(x.e, x.s)
      BY <1>1, <1>5, <1>6 DEF Orderly, TurnTells
    <2>2. Retold(x, r)
      BY <1>1, <1>3, <1>5, <1>6, <2>1 DEF Orderly, MarksTell, Retold, Still
    <2> QED BY <1>1, <1>5, <1>6, <2>2, RetoldGoes DEF SameSubject
  <1>11. Onward(x, Enter) /\ SameSubject(x, Enter) /\ Silent(x, Enter)
    <2>1. Silent(x, r)
      BY <1>5, <1>6 DEF Silent
    <2>2. Onward(x, Enter)
      BY <1>1, <1>10, OnwardTransitive DEF Goes
    <2> QED BY <1>1, <1>10, <2>1, <2>2, SilentTransitive DEF SameSubject
  <1> QED BY <1>2, <1>9, <1>10, <1>11 DEF Ready, Goes

LEMMA ReleaseKeeps ==
  ASSUME IInv, JInv, NEW c \in Calls, NEW failed \in BOOLEAN, Release(c, failed)
  PROVE  Kept
  <1> DEFINE x == Freed(c)
             d == Disarm(x)
             p == Place(d, d.dis)
             lost == failed /\ eng.armed # NoSend /\ eng.armed.turn = calls[c].turn
             y == IF lost THEN p ELSE x
             z == Pass(y)
  <1>1. Leave(z) /\ hosts' = hosts
    BY DEF Release, Freed
  <1>2. Ready(x)
    BY FreedReady
  <1> HIDE DEF x, lost
  <1>3. Inside(d) /\ Section(d) /\ Alike(d, x)
    BY <1>2, DisarmInside, DisarmAlike DEF Ready, Inside
  <1> HIDE DEF d
  <1>4. Inside(p) /\ Alike(p, d)
    BY <1>3, PlaceInside, PlaceAlike
  <1> HIDE DEF p
  <1>5. Inside(y) /\ Alike(y, x)
    BY <1>2, <1>3, <1>4, AlikeItself, AlikeTransitive DEF Ready
  <1> HIDE DEF y
  <1>6. Orderly(y) /\ Onward(y, Enter) /\ SameSubject(y, Enter)
    <2>1. Goes(y, x)
      BY <1>2, <1>5, AlikeGoes DEF Ready
    <2> QED BY <1>2, <1>5, <2>1, OnwardTransitive DEF Ready, Goes, Alike, SameSubject
  <1>7. Section(z) /\ Passes(z, y)
    BY <1>5, <1>6, PassInside, PassOrderly DEF Inside
  <1> HIDE DEF z
  <1>8. Passes(z, Enter)
    BY <1>6, <1>7, PassesFrom
  <1> QED BY <1>1, <1>7, <1>8, SectionStep

LEMMA CancelKeeps == ASSUME IInv, JInv, CancelNext PROVE Kept
  <1> SUFFICES ASSUME NEW c \in Calls,
                      CancelHeld(c) \/ StopHeld(c) \/ CancelMarks(c) \/ CancelReturns(c) \/ StopAbandoned(c)
               PROVE  Kept
    BY DEF CancelNext
  <1>1. CancelReturns(c) \/ StopAbandoned(c) => Release(c, FALSE) \/ Release(c, TRUE)
    BY DEF CancelReturns, StopAbandoned
  <1> QED BY <1>1, CancelHeldKeeps, StopHeldKeeps, CancelMarksKeeps, ReleaseKeeps

-----------------------------------------------------------------------------
(* Giving up *)

\* The wait on the current turn ended.
GivenUp == [Raise(Enter) EXCEPT !.e.cur = [@ EXCEPT !.givenUp = TRUE, !.retry = FALSE, !.retryDue = FALSE]]

LEMMA GivenUpReady ==
  ASSUME IInv, JInv, ~eng.closed, eng.cur.retry
  PROVE  Ready(GivenUp) /\ GivenUp.e.cur.returned /\ ~GivenUp.e.closed
  <1> DEFINE r == Raise(Enter)
             cur == [r.e.cur EXCEPT !.givenUp = TRUE, !.retry = FALSE, !.retryDue = FALSE]
             x == [r EXCEPT !.e.cur = cur]
             e == [r.e EXCEPT !.cur = cur]
  <1>1. /\ Inside(r) /\ Section(r) /\ r.e \in EngType /\ r.e.cur \in Turn /\ Orderly(r)
        /\ Onward(r, Enter) /\ SameSubject(r, Enter) /\ Silent(r, Enter)
        /\ r.e.closed = eng.closed /\ r.e.cur.retry = eng.cur.retry
        /\ r.e.cur.retry => r.e.cur.returned
    BY RaisedKeeps, Entered DEF EngType, Inside, Safe, Alike
  <1>2. GivenUp = x
    BY DEF GivenUp
  <1> HIDE DEF r
  <1>3. /\ cur \in Turn /\ cur.id = r.e.cur.id /\ cur.returned = r.e.cur.returned /\ cur.retry = FALSE
        /\ cur.row = r.e.cur.row /\ cur.res = r.e.cur.res /\ cur.cancelAsked = r.e.cur.cancelAsked
    BY <1>1 DEF Turn
  <1> HIDE DEF cur
  <1>4. e \in EngType
    BY <1>1, <1>3 DEF EngType
  <1>5. /\ Section(x) /\ x.e = e /\ x.s = r.s
        /\ x.log = r.log /\ x.qev = r.qev /\ x.dis = r.dis /\ x.st = r.st
    BY <1>1, <1>4 DEF Section
  <1>6. /\ e.cur = cur /\ e.closed = r.e.closed /\ e.holds = r.e.holds
        /\ e.turnSeq = r.e.turnSeq /\ e.fenced = r.e.fenced /\ e.stopped = r.e.stopped
        /\ e.exit = r.e.exit /\ e.queue = r.e.queue /\ e.rowSeq = r.e.rowSeq
        /\ e.closeFences = r.e.closeFences /\ e.admitting = r.e.admitting /\ e.armed = r.e.armed
    BY <1>1 DEF EngType
  <1> HIDE DEF x, e
  <1>7. Inside(x)
    BY <1>1, <1>3, <1>5, <1>6, TurnChanges
  <1>8. Goes(x, r) /\ SameSubject(x, r)
    <2>1. TurnTells(x.e, x.s)
      BY <1>1, <1>3, <1>5, <1>6 DEF Orderly, TurnTells
    <2>2. Retold(x, r)
      BY <1>1, <1>3, <1>5, <1>6, <2>1 DEF Orderly, MarksTell, Retold, Still
    <2> QED BY <1>1, <1>3, <1>5, <1>6, <2>2, RetoldGoes DEF SameSubject
  <1>9. x.e.cur.returned /\ ~x.e.closed
    BY <1>1, <1>3, <1>5, <1>6
  <1>10. Onward(x, Enter) /\ SameSubject(x, Enter) /\ Silent(x, Enter)
    <2>1. Silent(x, r)
      BY <1>3, <1>5, <1>6 DEF Silent
    <2>2. Onward(x, Enter)
      BY <1>1, <1>8, OnwardTransitive DEF Goes
    <2> QED BY <1>1, <1>8, <2>1, <2>2, SilentTransitive DEF SameSubject
  <1> QED BY <1>2, <1>7, <1>8, <1>9, <1>10 DEF Ready, Goes

LEMMA GiveUpKeeps == ASSUME IInv, JInv, GiveUp PROVE Kept
  <1> DEFINE x == GivenUp
             y == IF eng.holds = {} THEN Settle(x) ELSE x
  <1>1. Leave(y) /\ hosts' = hosts /\ ~eng.closed /\ eng.cur.retry
    BY DEF GiveUp, GivenUp
  <1>2. Ready(x) /\ x.e.cur.returned /\ ~x.e.closed
    BY <1>1, GivenUpReady
  <1> HIDE DEF x
  <1>3. Inside(Settle(x)) /\ Passes(Settle(x), x)
    BY <1>2, SettleInside, SettleOrderly DEF Ready
  <1>4. Passes(x, x)
    BY <1>2, AlikeItself, AlikeGoes, GoesPasses DEF Ready, Goes
  <1>5. Section(y) /\ Passes(y, x)
    BY <1>2, <1>3, <1>4 DEF Ready, Inside
  <1> HIDE DEF y
  <1>6. Passes(y, Enter)
    BY <1>2, <1>5, PassesFrom DEF Ready
  <1> QED BY <1>1, <1>5, <1>6, SectionStep

LEMMA GiveUpDrainKeeps == ASSUME IInv, JInv, GiveUpDrain PROVE Kept
  <1> DEFINE x == Raise(Enter)
             y == IF eng.cur.id = 0 THEN Pass(x) ELSE x
             s == [y EXCEPT !.e.stopped = TRUE]
             z == Disarm(s)
             p == Place(z, z.dis)
             w == IF y.e.cur.id # 0 THEN y ELSE p
  <1>1. /\ Inside(x) /\ Section(x) /\ Goes(x, Enter) /\ Orderly(x) /\ Orderly(Enter)
        /\ x.e.cur = eng.cur
    BY RaisedKeeps, Entered DEF Alike
  <1>2. Leave(w) /\ hosts' = hosts
    BY DEF GiveUpDrain
  <1> HIDE DEF x
  <1>3. Inside(Pass(x)) /\ Passes(Pass(x), x)
    BY <1>1, PassInside, PassOrderly
  <1>4. Inside(y) /\ Section(y) /\ Orderly(y) /\ Onward(y, x)
    BY <1>1, <1>3, AlikeItself, AlikeOrderly DEF Inside, Passes
  <1>5. eng.cur.id # 0 => y.e.cur.id # 0 /\ y = x
    BY <1>1
  <1> HIDE DEF y
  <1>6. Inside(s) /\ Section(s) /\ Goes(s, y)
    BY <1>4, StoppedInside, StoppedGoes DEF Inside
  <1> HIDE DEF s
  <1>7. Inside(z) /\ Section(z) /\ Goes(z, s)
    BY <1>6, DisarmInside, DisarmAlike, AlikeGoes DEF Inside, Goes
  <1> HIDE DEF z
  <1>8. Section(p) /\ Goes(p, y)
    <2>1. Goes(z, y)
      BY <1>6, <1>7, GoesTransitive
    <2> QED BY <1>7, <2>1, PlaceInside, PlaceGoes DEF Inside
  <1> HIDE DEF p
  <1>9. Section(w) /\ Orderly(w) /\ Onward(w, x)
    BY <1>4, <1>8, OnwardTransitive DEF Goes
  <1>10. Passes(w, Enter)
    <2>1. Onward(w, Enter)
      BY <1>1, <1>9, OnwardTransitive DEF Goes
    <2>2. CASE eng.cur.id # 0
      <3>1. w = x
        BY <1>5, <2>2
      <3> QED BY <1>1, <3>1, GoesPasses
    <2>3. CASE eng.cur.id = 0
      <3>1. eng.cur.row = NoRow
        BY <1>1, <2>3, Entered DEF Orderly, TurnTells
      <3> QED BY <1>9, <2>1, <3>1, Entered DEF Passes, Safekeeps
    <2> QED BY <2>2, <2>3
  <1> HIDE DEF w
  <1> QED BY <1>2, <1>9, <1>10, SectionStep

-----------------------------------------------------------------------------
(* Hosts, and closing *)

\* A host's fence goes up over what its facts were read from, or comes down.
LEMMA FenceMoves ==
  ASSUME IInv, JInv, NEW x, Section(x), Orderly(x), Leave(x),
         x.e.exit = eng.exit, x.e.cur = eng.cur, x.e.turnSeq = eng.turnSeq, x.e.queue = eng.queue,
         x.e.closed = eng.closed, x.e.admitting = eng.admitting, x.e.armed = eng.armed,
         x.s.children = ses.children, x.s.pending = ses.pending, Wake(x.s) => Wake(ses),
         NEW h \in Hosts, x.e.closeFences \ {h} = eng.closeFences \ {h},
         NEW host, hosts' = [hosts EXCEPT ![h] = host],
         h \in x.e.closeFences <=> host.phase # "none",
         host.phase \in {"none", "raised"},
         host.phase = "raised" => /\ host.nothingStarts => ExitFenceEnded(eng)
                                  /\ ~host.busy => eng.closed \/ (Still(eng) /\ ~Wake(ses))
  PROVE  Kept
  <1>1. /\ Orderly(Left) /\ Onward(Left, x) /\ HeldBack(Left) /\ RowAwaited(eng')
        /\ eng'.queue = eng.queue /\ eng'.cur = eng.cur
    BY LeaveOrderly
  <1>2. /\ ExitFenceEnded(eng) => ExitFenceEnded(eng') /\ eng'.turnSeq = eng.turnSeq
        /\ x.e.closeFences # {} /\ Still(eng) => Still(eng')
        /\ eng'.closeFences = x.e.closeFences /\ eng'.closed = eng.closed
        /\ ses'.children = ses.children /\ ses'.pending = ses.pending
        /\ Wake(ses') => Wake(ses)
    BY <1>1 DEF Onward, Left, ExitFenceEnded, Still
  <1>3. hosts'[h] = host /\ \A g \in Hosts \ {h} : hosts'[g] = hosts[g]
    BY DEF IInv, TypeOK
  <1>4. ASSUME NEW g \in Hosts PROVE HostTells(g)'
    <2>1. HostTells(g)
      BY DEF JInv
    <2>2. /\ (~OwesWork(ses))' <=> ~OwesWork(ses)
          /\ ExitFenceEnded(eng)' <=> ExitFenceEnded(eng')
          /\ Still(eng)' <=> Still(eng')
          /\ Wake(ses)' <=> Wake(ses')
      BY <1>2 DEF OwesWork, ExitFenceEnded, Still, Wake
    <2>3. CASE g = h
      BY <1>2, <1>3, <2>2, <2>3 DEF HostTells
    <2>4. CASE g # h
      <3>1. /\ hosts'[g] = hosts[g] /\ (g \in x.e.closeFences <=> g \in eng.closeFences)
        BY <1>3, <2>4
      <3> QED BY <1>2, <2>1, <2>2, <3>1 DEF HostTells
    <2> QED BY <2>3, <2>4
  <1>5. Orderly(Enter)' /\ HeldBack(Enter)' /\ RowAwaited(eng)'
    BY <1>1, OrderlyLeft DEF HeldBack, Left, Enter, ExitFenceEnded, RowAwaited, Has
  <1>6. NothingStarts
    BY <1>2 DEF NothingStarts
  <1>7. RowSurvives
    BY <1>1 DEF RowSurvives
  <1> QED BY <1>4, <1>5, <1>6, <1>7 DEF JInv, Kept

LEMMA FenceCloseKeeps == ASSUME IInv, JInv, NEW h \in Hosts, FenceClose(h) PROVE Kept
  <1> DEFINE r == Raise(Enter)
             fences == r.e.closeFences \cup {h}
             w == [r EXCEPT !.e.closeFences = fences]
             e == [r.e EXCEPT !.closeFences = fences]
             x == Look(w)
             busy == BusyFacts(eng) \/ ForeignTurn(ses)
             host == [phase |-> "raised", busy |-> busy, nothingStarts |-> ExitFenceEnded(eng)]
  <1>1. Section(r) /\ r.e \in EngType /\ Alike(r, Enter) /\ Orderly(r)
    BY RaisedKeeps
  <1>2. Leave(x) /\ hosts' = [hosts EXCEPT ![h] = host]
    BY DEF FenceClose
  <1>3. ~busy => ~eng.closed /\ eng.armed = NoSend /\ Still(eng) /\ ~Wake(ses)
    BY DEF BusyFacts, Still, ForeignTurn, Wake
  <1>4. r.e.armed \in {eng.armed, NoSend} /\ r.e.armed = eng.armed
    <2>1. Raise(Enter).e.armed = eng.armed
      BY EnterInv DEF Raise, Section, EngType
    <2> QED BY <2>1
  <1> HIDE DEF r
  <1>5. fences \in SUBSET Hosts
    BY <1>1 DEF EngType
  <1>6. h \in fences /\ fences \ {h} = eng.closeFences \ {h}
    BY <1>1, Entered DEF Alike
  <1> HIDE DEF fences, busy
  <1>7. e \in EngType
    BY <1>1, <1>5 DEF EngType
  <1>8. Section(w) /\ w.e = e /\ w.s = r.s
    BY <1>1, <1>7 DEF Section
  <1> HIDE DEF w
  <1>9. /\ e.cur = r.e.cur /\ e.closed = r.e.closed /\ e.holds = r.e.holds
        /\ e.turnSeq = r.e.turnSeq /\ e.stopped = r.e.stopped
        /\ e.exit = r.e.exit /\ e.queue = r.e.queue /\ e.rowSeq = r.e.rowSeq
        /\ e.closeFences = fences /\ e.admitting = r.e.admitting /\ e.armed = r.e.armed
    BY <1>1 DEF EngType
  <1> HIDE DEF e
  <1>10. Orderly(w)
    <2>1. FenceBound(w.e) /\ RowsApart(w.e, w.s) /\ TurnTells(w.e, w.s) /\ MarksTell(w.e, w.s)
      BY <1>1, <1>8, <1>9 DEF Orderly, FenceBound, RowsApart, TurnTells, MarksTell
    <2>2. \A d \in w.s.conts : ContTells(w.e, w.s, d)
      BY <1>1, <1>8, <1>9 DEF Orderly, ContTells
    <2> QED BY <2>1, <2>2 DEF Orderly
  <1>11. Section(x) /\ Alike(x, w) /\ x.e.armed = w.e.armed
    <2>1. Section(x)
      BY <1>8, LookSection
    <2>2. Alike(x, w)
      BY <1>8, LookIfAlike DEF LookIf
    <2>3. x.e.armed = w.e.armed
      BY <1>8 DEF Look, Section, EngType
    <2> QED BY <2>1, <2>2, <2>3
  <1> HIDE DEF x
  <1>12. Orderly(x)
    BY <1>10, <1>11, AlikeOrderly
  <1>13. /\ x.e.exit = eng.exit /\ x.e.cur = eng.cur /\ x.e.turnSeq = eng.turnSeq
         /\ x.e.queue = eng.queue /\ x.e.closed = eng.closed /\ x.e.admitting = eng.admitting
         /\ x.e.armed = eng.armed /\ x.e.closeFences = fences
         /\ x.s.children = ses.children /\ x.s.pending = ses.pending /\ (Wake(x.s) => Wake(ses))
    BY <1>1, <1>4, <1>8, <1>9, <1>11, Entered DEF Alike
  <1>14. /\ host.phase = "raised" /\ (host.nothingStarts => ExitFenceEnded(eng))
         /\ ~host.busy => Still(eng) /\ ~Wake(ses)
    BY <1>3
  <1> HIDE DEF host
  <1> QED BY <1>2, <1>6, <1>11, <1>12, <1>13, <1>14, FenceMoves

LEMMA FenceVerdictKeeps == ASSUME IInv, JInv, NEW h \in Hosts, FenceVerdict(h) PROVE Kept
  <1>1. /\ eng' = eng /\ ses' = ses /\ hosts[h].phase = "raised" /\ hosts \in [Hosts -> Host]
    BY DEF FenceVerdict, IInv, TypeOK
  <1>2. PICK shown \in BOOLEAN :
          hosts' = [hosts EXCEPT ![h].phase =
                      IF hosts[h].busy \/ shown \/ (~hosts[h].nothingStarts /\ OwesWork(ses))
                      THEN "busy" ELSE "idle"]
    BY DEF FenceVerdict
  <1> DEFINE phase == IF hosts[h].busy \/ shown \/ (~hosts[h].nothingStarts /\ OwesWork(ses))
                      THEN "busy" ELSE "idle"
  <1>3. /\ phase \in {"busy", "idle"}
        /\ phase = "idle" => ~hosts[h].busy /\ (hosts[h].nothingStarts \/ ~OwesWork(ses))
    OBVIOUS
  <1>4. hosts' = [hosts EXCEPT ![h].phase = phase]
    BY <1>2
  <1> HIDE DEF phase
  <1>5. /\ hosts'[h].phase = phase /\ hosts'[h].busy = hosts[h].busy
        /\ hosts'[h].nothingStarts = hosts[h].nothingStarts
        /\ \A g \in Hosts \ {h} : hosts'[g] = hosts[g]
    BY <1>1, <1>4 DEF Host
  <1>6. ASSUME NEW g \in Hosts PROVE HostTells(g)'
    <2>1. HostTells(g)
      BY DEF JInv
    <2>2. /\ OwesWork(ses)' <=> OwesWork(ses)
          /\ ExitFenceEnded(eng)' <=> ExitFenceEnded(eng)
          /\ Still(eng)' <=> Still(eng)
          /\ Wake(ses)' <=> Wake(ses)
      BY <1>1 DEF OwesWork, ExitFenceEnded, Still, Wake
    <2>3. CASE g = h
      BY <1>1, <1>3, <1>5, <2>1, <2>2, <2>3 DEF HostTells
    <2>4. CASE g # h
      BY <1>1, <1>5, <2>1, <2>2, <2>4 DEF HostTells
    <2> QED BY <2>3, <2>4
  <1>7. Orderly(Left)
    BY <1>1, Entered, OrderlyReads DEF JInv, Left
  <1>8. Orderly(Enter)' /\ HeldBack(Enter)' /\ RowAwaited(eng)'
    BY <1>1, <1>7, OrderlyLeft, Entered DEF JInv, HeldBack, Enter, ExitFenceEnded, RowAwaited, Has
  <1>9. NothingStarts /\ RowSurvives
    BY <1>1 DEF NothingStarts, RowSurvives
  <1> QED BY <1>6, <1>8, <1>9 DEF JInv, Kept

LEMMA ReleaseFenceKeeps == ASSUME IInv, JInv, NEW h \in Hosts, ReleaseFence(h) PROVE Kept
  <1> DEFINE left == eng.closeFences \ {h}
             replay == left = {} /\ eng.passHeld
             held == eng.passHeld /\ ~replay
             kick == eng.kick \/ replay
             x == [Enter EXCEPT !.e.closeFences = left, !.e.passHeld = held, !.e.kick = kick]
             e == [eng EXCEPT !.closeFences = left, !.passHeld = held, !.kick = kick]
  <1>1. /\ Section(Enter) /\ Enter.e = eng /\ Enter.s = ses /\ eng \in EngType
        /\ Orderly(Enter)
    BY EnterInv DEF JInv
  <1>2. Leave(x) /\ hosts' = [hosts EXCEPT ![h] = NoHost]
    BY <1>1 DEF ReleaseFence, Section, EngType
  <1>3. left \in SUBSET Hosts /\ held \in BOOLEAN /\ kick \in BOOLEAN
    BY <1>1 DEF EngType
  <1>4. h \notin left /\ left \ {h} = eng.closeFences \ {h}
    OBVIOUS
  <1> HIDE DEF left, held, kick
  <1>5. e \in EngType
    BY <1>1, <1>3, FencesType
  <1>6. Section(x) /\ x.e = e /\ x.s = ses
    BY <1>1, <1>5 DEF Section
  <1> HIDE DEF x
  <1>7. /\ e.cur = eng.cur /\ e.closed = eng.closed /\ e.holds = eng.holds
        /\ e.turnSeq = eng.turnSeq /\ e.stopped = eng.stopped
        /\ e.exit = eng.exit /\ e.queue = eng.queue /\ e.rowSeq = eng.rowSeq
        /\ e.closeFences = left /\ e.admitting = eng.admitting /\ e.armed = eng.armed
    BY <1>1 DEF EngType
  <1> HIDE DEF e
  <1>8. Orderly(x)
    <2>1. FenceBound(x.e) /\ RowsApart(x.e, x.s) /\ TurnTells(x.e, x.s) /\ MarksTell(x.e, x.s)
      BY <1>1, <1>6, <1>7 DEF Orderly, FenceBound, RowsApart, TurnTells, MarksTell
    <2>2. \A d \in x.s.conts : ContTells(x.e, x.s, d)
      BY <1>1, <1>6, <1>7 DEF Orderly, ContTells
    <2> QED BY <2>1, <2>2 DEF Orderly
  <1>9. NoHost.phase = "none"
    BY DEF NoHost
  <1> QED BY <1>2, <1>4, <1>6, <1>7, <1>8, <1>9, FenceMoves

LEMMA CloseEngineKeeps == ASSUME IInv, JInv, CloseEngine PROVE Kept
  <1> DEFINE w == [Enter EXCEPT !.e.closed = TRUE, !.e.activity = "closing", !.e.cur = NoTurn]
             e == [eng EXCEPT !.closed = TRUE, !.activity = "closing", !.cur = NoTurn]
             x == Raise(w)
             y == Disarm(x)
             ended == IF eng.cur.id = 0 THEN <<>> ELSE <<EndedEvent(eng.cur.id, 0, Len(eng.queue))>>
             evs == ended \o y.dis
             z == Place(y, evs)
  <1>1. /\ Section(Enter) /\ Enter.e = eng /\ Enter.s = ses /\ eng \in EngType
        /\ Orderly(Enter) /\ RowAwaited(eng) /\ eng.queue \in Seq(Row) /\ eng.rowSeq \in Nat
    BY EnterInv DEF JInv, EngType
  <1>2. Commit(z) /\ hosts' = hosts
    BY DEF CloseEngine
  <1>3. /\ NoTurn \in Turn /\ NoTurn.id = 0 /\ NoTurn.row = NoRow /\ NoRow.id = 0
        /\ NoTurn.returned = FALSE /\ NoTurn.retry = FALSE
    BY DEF NoTurn, Turn, NoRow
  <1>4. e \in EngType
    BY <1>1, <1>3 DEF EngType, Activities
  <1>5. Section(w) /\ w.e = e /\ w.s = ses
    BY <1>1, <1>4 DEF Section
  <1> HIDE DEF w, evs
  <1>6. /\ e.cur = NoTurn /\ e.closed = TRUE /\ e.holds = eng.holds
        /\ e.turnSeq = eng.turnSeq /\ e.stopped = eng.stopped
        /\ e.exit = eng.exit /\ e.queue = eng.queue /\ e.rowSeq = eng.rowSeq
        /\ e.closeFences = eng.closeFences /\ e.admitting = eng.admitting
    BY <1>1 DEF EngType
  <1> HIDE DEF e
  <1>7. Orderly(w)
    <2>1. FenceBound(w.e) /\ TurnTells(w.e, w.s) /\ MarksTell(w.e, w.s)
      BY <1>3, <1>5, <1>6 DEF FenceBound, TurnTells, MarksTell
    <2>2. RowsApart(w.e, w.s)
      <3>1. \A id \in Ids(eng.queue) : id # 0
        BY <1>1, IdsTyped
      <3> QED BY <1>1, <1>3, <1>5, <1>6, <3>1 DEF Orderly, RowsApart
    <2>3. \A c \in w.s.conts : ContTells(w.e, w.s, c)
      BY <1>1, <1>5, <1>6 DEF Orderly, ContTells, Ran
    <2> QED BY <2>1, <2>2, <2>3 DEF Orderly
  <1>8. Section(x) /\ Alike(x, w) /\ (Native => x.s.fenced = TRUE)
    BY <1>5, RaiseSection, RaiseAlike
  <1> HIDE DEF x
  <1>9. Section(y) /\ Alike(y, x) /\ y.s.fenced = x.s.fenced
    BY <1>8, DisarmSection, DisarmAlike DEF Same
  <1> HIDE DEF y
  <1>10. Alike(z, y) /\ z.e = y.e /\ z.s = y.s
    BY <1>9, PlaceSection, PlaceAlike
  <1> HIDE DEF z
  <1>11. Orderly(z) /\ Alike(z, w)
    BY <1>7, <1>8, <1>9, <1>10, AlikeTransitive, AlikeOrderly
  <1>12. eng' = z.e /\ ses' = z.s /\ Left.e = z.e /\ Left.s = z.s
    BY <1>2 DEF Commit, Left
  <1>13. Orderly(Left)
    BY <1>11, <1>12, OrderlyReads
  <1>14. /\ eng'.closed = TRUE /\ eng'.exit = eng.exit /\ eng'.queue = eng.queue
         /\ eng'.turnSeq = eng.turnSeq /\ eng'.closeFences = eng.closeFences
         /\ Wake(ses') => Wake(ses)
         /\ Native => ses'.fenced = TRUE
    BY <1>5, <1>6, <1>8, <1>9, <1>10, <1>11, <1>12 DEF Alike
  <1>15. ASSUME NEW h \in Hosts PROVE HostTells(h)'
    <2>1. HostTells(h)
      BY DEF JInv
    <2>2. ExitFenceEnded(eng)' <=> ExitFenceEnded(eng)
      BY <1>14 DEF ExitFenceEnded
    <2> QED BY <1>2, <1>14, <2>1, <2>2 DEF HostTells
  <1>16. Orderly(Enter)' /\ HeldBack(Enter)' /\ RowAwaited(eng)'
    BY <1>1, <1>13, <1>14, OrderlyLeft DEF HeldBack, Enter, RowAwaited, Has
  <1>17. NothingStarts /\ RowSurvives
    BY <1>14 DEF NothingStarts, RowSurvives, ExitFenceEnded
  <1> QED BY <1>15, <1>16, <1>17 DEF JInv, Kept

LEMMA CloseSessionKeeps == ASSUME IInv, JInv, CloseSession PROVE Kept
  <1>1. /\ ses \in SesType /\ Left.e = eng' /\ Left.s = ses' /\ Orderly(Enter)
        /\ eng' = eng /\ hosts' = hosts /\ eng.closed
    BY DEF IInv, TypeOK, Left, JInv, CloseSession
  <1>2. /\ ses'.conts = ses.conts /\ ses'.slot = ses.slot /\ ses'.cancelling = ses.cancelling
        /\ ses'.reached = ses.reached /\ ses'.fenced = ses.fenced /\ ses'.agent = ses.agent
        /\ ses'.children = ses.children /\ ses'.pending = ses.pending
    BY <1>1 DEF CloseSession, SesType
  <1>3. FenceBound(eng) /\ RowsApart(eng, ses') /\ TurnTells(eng, ses') /\ MarksTell(eng, ses')
    BY <1>1, <1>2, Entered DEF Orderly, RowsApart, TurnTells, MarksTell, Ran
  <1>4. \A d \in ses'.conts : ContTells(eng, ses', d)
    BY <1>1, <1>2, Entered DEF Orderly, ContTells, Ran
  <1>5. Orderly(Left)
    BY <1>1, <1>3, <1>4 DEF Orderly
  <1> QED BY <1>1, <1>2, <1>5, SessionKeeps DEF Wake, OwesWork

-----------------------------------------------------------------------------
(* The theorems *)

LEMMA InitOrderly == Init => JInv
  <1> SUFFICES ASSUME Init PROVE JInv
    OBVIOUS
  <1>1. PICK loads \in BOOLEAN : eng = EngInit(loads)
    BY DEF Init
  <1>2. /\ eng.exit = NoFence /\ eng.cur = NoTurn /\ eng.queue = <<>> /\ eng.rowSeq = 0
        /\ eng.holds = {} /\ eng.closed = FALSE /\ eng.closeFences = {}
    BY <1>1 DEF EngInit
  <1>3. ses.conts = {} /\ ses.slot = 0 /\ ses.reached = {} /\ ses.closed = FALSE
    BY DEF Init, SesInit
  <1>4. /\ NoFence.up = FALSE /\ NoTurn.id = 0 /\ NoTurn.row = NoRow /\ NoRow.id = 0
        /\ NoTurn.returned = FALSE /\ NoTurn.retry = FALSE /\ NoHost.phase = "none"
    BY DEF NoFence, NoTurn, NoRow, NoHost
  <1>5. FenceBound(eng) /\ TurnTells(eng, ses) /\ MarksTell(eng, ses)
    BY <1>2, <1>3, <1>4 DEF FenceBound, TurnTells, MarksTell
  <1>6. RowsApart(eng, ses)
    BY <1>2, <1>3, <1>4, NoIds DEF RowsApart
  <1>7. Orderly(Enter) /\ HeldBack(Enter) /\ RowAwaited(eng)
    BY <1>2, <1>3, <1>4, <1>5, <1>6, Entered DEF Orderly, HeldBack, RowAwaited, ExitFenceEnded
  <1>8. ASSUME NEW h \in Hosts PROVE HostTells(h)
    <2>1. hosts[h].phase = "none"
      BY <1>4 DEF Init
    <2> QED BY <1>2, <2>1 DEF HostTells
  <1> QED BY <1>7, <1>8 DEF JInv

LEMMA NextKeeps == IInv /\ JInv /\ Next => Kept
  <1> SUFFICES ASSUME IInv, JInv, Next PROVE Kept
    OBVIOUS
  <1>1. CASE SessionStep
    BY <1>1, SessionStepKeeps
  <1>2. CASE DriverNext
    BY <1>2, DriverKeeps
  <1>3. CASE \E c \in ses.conts : Return(c)
    BY <1>3, ReturnKeeps
  <1>4. CASE \E ok \in BOOLEAN : Started(ok)
    BY <1>4, StartedKeeps
  <1>5. CASE Submit
    BY <1>5, SubmitKeeps
  <1>6. CASE InterjectAdmitted \/ InterjectMade
    BY <1>6, InterjectKeeps
  <1>7. CASE QueueVerb \/ DisarmSend
    BY <1>7, QueueVerbKeeps, DisarmSendKeeps
  <1>8. CASE CancelNext \/ CancelRefused
    BY <1>8, CancelKeeps, CancelRefusedKeeps
  <1>9. CASE GiveUp \/ GiveUpDrain
    BY <1>9, GiveUpKeeps, GiveUpDrainKeeps
  <1>10. CASE HostNext
    BY <1>10, FenceCloseKeeps, FenceVerdictKeeps, ReleaseFenceKeeps DEF HostNext
  <1>11. CASE CloseEngine \/ CloseSession
    BY <1>11, CloseEngineKeeps, CloseSessionKeeps
  <1> QED BY <1>1, <1>2, <1>3, <1>4, <1>5, <1>6, <1>7, <1>8, <1>9, <1>10, <1>11 DEF Next

LEMMA StepKeeps ==
  IInv /\ JInv /\ [Next]_vars => JInv' /\ [NothingStarts]_vars /\ [RowSurvives]_vars
  <1> SUFFICES ASSUME IInv, JInv, [Next]_vars PROVE JInv' /\ [NothingStarts]_vars /\ [RowSurvives]_vars
    OBVIOUS
  <1>1. CASE Next
    <2>1. Kept
      BY <1>1, NextKeeps
    <2> QED BY <2>1 DEF Kept
  <1>2. CASE UNCHANGED vars
    <2>1. eng' = eng /\ ses' = ses /\ hosts' = hosts
      BY <1>2 DEF vars
    <2>2. Left.e = eng /\ Left.s = ses
      BY <2>1 DEF Left
    <2>3. Alike(Left, Enter)
      BY <2>2, Entered DEF Alike
    <2>4. Kept
      BY <2>1, <2>3, AlikeStep
    <2> QED BY <2>4 DEF Kept
  <1> QED BY <1>1, <1>2

LEMMA Keeping == Spec => [](IInv /\ JInv)
  BY InitInv, InitOrderly, NextInv, StepKeeps, PTL DEF Spec

\* A follow-up is prompted at most once, for every session, policy and set of
\* clients: claimLocked and takeRowLocked move a row in one section, and
\* restoreLocked puts one back only when its prompt never reached the agent.
THEOREM RowsRunOnce == Spec => []RowRunsOnce
  <1>1. JInv => RowRunsOnce
    <2> SUFFICES ASSUME JInv PROVE RowRunsOnce
      OBVIOUS
    <2>1. RowsApart(eng, ses) /\ \A c \in ses.conts : ContTells(eng, ses, c)
      BY Entered DEF JInv, Orderly
    <2>2. \A i \in DOMAIN eng.queue : eng.queue[i].id \in Ids(eng.queue)
      BY DEF Ids
    <2>3. \A i \in DOMAIN eng.queue : eng.queue[i].id \notin ses.reached \cup {eng.cur.row.id}
      BY <2>1, <2>2 DEF RowsApart
    <2>4. \A c \in ses.conts : c.phase \in {"claimed", "open"} => c.row \notin ses.reached
      BY <2>1 DEF ContTells
    <2> QED BY <2>3, <2>4 DEF RowRunsOnce
  <1> QED BY <1>1, Keeping, PTL

\* A standing exit fence always has its row queued, its turn running or that
\* turn's end behind it: liftExitFenceLocked lifts it in the section whose row
\* left, whatever took the row.
THEOREM ExitFenceAwaits == Spec => []ExitFenceHasSubject
  <1>1. JInv => ExitFenceHasSubject
    BY Entered DEF JInv, Orderly, FenceBound, RowAwaited, ExitFenceHasSubject
  <1> QED BY <1>1, Keeping, PTL

\* A host told "idle" may end the session, however many fences are up: nothing
\* it read before its verdict can start again while its fence stands.
THEOREM IdleVerdictsHold == Spec => []IdleVerdictHolds
  <1>1. IInv /\ JInv => IdleVerdictHolds
    <2> SUFFICES ASSUME IInv, JInv, NEW h \in Hosts, hosts[h].phase = "idle", ~eng.closed
                 PROVE  /\ eng.cur.id = 0 /\ ses.conts = {} /\ ~eng.admitting
                        /\ eng.queue = <<>> /\ eng.armed = NoSend
                        /\ Native => ~Wake(ses)
                        /\ ExitFenceEnded(eng) \/ ~OwesWork(ses)
      BY DEF IdleVerdictHolds
    <2>1. /\ Still(eng) /\ ~Wake(ses)
          /\ ExitFenceEnded(eng) \/ ~OwesWork(ses)
      BY DEF JInv, HostTells
    <2>2. ses.conts = {}
      <3>1. ses.conts \in SUBSET Cont
        BY DEF IInv, TypeOK, SesType
      <3>2. \A c \in ses.conts : c.turn = eng.cur.id /\ c.turn # 0
        BY <3>1, Entered DEF JInv, Orderly, ContTells, Cont
      <3> QED BY <2>1, <3>2 DEF Still
    <2> QED BY <2>1, <2>2 DEF Still
  <1> QED BY <1>1, Keeping, PTL

\* Once the turn of an exit-after-turn prompt has ended, no turn is claimed and
\* no wake starts, whichever section runs next.
THEOREM NothingStartsAfterExit == Spec => NothingAfterExit
  <1>1. Spec => [][NothingStarts]_vars
    BY Keeping, StepKeeps, PTL DEF Spec
  <1> QED BY <1>1, PTL DEF NothingAfterExit, NothingStarts

\* A refused follow-up is never lost: the section that ends its turn puts the
\* row back at the head as it was, unless the turn was cancelled or the engine
\* stopped or closed.
THEOREM WaitingRowsSurvive == Spec => WaitingRowSurvives
  <1>1. Spec => [][RowSurvives]_vars
    BY Keeping, StepKeeps, PTL DEF Spec
  <1> QED BY <1>1, PTL DEF WaitingRowSurvives, RowSurvives

-----------------------------------------------------------------------------
(* The fold of a log, by its last event *)

\* Induction, as the library's theorems on well-founded orders allow it: over
\* a set of numbers.
LEMMA Induction ==
  ASSUME NEW T, 0 \in T, \A n \in Nat : n \in T => n + 1 \in T
  PROVE  \A n \in Nat : n \in T
  <1> DEFINE R == OpToRel(<, Nat)
             U == Nat \ T
  <1>1. IsWellFoundedOn(R, Nat)
    BY NatLessThanWellFounded
  <1>2. R = {ss \in Nat \X Nat : ss[1] < ss[2]}
    BY DEF OpToRel
  <1> HIDE DEF R
  <1>3. ASSUME U # {} PROVE FALSE
    <2>1. PICK x \in U : \A y \in U : ~(<<y, x>> \in R)
      BY <1>1, <1>3, WFMin
    <2>2. x \in Nat /\ x \notin T /\ x # 0
      OBVIOUS
    <2>3. x - 1 \in Nat /\ <<x - 1, x>> \in R /\ x = (x - 1) + 1
      BY <1>2, <2>2
    <2>4. x - 1 \in T
      BY <2>1, <2>3
    <2> QED BY <2>2, <2>3, <2>4
  <1> QED BY <1>3

\* What FoldLeft chooses: the fold of the events of each set of places.
IsFold(f, n, v, evs) ==
  f = [s \in SUBSET (1..n) |->
         IF s = {} THEN v ELSE Fold(f[s \ {Max(s)}], evs[Max(s)])]

IsTheFold(f, n, v, evs) == IsFold(f, n, v, evs) /\ \A h : IsFold(h, n, v, evs) => h = f

LEMMA TheFold ==
  ASSUME NEW v, NEW evs, NEW n \in Nat, DOMAIN evs = 1..n, NEW g, IsTheFold(g, n, v, evs)
  PROVE  FoldAll(v, evs) = g[1..n]
  <1> DEFINE G == CHOOSE f : IsFold(f, n, v, evs)
  <1>1. FoldAll(v, evs) = G[1..n]
    BY DEF FoldAll, FoldLeft, MapThenFoldSet, IsFold
  <1>2. IsFold(G, n, v, evs)
    <2> HIDE DEF IsFold
    <2> QED BY DEF IsTheFold
  <1> QED BY <1>1, <1>2 DEF IsTheFold

LEMMA MaxOfLast ==
  ASSUME NEW n \in Nat, NEW s \in SUBSET (1..(n + 1)), n + 1 \in s
  PROVE  Max(s) = n + 1
  <1>1. \A x \in s : x \in Nat /\ x <= n + 1
    OBVIOUS
  <1>2. \A x \in s : (\A y \in s : x >= y) => x = n + 1
    BY <1>1
  <1> QED BY <1>1, <1>2 DEF Max

LEMMA OneMorePlace ==
  ASSUME NEW n \in Nat
  PROVE  /\ SUBSET (1..n) \subseteq SUBSET (1..(n + 1))
         /\ \A s \in SUBSET (1..n) : n + 1 \notin s
         /\ \A s \in SUBSET (1..(n + 1)) : n + 1 \notin s => s \in SUBSET (1..n)
         /\ \A s \in SUBSET (1..(n + 1)) :
               n + 1 \in s => s \ {n + 1} \in SUBSET (1..n) /\ Max(s) = n + 1
         /\ \A s \in SUBSET (1..n) : \A x : s \ {x} \in SUBSET (1..n)
         /\ (1..(n + 1)) \ {n + 1} = 1..n
         /\ n + 1 \in 1..(n + 1)
         /\ 1..(n + 1) \in SUBSET (1..(n + 1))
  <1>2. \A x \in 1..(n + 1) : x # n + 1 => x \in 1..n
    OBVIOUS
  <1>3. \A s \in SUBSET (1..(n + 1)) : n + 1 \in s => Max(s) = n + 1
    BY MaxOfLast
  <1>4. \A s \in SUBSET (1..(n + 1)) : n + 1 \in s => s \ {n + 1} \in SUBSET (1..n)
    BY <1>2
  <1>5. \A s \in SUBSET (1..(n + 1)) : n + 1 \notin s => s \in SUBSET (1..n)
    BY <1>2
  <1>6. \A s \in SUBSET (1..n) : \A x : s \ {x} \in SUBSET (1..n)
    OBVIOUS
  <1>7. (1..(n + 1)) \ {n + 1} = 1..n
    OBVIOUS
  <1>8. SUBSET (1..n) \subseteq SUBSET (1..(n + 1)) /\ \A s \in SUBSET (1..n) : n + 1 \notin s
    OBVIOUS
  <1>9. n + 1 \in 1..(n + 1) /\ 1..(n + 1) \in SUBSET (1..(n + 1))
    OBVIOUS
  <1> QED BY <1>3, <1>4, <1>5, <1>6, <1>7, <1>8, <1>9

\* The greatest place of a set of places is one of them.
LEMMA MaxIn == ASSUME NEW n \in Nat, NEW s \in SUBSET (1..n), s # {} PROVE Max(s) \in s
  <1> DEFINE Topped(m) == \A t \in SUBSET (1..m) : t # {} => \E x \in t : \A y \in t : x >= y
             T == {m \in Nat : Topped(m)}
  <1>1. 0 \in T
    <2>1. 1..0 = {}
      OBVIOUS
    <2>2. \A t \in SUBSET {} : t = {}
      OBVIOUS
    <2> QED BY <2>1, <2>2
  <1>2. ASSUME NEW m \in Nat, m \in T PROVE m + 1 \in T
    <2> SUFFICES ASSUME NEW t \in SUBSET (1..(m + 1)), t # {}
                 PROVE  \E x \in t : \A y \in t : x >= y
      OBVIOUS
    <2>1. CASE m + 1 \in t
      <3>1. \A y \in t : m + 1 >= y
        OBVIOUS
      <3> QED BY <2>1, <3>1
    <2>2. CASE m + 1 \notin t
      <3>1. t \in SUBSET (1..m)
        BY <2>2, OneMorePlace
      <3> QED BY <1>2, <3>1
    <2> QED BY <2>1, <2>2
  <1>3. \A m \in Nat : m \in T
    <2> HIDE DEF T
    <2> QED BY <1>1, <1>2, Induction
  <1>4. \E x \in s : \A y \in s : x >= y
    BY <1>3
  <1> QED BY <1>4 DEF Max

\* The fold of n + 1 events, from that of the first n.
LEMMA TheFoldExtends ==
  ASSUME NEW v, NEW evs, NEW n \in Nat, NEW g, IsTheFold(g, n, v, evs)
  PROVE  \E f : IsTheFold(f, n + 1, v, evs) /\ f[1..(n + 1)] = Fold(g[1..n], evs[n + 1])
  <1> DEFINE T == SUBSET (1..n)
             U == SUBSET (1..(n + 1))
             f == [s \in U |-> IF n + 1 \in s THEN Fold(g[s \ {n + 1}], evs[n + 1]) ELSE g[s]]
  <1>1. /\ T \subseteq U
        /\ \A s \in T : n + 1 \notin s
        /\ \A s \in U : n + 1 \notin s => s \in T
        /\ \A s \in U : n + 1 \in s => s \ {n + 1} \in T /\ Max(s) = n + 1
        /\ \A s \in T : \A x : s \ {x} \in T
        /\ (1..(n + 1)) \ {n + 1} = 1..n
        /\ n + 1 \in 1..(n + 1)
        /\ 1..(n + 1) \in U
    BY OneMorePlace
  <1>2. g = [s \in T |-> IF s = {} THEN v ELSE Fold(g[s \ {Max(s)}], evs[Max(s)])]
    BY DEF IsFold, IsTheFold
  <1> HIDE DEF T, U
  <1>3. f = [s \in U |-> IF s = {} THEN v ELSE Fold(f[s \ {Max(s)}], evs[Max(s)])]
    <2> SUFFICES ASSUME NEW s \in U
                 PROVE  f[s] = IF s = {} THEN v ELSE Fold(f[s \ {Max(s)}], evs[Max(s)])
      OBVIOUS
    <2>1. CASE n + 1 \in s
      BY <1>1, <2>1
    <2>2. CASE n + 1 \notin s
      <3>1. s \in T /\ f[s] = g[s]
        BY <1>1, <2>2
      <3>2. f[s \ {Max(s)}] = g[s \ {Max(s)}]
        BY <1>1, <3>1
      <3> QED BY <1>2, <3>1, <3>2
    <2> QED BY <2>1, <2>2
  <1>4. ASSUME NEW h, h = [s \in U |-> IF s = {} THEN v ELSE Fold(h[s \ {Max(s)}], evs[Max(s)])]
        PROVE  h = f
    <2> DEFINE k == [s \in T |-> h[s]]
    <2>1. k = [s \in T |-> IF s = {} THEN v ELSE Fold(k[s \ {Max(s)}], evs[Max(s)])]
      <3> SUFFICES ASSUME NEW s \in T
                   PROVE  h[s] = IF s = {} THEN v ELSE Fold(k[s \ {Max(s)}], evs[Max(s)])
        OBVIOUS
      <3>1. k[s \ {Max(s)}] = h[s \ {Max(s)}] /\ s \in U
        BY <1>1
      <3> QED BY <1>4, <3>1
    <2>2. IsFold(k, n, v, evs)
      BY <2>1 DEF IsFold, T
    <2>3. k = g
      BY <2>2 DEF IsTheFold
    <2>4. \A s \in T : h[s] = g[s]
      BY <2>3
    <2> SUFFICES ASSUME NEW s \in U PROVE h[s] = f[s]
      BY <1>4
    <2>5. CASE n + 1 \in s
      <3>1. s # {} /\ Max(s) = n + 1 /\ s \ {n + 1} \in T
        BY <1>1, <2>5
      <3>2. h[s] = Fold(h[s \ {n + 1}], evs[n + 1])
        BY <1>4, <3>1
      <3>3. h[s \ {n + 1}] = g[s \ {n + 1}]
        BY <2>4, <3>1
      <3>4. f[s] = Fold(g[s \ {n + 1}], evs[n + 1])
        BY <2>5
      <3> HIDE DEF f
      <3> QED BY <3>2, <3>3, <3>4
    <2>6. CASE n + 1 \notin s
      BY <1>1, <2>4, <2>6
    <2> QED BY <2>5, <2>6
  <1>5. f[1..(n + 1)] = Fold(g[1..n], evs[n + 1])
    BY <1>1
  <1> HIDE DEF f
  <1>6. IsTheFold(f, n + 1, v, evs)
    BY <1>3, <1>4 DEF IsFold, IsTheFold, U
  <1> QED BY <1>5, <1>6

LEMMA TheFoldOfNothing == ASSUME NEW v, NEW evs PROVE \E f : IsTheFold(f, 0, v, evs) /\ f[1..0] = v
  <1> DEFINE f == [s \in {{}} |-> v]
  <1>1. SUBSET (1..0) = {{}} /\ 1..0 = {}
    OBVIOUS
  <1>2. IsFold(f, 0, v, evs)
    BY <1>1 DEF IsFold
  <1>3. \A h : IsFold(h, 0, v, evs) => h = f
    BY <1>1 DEF IsFold
  <1>4. f[1..0] = v
    BY <1>1
  <1> QED BY <1>2, <1>3, <1>4 DEF IsTheFold

LEMMA TheFoldExists == ASSUME NEW v, NEW evs PROVE \A n \in Nat : \E f : IsTheFold(f, n, v, evs)
  <1> DEFINE T == {n \in Nat : \E f : IsTheFold(f, n, v, evs)}
  <1>1. 0 \in T
    BY TheFoldOfNothing
  <1>2. ASSUME NEW n \in Nat, n \in T PROVE n + 1 \in T
    BY <1>2, TheFoldExtends
  <1> HIDE DEF T
  <1>3. \A n \in Nat : n \in T
    BY <1>1, <1>2, Induction
  <1> QED BY <1>3 DEF T

LEMMA FoldNothing == ASSUME NEW v PROVE FoldAll(v, <<>>) = v
  <1>1. DOMAIN <<>> = 1..0
    OBVIOUS
  <1> QED BY <1>1, TheFoldOfNothing, TheFold

LEMMA FoldAppend ==
  ASSUME NEW v, NEW S, NEW evs \in Seq(S), NEW ev \in S
  PROVE  FoldAll(v, Append(evs, ev)) = Fold(FoldAll(v, evs), ev)
  <1> DEFINE n == Len(evs)
             more == Append(evs, ev)
  <1>1. /\ n \in Nat /\ DOMAIN evs = 1..n /\ DOMAIN more = 1..(n + 1)
        /\ \A i \in 1..n : more[i] = evs[i]
        /\ more[n + 1] = ev
    OBVIOUS
  <1> HIDE DEF n, more
  <1>2. PICK g : IsTheFold(g, n, v, more)
    BY <1>1, TheFoldExists
  <1>3. PICK f : IsTheFold(f, n + 1, v, more) /\ f[1..(n + 1)] = Fold(g[1..n], more[n + 1])
    <2>1. n \in Nat
      BY <1>1
    <2> QED BY <2>1, <1>2, TheFoldExtends
  <1>4. ASSUME NEW h PROVE IsFold(h, n, v, evs) <=> IsFold(h, n, v, more)
    <2>1. ASSUME NEW s \in SUBSET (1..n), s # {}
          PROVE  evs[Max(s)] = more[Max(s)]
      <3>1. Max(s) \in 1..n
        BY <1>1, <2>1, MaxIn
      <3> QED BY <1>1, <3>1
    <2> QED BY <2>1 DEF IsFold
  <1>5. IsTheFold(g, n, v, evs)
    BY <1>2, <1>4 DEF IsTheFold
  <1>6. FoldAll(v, evs) = g[1..n] /\ FoldAll(v, more) = f[1..(n + 1)]
    BY <1>1, <1>3, <1>5, TheFold
  <1> QED BY <1>1, <1>3, <1>6 DEF more

LEMMA FoldOne == ASSUME NEW v, NEW S, NEW ev \in S PROVE FoldAll(v, <<ev>>) = Fold(v, ev)
  <1>1. <<>> \in Seq(S) /\ Append(<<>>, ev) = <<ev>>
    OBVIOUS
  <1>2. FoldAll(v, Append(<<>>, ev)) = Fold(FoldAll(v, <<>>), ev)
    BY <1>1, FoldAppend
  <1> QED BY <1>1, <1>2, FoldNothing

LEMMA LastApart ==
  ASSUME NEW S, NEW t \in Seq(S), NEW n \in Nat, Len(t) = n + 1
  PROVE  /\ SubSeq(t, 1, n) \in Seq(S) /\ Len(SubSeq(t, 1, n)) = n /\ t[n + 1] \in S
         /\ t = Append(SubSeq(t, 1, n), t[n + 1])
  <1> DEFINE f == SubSeq(t, 1, n)
             ev == t[n + 1]
  <1>1. f \in Seq(S) /\ Len(f) = n /\ ev \in S /\ \A i \in 1..n : f[i] = t[i]
    OBVIOUS
  <1>2. Append(f, ev) \in Seq(S) /\ Len(Append(f, ev)) = n + 1
    BY <1>1
  <1>3. \A i \in 1..(n + 1) : Append(f, ev)[i] = t[i]
    BY <1>1
  <1> HIDE DEF f, ev
  <1>4. t = Append(f, ev)
    BY <1>2, <1>3, SeqEqual
  <1> QED BY <1>1, <1>4

\* A batch is folded part by part.
LEMMA FoldConcat ==
  ASSUME NEW v, NEW S, NEW s \in Seq(S), NEW t \in Seq(S)
  PROVE  FoldAll(v, s \o t) = FoldAll(FoldAll(v, s), t)
  <1> DEFINE Parts(n) == \A r \in Seq(S) : Len(r) = n => FoldAll(v, s \o r) = FoldAll(FoldAll(v, s), r)
             T == {n \in Nat : Parts(n)}
  <1>1. Parts(0)
    <2> SUFFICES ASSUME NEW r \in Seq(S), Len(r) = 0
                 PROVE  FoldAll(v, s \o r) = FoldAll(FoldAll(v, s), r)
      OBVIOUS
    <2>1. r = <<>> /\ s \o <<>> = s
      OBVIOUS
    <2> QED BY <2>1, FoldNothing
  <1>2. ASSUME NEW n \in Nat, Parts(n) PROVE Parts(n + 1)
    <2> SUFFICES ASSUME NEW r \in Seq(S), Len(r) = n + 1
                 PROVE  FoldAll(v, s \o r) = FoldAll(FoldAll(v, s), r)
      OBVIOUS
    <2> DEFINE f == SubSeq(r, 1, n)
               ev == r[n + 1]
    <2>1. f \in Seq(S) /\ Len(f) = n /\ ev \in S /\ r = Append(f, ev)
      BY LastApart
    <2> HIDE DEF f, ev
    <2> DEFINE g == s \o f
    <2>2. s \o r = Append(g, ev) /\ g \in Seq(S)
      BY <2>1
    <2>3. FoldAll(v, g) = FoldAll(FoldAll(v, s), f)
      BY <1>2, <2>1
    <2> HIDE DEF g
    <2>4. FoldAll(v, Append(g, ev)) = Fold(FoldAll(v, g), ev)
      BY <2>1, <2>2, FoldAppend
    <2>5. FoldAll(FoldAll(v, s), Append(f, ev)) = Fold(FoldAll(FoldAll(v, s), f), ev)
      BY <2>1, FoldAppend
    <2> QED BY <2>1, <2>2, <2>3, <2>4, <2>5
  <1> HIDE DEF Parts
  <1>3. \A n \in Nat : n \in T
    <2>1. 0 \in T /\ \A n \in Nat : n \in T => n + 1 \in T
      BY <1>1, <1>2
    <2> HIDE DEF T
    <2> QED BY <2>1, Induction
  <1>4. Parts(Len(t))
    BY <1>3
  <1> QED BY <1>4 DEF Parts

-----------------------------------------------------------------------------
(* What a client makes of the events of the queue *)

View == [rows : Seq(Row), open : Nat, promised : Nat, armed : BOOLEAN, ok : BOOLEAN]

Event ==
  [k : {"queued", "edited", "sent", "removed"}, row : Row, pos : Nat]
    \cup [k : {"started"}, turn : Nat, origin : {"submit", "send_now", "drain"}]
    \cup [k : {"ended"}, turn : Nat, next : Nat, pending : Nat]
    \cup [k : {"armed", "disarmed"}]

\* A client that shows the rows p shows the rows q after these events, and
\* nothing else of it changes.
QueueTold(evs, p, q) ==
  /\ evs \in Seq(Event) /\ q \in Seq(Row)
  /\ \A u \in View : u.ok /\ u.rows = p => FoldAll(u, evs) = [u EXCEPT !.rows = q]

LEMMA RowsSet ==
  ASSUME NEW u \in View, NEW q \in Seq(Row)
  PROVE  /\ [u EXCEPT !.rows = q] \in View /\ [u EXCEPT !.rows = q].rows = q
         /\ [u EXCEPT !.rows = q].ok = u.ok
         /\ \A r : [[u EXCEPT !.rows = q] EXCEPT !.rows = r] = [u EXCEPT !.rows = r]
  BY DEF View

LEMMA NothingTold == ASSUME NEW q \in Seq(Row) PROVE QueueTold(<<>>, q, q)
  <1>1. \A u \in View : u.rows = q => u = [u EXCEPT !.rows = q]
    BY DEF View
  <1> QED BY <1>1, FoldNothing DEF QueueTold

LEMMA ToldOne ==
  ASSUME NEW p, NEW q \in Seq(Row), NEW ev \in Event,
         \A u \in View : u.ok /\ u.rows = p => Fold(u, ev) = [u EXCEPT !.rows = q]
  PROVE  QueueTold(<<ev>>, p, q)
  BY FoldOne DEF QueueTold

LEMMA ToldThen ==
  ASSUME NEW a, NEW b, NEW p, NEW q, NEW r, QueueTold(a, p, q), QueueTold(b, q, r)
  PROVE  QueueTold(a \o b, p, r)
  <1>1. a \in Seq(Event) /\ b \in Seq(Event) /\ a \o b \in Seq(Event) /\ q \in Seq(Row) /\ r \in Seq(Row)
    BY DEF QueueTold
  <1>2. ASSUME NEW u \in View, u.ok, u.rows = p
        PROVE  FoldAll(u, a \o b) = [u EXCEPT !.rows = r]
    <2> DEFINE w == [u EXCEPT !.rows = q]
    <2>1. FoldAll(u, a) = w
      BY <1>2 DEF QueueTold
    <2>2. w \in View /\ w.rows = q /\ w.ok /\ [w EXCEPT !.rows = r] = [u EXCEPT !.rows = r]
      BY <1>1, <1>2, RowsSet
    <2> HIDE DEF w
    <2>3. FoldAll(w, b) = [w EXCEPT !.rows = r]
      BY <2>2 DEF QueueTold
    <2>4. FoldAll(u, a \o b) = FoldAll(FoldAll(u, a), b)
      BY <1>1, FoldConcat
    <2> QED BY <2>1, <2>2, <2>3, <2>4
  <1> QED BY <1>1, <1>2 DEF QueueTold

LEMMA ToldMore ==
  ASSUME NEW a, NEW ev, NEW p, NEW q, NEW r, QueueTold(a, p, q), QueueTold(<<ev>>, q, r)
  PROVE  QueueTold(Append(a, ev), p, r)
  <1>1. a \in Seq(Event)
    BY DEF QueueTold
  <1>2. Append(a, ev) = a \o <<ev>>
    BY <1>1
  <1> QED BY <1>2, ToldThen

LEMMA RowGone ==
  ASSUME NEW q \in Seq(Row), NEW id, Has(q, id), NEW pos \in Nat, NEW k \in {"sent", "removed"}
  PROVE  QueueTold(<<[k |-> k, row |-> Lookup(q, id), pos |-> pos]>>, q, Take(q, id))
  <1> DEFINE ev == [k |-> k, row |-> Lookup(q, id), pos |-> pos]
  <1>1. Lookup(q, id) \in Row /\ Lookup(q, id).id = id
    BY PositionInQueue DEF Lookup
  <1>2. ev \in Event
    BY <1>1 DEF Event
  <1>3. Take(q, id) \in Seq(Row)
    BY TakeType
  <1>4. ASSUME NEW u \in View, u.ok, u.rows = q PROVE Fold(u, ev) = [u EXCEPT !.rows = Take(q, id)]
    BY <1>1, <1>4 DEF Fold, FoldQueue, View
  <1> QED BY <1>2, <1>3, <1>4, ToldOne

LEMMA RowFirst ==
  ASSUME NEW q \in Seq(Row), NEW row \in Row, ~Has(q, row.id)
  PROVE  QueueTold(<<QueuedEvent(row, 0)>>, q, <<row>> \o q)
  <1> DEFINE ev == QueuedEvent(row, 0)
  <1>1. ev \in Event /\ <<row>> \o q \in Seq(Row)
    BY DEF Event, QueuedEvent
  <1>2. InsertAt(q, 1, row) = <<row>> \o q
    <2>1. SubSeq(q, 1, 0) = <<>> /\ SubSeq(q, 1, Len(q)) = q
      OBVIOUS
    <2> QED BY <2>1 DEF InsertAt
  <1>3. ASSUME NEW u \in View, u.ok, u.rows = q PROVE Fold(u, ev) = [u EXCEPT !.rows = <<row>> \o q]
    <2>1. ~Has(u.rows, ev.row.id) /\ ev.row = row /\ ev.k = "queued" /\ (IF ev.pos > Len(q) THEN Len(q) ELSE ev.pos) + 1 = 1
      BY <1>3 DEF QueuedEvent
    <2> HIDE DEF ev
    <2> QED BY <1>2, <1>3, <2>1 DEF Fold, FoldQueue, View
  <1> QED BY <1>1, <1>3, ToldOne

LEMMA RowLast ==
  ASSUME NEW q \in Seq(Row), NEW row \in Row, ~Has(q, row.id)
  PROVE  QueueTold(<<QueuedEvent(row, Len(q))>>, q, Add(q, row))
  <1> DEFINE ev == QueuedEvent(row, Len(q))
  <1>1. ev \in Event /\ Add(q, row) \in Seq(Row)
    BY DEF Event, QueuedEvent, Add
  <1>2. InsertAt(q, Len(q) + 1, row) = Add(q, row)
    <2>1. SubSeq(q, Len(q) + 1, Len(q)) = <<>> /\ SubSeq(q, 1, Len(q)) = q
      OBVIOUS
    <2>2. q \o <<row>> \o <<>> = Append(q, row) /\ (Len(q) + 1) - 1 = Len(q)
      OBVIOUS
    <2> QED BY <2>1, <2>2 DEF InsertAt, Add
  <1>3. ASSUME NEW u \in View, u.ok, u.rows = q PROVE Fold(u, ev) = [u EXCEPT !.rows = Add(q, row)]
    <2>1. ~Has(u.rows, ev.row.id) /\ ev.row = row /\ ev.k = "queued" /\ (IF ev.pos > Len(q) THEN Len(q) ELSE ev.pos) + 1 = Len(q) + 1
      BY <1>3 DEF QueuedEvent
    <2> HIDE DEF ev
    <2> QED BY <1>2, <1>3, <2>1 DEF Fold, FoldQueue, View
  <1> QED BY <1>1, <1>3, ToldOne

LEMMA RowEdited ==
  ASSUME NEW q \in Seq(Row), Distinct(q), NEW id, Has(q, id)
  PROVE  LET p == Edit(q, id)
         IN  QueueTold(<<EditedEvent(Lookup(p, id), Position(p, id) - 1)>>, q, p)
  <1> DEFINE p == Edit(q, id)
             i == Position(q, id)
             row == [id |-> id, ver |-> q[i].ver + 1]
             ev == EditedEvent(Lookup(p, id), Position(p, id) - 1)
  <1>1. i \in 1..Len(q) /\ q[i].id = id /\ q[i] \in Row /\ i \in DOMAIN q
    <2>1. i \in DOMAIN q /\ q[i].id = id
      BY PositionInQueue
    <2> QED BY <2>1
  <1>2. p = [q EXCEPT ![i] = row] /\ row \in Row /\ p \in Seq(Row)
    BY <1>1, EditType DEF Edit, Row
  <1> HIDE DEF i, p
  <1>3. p[i] = row /\ row.id = id /\ DOMAIN p = DOMAIN q /\ \A j \in DOMAIN q : j # i => p[j] = q[j]
    BY <1>1, <1>2
  <1>4. Has(p, id) /\ \A j \in DOMAIN p : p[j].id = id => j = i
    BY <1>1, <1>3 DEF Has, Distinct
  <1>5. Position(p, id) = i
    BY <1>4, PositionInQueue
  <1>6. Lookup(p, id) = row
    BY <1>3, <1>4, <1>5 DEF Lookup
  <1>7. ev.k = "edited" /\ ev.row = row /\ ev \in Event
    BY <1>1, <1>2, <1>5, <1>6 DEF EditedEvent, Event
  <1> HIDE DEF ev
  <1>8. ASSUME NEW u \in View, u.ok, u.rows = q PROVE Fold(u, ev) = [u EXCEPT !.rows = p]
    <2>1. Has(u.rows, ev.row.id) /\ Position(u.rows, ev.row.id) = i
      BY <1>3, <1>7, <1>8 DEF i
    <2> QED BY <1>2, <1>7, <1>8, <2>1 DEF Fold, FoldQueue, View
  <1>9. QueueTold(<<ev>>, q, p)
    BY <1>2, <1>7, <1>8, ToldOne
  <1> QED BY <1>9 DEF ev, p

\* Row after row at the head, the last first: the rows are back as they were.
LEMMA SteersTold ==
  ASSUME NEW q \in Seq(Row), NEW rows \in Seq(Row), NEW n \in Nat, Len(rows) = n, Distinct(rows),
         Ids(rows) \cap Ids(q) = {}
  PROVE  QueueTold([i \in 1..n |-> QueuedEvent(rows[n + 1 - i], 0)], q, rows \o q)
  <1> DEFINE evs(m) == [i \in 1..m |-> QueuedEvent(rows[n + 1 - i], 0)]
             back(m) == SubSeq(rows, n + 1 - m, n) \o q
             T == {m \in Nat : m <= n => QueueTold(evs(m), q, back(m))}
  <1>1. 0 \in T
    <2>1. evs(0) = <<>> /\ SubSeq(rows, n + 1 - 0, n) = <<>> /\ <<>> \o q = q
      OBVIOUS
    <2> HIDE DEF evs
    <2>2. back(0) = q
      BY <2>1
    <2> QED BY <2>1, <2>2, NothingTold
  <1>2. ASSUME NEW m \in Nat, m \in T PROVE m + 1 \in T
    <2> SUFFICES ASSUME m + 1 <= n PROVE QueueTold(evs(m + 1), q, back(m + 1))
      OBVIOUS
    <2> DEFINE row == rows[n - m]
               ev == QueuedEvent(row, 0)
               told == evs(m)
               more == evs(m + 1)
               tail == SubSeq(rows, n + 1 - m, n)
               b == back(m)
    <2>1. row \in Row /\ n - m \in 1..n
      OBVIOUS
    <2>2. /\ tail \in Seq(Row) /\ Len(tail) = m
          /\ \A i \in 1..m : tail[i] = rows[n - m + i]
      OBVIOUS
    <2>3. SubSeq(rows, n + 1 - (m + 1), n) = <<row>> \o tail
      OBVIOUS
    <2>4. told \in Seq(Event) /\ more = Append(told, ev)
      <3>1. \A i \in 1..(m + 1) : QueuedEvent(rows[n + 1 - i], 0) \in Event
        BY DEF QueuedEvent, Event
      <3>2. told \in [1..m -> Event] /\ more \in [1..(m + 1) -> Event]
        BY <3>1
      <3>3. more[m + 1] = ev /\ \A i \in 1..m : more[i] = told[i]
        OBVIOUS
      <3> HIDE DEF told, more, ev
      <3>4. told \in Seq(Event) /\ Len(told) = m /\ more \in Seq(Event) /\ Len(more) = m + 1 /\ ev \in Event
        BY <3>2, <3>3
      <3>5. Append(told, ev) \in Seq(Event) /\ Len(Append(told, ev)) = m + 1
        BY <3>4
      <3>6. \A i \in 1..(m + 1) : more[i] = Append(told, ev)[i]
        BY <3>3, <3>4
      <3> QED BY <3>4, <3>5, <3>6, SeqEqual
    <2>5. QueueTold(told, q, b)
      BY <1>2
    <2>6. back(m + 1) = <<row>> \o b /\ b \in Seq(Row)
      <3>1. back(m + 1) = (<<row>> \o tail) \o q
        BY <2>3
      <3>2. b = tail \o q
        OBVIOUS
      <3> HIDE DEF back, row, tail, b
      <3>3. <<row>> \in Seq(Row)
        BY <2>1
      <3>4. b \in Seq(Row)
        BY <2>2, <3>2, ConcatProperties
      <3>5. (<<row>> \o tail) \o q = <<row>> \o (tail \o q)
        BY <2>2, <3>3, ConcatAssociative
      <3> QED BY <3>1, <3>2, <3>4, <3>5
    <2>7. ~Has(b, row.id)
      <3>1. Ids(tail) \cap Ids(q) = {} /\ row.id \notin Ids(tail) /\ row.id \notin Ids(q)
        <4> HIDE DEF tail
        <4>1. DOMAIN tail = 1..m
          BY <2>2
        <4>2. \A i \in 1..m : n - m + i \in DOMAIN rows /\ n - m + i # n - m /\ n - m \in DOMAIN rows
          BY <2>1
        <4>3. Ids(tail) \subseteq Ids(rows)
          <5> SUFFICES ASSUME NEW id \in Ids(tail) PROVE id \in Ids(rows)
            OBVIOUS
          <5>1. PICK i \in 1..m : id = tail[i].id
            BY <4>1 DEF Ids
          <5> DEFINE j == n - m + i
          <5>2. id = rows[j].id /\ j \in DOMAIN rows
            BY <2>2, <4>2, <5>1
          <5> HIDE DEF j
          <5> QED BY <5>2 DEF Ids
        <4>4. \A i \in 1..m : rows[n - m + i].id # rows[n - m].id
          BY <4>2 DEF Distinct
        <4>5. row.id \notin Ids(tail)
          <5>1. \A i \in DOMAIN tail : tail[i].id # row.id
            <6> SUFFICES ASSUME NEW i \in 1..m PROVE tail[i].id # row.id
              BY <4>1
            <6>1. tail[i] = rows[n - m + i]
              BY <2>2
            <6>2. rows[n - m + i].id # rows[n - m].id
              BY <4>4
            <6> QED BY <6>1, <6>2
          <5> HIDE DEF row
          <5> QED BY <5>1 DEF Ids
        <4>6. row.id \in Ids(rows)
          BY <2>1 DEF Ids
        <4> QED BY <4>3, <4>5, <4>6
      <3>2. b = tail \o q
        OBVIOUS
      <3> HIDE DEF b, tail, row
      <3>3. \A i \in DOMAIN b : b[i].id \in Ids(tail) \cup Ids(q)
        BY <2>2, <3>2 DEF Ids
      <3> QED BY <3>1, <3>3 DEF Has
    <2> HIDE DEF told, more, back, b, row, ev
    <2>8. QueueTold(<<ev>>, b, back(m + 1))
      BY <2>1, <2>6, <2>7, RowFirst DEF ev
    <2>9. QueueTold(more, q, back(m + 1))
      BY <2>4, <2>5, <2>8, ToldMore
    <2> QED BY <2>9 DEF more
  <1>3. \A m \in Nat : m \in T
    <2> HIDE DEF T
    <2> QED BY <1>1, <1>2, Induction
  <1>4. back(n) = rows \o q
    <2>1. n + 1 - n = 1 /\ SubSeq(rows, 1, n) = rows
      OBVIOUS
    <2> QED BY <2>1
  <1> HIDE DEF back, evs
  <1>5. QueueTold(evs(n), q, back(n))
    BY <1>3
  <1> QED BY <1>4, <1>5 DEF evs

\* Head after head: nothing is left.
LEMMA ClearTold ==
  ASSUME NEW q \in Seq(Row), Distinct(q)
  PROVE  QueueTold(ClearEvents(q), q, <<>>)
  <1> DEFINE n == Len(q)
             evs(m) == [i \in 1..m |-> RemovedEvent(q[i], 0)]
             left(m) == SubSeq(q, m + 1, n)
             T == {m \in Nat : m <= n => QueueTold(evs(m), q, left(m))}
  <1>1. 0 \in T
    <2>1. evs(0) = <<>> /\ left(0) = q
      OBVIOUS
    <2> HIDE DEF evs, left
    <2> QED BY <2>1, NothingTold
  <1>2. ASSUME NEW m \in Nat, m \in T PROVE m + 1 \in T
    <2> SUFFICES ASSUME m + 1 <= n PROVE QueueTold(evs(m + 1), q, left(m + 1))
      OBVIOUS
    <2> DEFINE row == q[m + 1]
               ev == RemovedEvent(row, 0)
               told == evs(m)
               more == evs(m + 1)
               b == left(m)
               c == left(m + 1)
    <2>1. row \in Row /\ n \in Nat
      OBVIOUS
    <2>2. /\ b \in Seq(Row) /\ Len(b) = n - m
          /\ \A i \in 1..(n - m) : b[i] = q[m + i]
          /\ c \in Seq(Row) /\ c = SubSeq(b, 2, n - m)
      OBVIOUS
    <2>3. told \in Seq(Event) /\ more = Append(told, ev)
      <3>1. \A i \in 1..(m + 1) : RemovedEvent(q[i], 0) \in Event
        BY DEF RemovedEvent, Event
      <3>2. told \in [1..m -> Event] /\ more \in [1..(m + 1) -> Event]
        BY <3>1
      <3>3. more[m + 1] = ev /\ \A i \in 1..m : more[i] = told[i]
        OBVIOUS
      <3> HIDE DEF told, more, ev
      <3>4. told \in Seq(Event) /\ Len(told) = m /\ more \in Seq(Event) /\ Len(more) = m + 1 /\ ev \in Event
        BY <3>2, <3>3
      <3>5. Append(told, ev) \in Seq(Event) /\ Len(Append(told, ev)) = m + 1
        BY <3>4
      <3>6. \A i \in 1..(m + 1) : more[i] = Append(told, ev)[i]
        BY <3>3, <3>4
      <3> QED BY <3>4, <3>5, <3>6, SeqEqual
    <2>4. QueueTold(told, q, b)
      BY <1>2
    <2> HIDE DEF n
    <2>5. /\ Has(b, row.id) /\ Position(b, row.id) = 1 /\ b[1] = row
      <3>1. b[1] = row /\ 1 \in DOMAIN b
        BY <2>1, <2>2
      <3>2. \A i \in DOMAIN b : b[i].id = row.id => i = 1
        <4> SUFFICES ASSUME NEW i \in DOMAIN b, b[i].id = row.id PROVE i = 1
          OBVIOUS
        <4> HIDE DEF b
        <4>0. DOMAIN b = 1..(n - m)
          BY <2>2
        <4>1. i \in 1..(n - m) /\ q[m + i].id = q[m + 1].id
          BY <4>0, <2>2
        <4>2. m + i \in DOMAIN q /\ m + 1 \in DOMAIN q
          BY <2>1, <4>1 DEF n
        <4> QED BY <4>1, <4>2 DEF Distinct
      <3> HIDE DEF b, row
      <3>3. Has(b, row.id)
        BY <3>1 DEF Has
      <3> QED BY <3>1, <3>2, <3>3, PositionInQueue
    <2>6. Take(b, row.id) = c /\ Lookup(b, row.id) = row
      <3> HIDE DEF b, c, row
      <3>1. SubSeq(b, 1, 1 - 1) = <<>> /\ 1 + 1 = 2 /\ <<>> \o c = c
        BY <2>2
      <3> QED BY <2>1, <2>2, <2>5, <3>1 DEF Take, RemoveAt, Lookup
    <2> HIDE DEF told, more, b, c, row, ev
    <2>7. ev = [k |-> "removed", row |-> Lookup(b, row.id), pos |-> 0]
      BY <2>6 DEF ev, RemovedEvent
    <2>8. QueueTold(<<ev>>, b, c)
      BY <2>2, <2>5, <2>6, <2>7, RowGone
    <2>9. QueueTold(more, q, c)
      BY <2>3, <2>4, <2>8, ToldMore
    <2> QED BY <2>9 DEF more, c
  <1>3. \A m \in Nat : m \in T
    <2> HIDE DEF T
    <2> QED BY <1>1, <1>2, Induction
  <1>4. left(n) = <<>> /\ ClearEvents(q) = evs(n) /\ n \in Nat
    BY DEF ClearEvents
  <1> HIDE DEF left, evs
  <1>5. QueueTold(evs(n), q, left(n))
    BY <1>3, <1>4
  <1> QED BY <1>4, <1>5

-----------------------------------------------------------------------------
(* What a section has said, and what it has still to say *)

Origins == {"submit", "send_now", "drain"}

\* The view shows the engine.
Shown(v, e) ==
  /\ v \in View /\ v.ok
  /\ v.rows = e.queue /\ v.open = e.cur.id /\ v.promised = 0
  /\ v.armed = (e.armed # NoSend)

Armed(x) == x.e.armed # NoSend

\* Folding what the section has placed makes the view v; the events it has still
\* to place take the rows and the armed send of v to the engine's, and start the
\* current turn if it is another than c.
Saying(x, v, c) ==
  /\ x.log \in Seq(Event) /\ v = FoldAll(view, x.log)
  /\ v \in View /\ v.ok /\ v.promised = 0
  /\ QueueTold(x.qev, v.rows, x.e.queue)
  /\ x.dis \in {<<>>, <<DisarmedEvent>>}
  /\ x.dis # <<>> => v.armed
  /\ \/ x.st = <<>> /\ x.e.cur.id = c /\ (Armed(x) <=> v.armed /\ x.dis = <<>>)
     \/ \E o \in Origins :
          /\ x.st = <<StartedEvent(x.e.cur.id, o)>> /\ c = 0 /\ x.e.cur.id # 0
          /\ Armed(x) <=> v.armed /\ x.dis = <<>> /\ o # "send_now"

\* Everything is said.
Said(x) ==
  /\ x.log \in Seq(Event) /\ Shown(FoldAll(view, x.log), x.e)
  /\ x.qev = <<>> /\ x.dis = <<>> /\ x.st = <<>>

LEMMA SilentSays ==
  ASSUME NEW x, NEW y, Silent(y, x)
  PROVE  /\ \A v, c : Saying(x, v, c) => Saying(y, v, c)
         /\ Said(x) => Said(y)
         /\ y.st = x.st /\ y.dis = x.dis /\ y.qev = x.qev
  BY DEF Silent, Saying, Said, Shown, Armed

\* No turn has started that is not said.
LEMMA SaysCurrent ==
  ASSUME NEW x, NEW v, NEW c, Saying(x, v, c), x.st = <<>>
  PROVE  x.e.cur.id = c /\ (Armed(x) <=> v.armed /\ x.dis = <<>>)
  <1>1. \A ev : <<ev>> # <<>>
    OBVIOUS
  <1> QED BY <1>1 DEF Saying

LEMMA SaidSaying ==
  ASSUME NEW x, Section(x), Said(x)
  PROVE  LET v == FoldAll(view, x.log)
         IN  Saying(x, v, v.open) /\ v.open = x.e.cur.id /\ x.st = <<>> /\ Shown(v, x.e)
  <1>1. x.e.queue \in Seq(Row)
    BY DEF Section, EngType
  <1>2. QueueTold(<<>>, x.e.queue, x.e.queue)
    BY <1>1, NothingTold
  <1> QED BY <1>2 DEF Said, Shown, Saying, Armed

LEMMA LowerSilent == ASSUME NEW x, Section(x) PROVE Silent(Lower(x), x)
  <1> DEFINE s == FenceDown(x.s)
             e == [x.e EXCEPT !.fenced = FALSE]
             y == [x EXCEPT !.e.fenced = FALSE, !.s = s]
  <1>1. x.e \in EngType
    BY DEF Section
  <1>2. Lower(x) = y \/ Lower(x) = x
    BY DEF Lower
  <1> HIDE DEF s
  <1>3. /\ y.e = e /\ y.log = x.log /\ y.qev = x.qev /\ y.dis = x.dis /\ y.st = x.st
    BY DEF Section
  <1> HIDE DEF y
  <1>4. Silent(y, x)
    BY <1>1, <1>3 DEF EngType, Silent
  <1> QED BY <1>2, <1>4, SilentItself

LEMMA LiftExitFenceSilent == ASSUME NEW x, Section(x) PROVE Silent(LiftExitFence(x), x)
  <1> DEFINE e == [x.e EXCEPT !.exit = NoFence]
             y == [x EXCEPT !.e.exit = NoFence]
  <1>1. x.e \in EngType
    BY DEF Section
  <1>2. LiftExitFence(x) = y \/ LiftExitFence(x) = x
    BY DEF LiftExitFence
  <1>3. /\ y.e = e /\ y.log = x.log /\ y.qev = x.qev /\ y.dis = x.dis /\ y.st = x.st
    BY DEF Section
  <1> HIDE DEF y
  <1>4. Silent(y, x)
    BY <1>1, <1>3 DEF EngType, Silent
  <1> QED BY <1>2, <1>4, SilentItself

LEMMA OwedSilent ==
  ASSUME NEW x, Section(x), NEW owed
  PROVE  Silent([x EXCEPT !.e.drainOwed = owed], x)
  <1> DEFINE e == [x.e EXCEPT !.drainOwed = owed]
             y == [x EXCEPT !.e.drainOwed = owed]
  <1>1. x.e \in EngType
    BY DEF Section
  <1>2. /\ y.e = e /\ y.log = x.log /\ y.qev = x.qev /\ y.dis = x.dis /\ y.st = x.st
    BY DEF Section
  <1> HIDE DEF y
  <1> QED BY <1>1, <1>2 DEF EngType, Silent

LEMMA SettleOwedDrainSilent == ASSUME NEW x, Section(x) PROVE Silent(SettleOwedDrain(x), x)
  <1> DEFINE e == [x.e EXCEPT !.sawForeign = FALSE]
             y == [x EXCEPT !.e.sawForeign = FALSE]
             u == [y EXCEPT !.e.drainOwed = FALSE]
             w == [y EXCEPT !.e.drainOwed = TRUE]
             r == Raise(y)
             z == [r EXCEPT !.e.drainOwed = ForeignTurn(x.s)]
  <1>1. x.e \in EngType /\ e \in EngType
    BY DEF Section, EngType
  <1>2. Section(y) /\ y.e = e /\ y.log = x.log /\ y.qev = x.qev /\ y.dis = x.dis /\ y.st = x.st
    BY <1>1 DEF Section
  <1>3. SettleOwedDrain(x) \in {u, w, y, z}
    BY DEF SettleOwedDrain
  <1> HIDE DEF y
  <1>4. Silent(y, x)
    BY <1>1, <1>2 DEF EngType, Silent
  <1>5. Section(r) /\ Silent(r, y)
    BY <1>2, RaiseSection, RaiseSilent
  <1> HIDE DEF r
  <1>6. Silent(u, y) /\ Silent(w, y) /\ Silent(z, r)
    BY <1>2, <1>5, OwedSilent
  <1> HIDE DEF u, w, z
  <1> QED BY <1>3, <1>4, <1>5, <1>6, SilentTransitive

LEMMA SyncSilent == ASSUME NEW x, Section(x) PROVE Silent(Sync(x), x)
  <1> DEFINE y == LiftExitFence(x)
             z == SettleOwedDrain(y)
  <1>1. Section(y) /\ Silent(y, x)
    BY LiftExitFenceSection, LiftExitFenceSilent
  <1>2. Section(z) /\ Silent(z, y)
    BY <1>1, SettleOwedDrainSection, SettleOwedDrainSilent
  <1>3. Silent(Raise(z), z) /\ Silent(Lower(z), z)
    BY <1>2, RaiseSilent, LowerSilent
  <1>4. Sync(x) = IF ~Native THEN y ELSE IF FenceWant(z.e) THEN Raise(z) ELSE Lower(z)
    BY DEF Sync
  <1> DEFINE u == Raise(z)
             l == Lower(z)
  <1> HIDE DEF y, z, u, l
  <1>5. Silent(u, x) /\ Silent(l, x)
    BY <1>1, <1>2, <1>3, SilentTransitive DEF u, l
  <1> QED BY <1>1, <1>4, <1>5 DEF u, l

\* The view a section leaves behind shows the engine it leaves behind.
Seen == Shown(view, eng)

LEMMA CommitSeen ==
  ASSUME NEW x, Said(x), Commit(x)
  PROVE  Seen'
  BY DEF Said, Commit, Seen, Shown

LEMMA LeaveSeen ==
  ASSUME NEW x, Section(x), Said(x), Leave(x)
  PROVE  Seen'
  <1>1. PICK y \in Meanwhile(x) : Commit(Sync(y))
    BY DEF Leave
  <1> DEFINE s == WakeEnded(x.s)
             w == [x EXCEPT !.s = s]
  <1>2. y = x \/ y = w
    BY <1>1 DEF Meanwhile
  <1>3. s \in SesType
    BY WakeEndedType DEF Section
  <1> HIDE DEF s
  <1>4. Section(w) /\ Silent(w, x)
    BY <1>3 DEF Section, Silent
  <1> HIDE DEF w
  <1>5. Section(y) /\ Silent(y, x)
    BY <1>2, <1>4, SilentItself
  <1> DEFINE z == Sync(y)
  <1>6. Silent(z, x)
    BY <1>5, SyncSilent, SilentTransitive
  <1> HIDE DEF z
  <1>7. Said(z)
    BY <1>6, SilentSays
  <1> QED BY <1>1, <1>7, CommitSeen DEF z

LEMMA EnterSaid == ASSUME IInv, Seen PROVE Said(Enter)
  <1>1. Enter.log = <<>> /\ Enter.qev = <<>> /\ Enter.dis = <<>> /\ Enter.st = <<>> /\ Enter.e = eng
    BY DEF Enter
  <1>2. FoldAll(view, <<>>) = view
    BY FoldNothing
  <1> QED BY <1>1, <1>2 DEF Said, Seen

-----------------------------------------------------------------------------
(* The parts of a section that speak *)

LEMMA QueueTyped == ASSUME NEW x, Section(x) PROVE x.e.queue \in Seq(Row) /\ x.e.cur \in Turn /\ x.e.cur.id \in Nat
  BY DEF Section, EngType, Turn

\* The queue changes and its events say so.
QueueSaid(y, x, evs) ==
  /\ y.log = x.log /\ y.dis = x.dis /\ y.st = x.st
  /\ y.e.cur.id = x.e.cur.id /\ y.e.armed = x.e.armed
  /\ y.qev = x.qev \o evs /\ QueueTold(evs, x.e.queue, y.e.queue)

LEMMA QueueSays ==
  ASSUME NEW x, NEW y, NEW v, NEW c, NEW evs, Saying(x, v, c), QueueSaid(y, x, evs)
  PROVE  Saying(y, v, c) /\ y.st = x.st /\ y.dis = x.dis
  <1>1. QueueTold(y.qev, v.rows, y.e.queue)
    BY ToldThen DEF Saying, QueueSaid
  <1> QED BY <1>1 DEF Saying, QueueSaid, Armed

LEMMA SendRowSays ==
  ASSUME NEW x, Section(x), NEW v, NEW c, Saying(x, v, c), NEW id, Has(x.e.queue, id)
  PROVE  Saying(SendRow(x, id), v, c) /\ SendRow(x, id).st = x.st
  <1> DEFINE ev == SentEvent(Lookup(x.e.queue, id), Position(x.e.queue, id) - 1)
             q == Take(x.e.queue, id)
             y == SendRow(x, id)
             e == [x.e EXCEPT !.queue = q]
  <1>1. x.e \in EngType /\ x.e.queue \in Seq(Row) /\ x.qev \in Seq(Event)
    BY QueueTyped DEF Section, Saying, QueueTold
  <1>2. Position(x.e.queue, id) - 1 \in Nat
    BY <1>1, PositionInQueue
  <1>3. QueueTold(<<ev>>, x.e.queue, q)
    <2>1. ev = [k |-> "sent", row |-> Lookup(x.e.queue, id), pos |-> Position(x.e.queue, id) - 1]
      BY DEF SentEvent
    <2> HIDE DEF ev, q
    <2> QED BY <1>1, <1>2, <2>1, RowGone DEF q
  <1>4. y = [x EXCEPT !.qev = Append(@, ev), !.e.queue = q]
    BY DEF SendRow
  <1> HIDE DEF ev, q, y
  <1>5. /\ y.e = e /\ y.log = x.log /\ y.qev = Append(x.qev, ev) /\ y.dis = x.dis /\ y.st = x.st
    BY <1>4 DEF Section
  <1>6. Append(x.qev, ev) = x.qev \o <<ev>>
    BY <1>1
  <1>7. e.queue = q /\ e.cur = x.e.cur /\ e.armed = x.e.armed
    BY <1>1 DEF EngType
  <1> HIDE DEF e
  <1>8. QueueSaid(y, x, <<ev>>)
    BY <1>3, <1>5, <1>6, <1>7 DEF QueueSaid
  <1> QED BY <1>8, QueueSays DEF y

LEMMA ClearQueueSays ==
  ASSUME NEW x, Section(x), NEW v, NEW c, Saying(x, v, c), Distinct(x.e.queue)
  PROVE  /\ Saying(ClearQueue(x), v, c) /\ ClearQueue(x).st = x.st /\ ClearQueue(x).dis = x.dis
         /\ ClearQueue(x).e.cur = x.e.cur
  <1> DEFINE evs == ClearEvents(x.e.queue)
             y == ClearQueue(x)
             e == [x.e EXCEPT !.queue = <<>>]
  <1>1. x.e \in EngType /\ x.e.queue \in Seq(Row)
    BY QueueTyped DEF Section
  <1>2. QueueTold(evs, x.e.queue, <<>>)
    BY <1>1, ClearTold
  <1>3. y = [x EXCEPT !.qev = @ \o evs, !.e.queue = <<>>]
    BY DEF ClearQueue
  <1> HIDE DEF evs, y
  <1>4. y.e = e /\ y.log = x.log /\ y.qev = x.qev \o evs /\ y.dis = x.dis /\ y.st = x.st
    BY <1>3 DEF Section
  <1>5. e.queue = <<>> /\ e.cur = x.e.cur /\ e.armed = x.e.armed
    BY <1>1 DEF EngType
  <1> HIDE DEF e
  <1>6. QueueSaid(y, x, evs)
    BY <1>2, <1>4, <1>5 DEF QueueSaid
  <1> QED BY <1>4, <1>5, <1>6, QueueSays DEF y

LEMMA PutBackSteersSays ==
  ASSUME NEW x, Section(x), Orderly(x), NEW v, NEW c, Saying(x, v, c), NEW n \in Nat
  PROVE  /\ Saying(PutBackSteers(x, n), v, c)
         /\ PutBackSteers(x, n).st = x.st /\ PutBackSteers(x, n).dis = x.dis
         /\ PutBackSteers(x, n).e.cur = x.e.cur
  <1> DEFINE rows == SteerRows(x.e.rowSeq, n)
             q == rows \o x.e.queue
             seq == x.e.rowSeq + n
             evs == [i \in 1..n |-> QueuedEvent(rows[n + 1 - i], 0)]
             y == PutBackSteers(x, n)
             e == [x.e EXCEPT !.queue = q, !.rowSeq = seq]
  <1>1. x.e \in EngType /\ x.e.queue \in Seq(Row) /\ x.e.rowSeq \in Nat
    BY DEF Section, EngType
  <1>2. rows \in Seq(Row) /\ Distinct(rows) /\ Ids(rows) \subseteq (x.e.rowSeq + 1)..(x.e.rowSeq + n)
    BY <1>1, SteerIds, SteerRowsType
  <1>3. Len(rows) = n
    BY DEF SteerRows
  <1>4. \A id \in Ids(x.e.queue) : id <= x.e.rowSeq
    BY DEF Orderly, RowsApart
  <1>5. y = [x EXCEPT !.qev = @ \o evs, !.e.queue = q, !.e.rowSeq = seq]
    BY DEF PutBackSteers
  <1> HIDE DEF rows
  <1>6. Ids(rows) \cap Ids(x.e.queue) = {}
    BY <1>1, <1>2, <1>4
  <1>7. QueueTold(evs, x.e.queue, q)
    BY <1>1, <1>2, <1>3, <1>6, SteersTold
  <1> HIDE DEF evs, q, y, seq
  <1>8. y.e = e /\ y.log = x.log /\ y.qev = x.qev \o evs /\ y.dis = x.dis /\ y.st = x.st
    BY <1>5 DEF Section
  <1>9. e.queue = q /\ e.cur = x.e.cur /\ e.armed = x.e.armed
    BY <1>1 DEF EngType
  <1> HIDE DEF e
  <1>10. QueueSaid(y, x, evs)
    BY <1>7, <1>8, <1>9 DEF QueueSaid
  <1> QED BY <1>8, <1>9, <1>10, QueueSays DEF y

LEMMA DisarmEffect ==
  ASSUME NEW x, Section(x), Armed(x)
  PROVE  LET y == Disarm(x)
         IN  /\ y.log = x.log /\ y.qev = x.qev /\ y.st = x.st /\ y.dis = Append(x.dis, DisarmedEvent)
             /\ y.e.queue = x.e.queue /\ y.e.cur = x.e.cur /\ ~Armed(y)
  <1> DEFINE y == Disarm(x)
             e == [x.e EXCEPT !.armed = NoSend]
             dis == Append(x.dis, DisarmedEvent)
  <1>1. x.e \in EngType
    BY DEF Section
  <1>2. y = [x EXCEPT !.e.armed = NoSend, !.dis = dis]
    BY DEF Disarm, Armed
  <1> HIDE DEF dis, y
  <1>3. y.e = e /\ y.log = x.log /\ y.qev = x.qev /\ y.dis = dis /\ y.st = x.st
    BY <1>2 DEF Section
  <1>4. e.queue = x.e.queue /\ e.cur = x.e.cur /\ e.armed = NoSend
    BY <1>1 DEF EngType
  <1> HIDE DEF e
  <1> QED BY <1>3, <1>4 DEF dis, y, Armed

LEMMA DisarmSays ==
  ASSUME NEW x, Section(x), NEW v, NEW c, Saying(x, v, c), x.st = <<>>
  PROVE  Saying(Disarm(x), v, c) /\ Disarm(x).st = <<>> /\ Disarm(x).e.cur = x.e.cur
  <1>1. CASE ~Armed(x)
    BY <1>1 DEF Disarm, Armed
  <1>2. CASE Armed(x)
    <2> DEFINE y == Disarm(x)
    <2>1. /\ y.log = x.log /\ y.qev = x.qev /\ y.st = x.st /\ y.dis = Append(x.dis, DisarmedEvent)
          /\ y.e.queue = x.e.queue /\ y.e.cur = x.e.cur /\ ~Armed(y)
      BY <1>2, DisarmEffect
    <2> HIDE DEF y
    <2>2. x.dis = <<>> /\ v.armed /\ x.e.cur.id = c
      BY <1>2 DEF Saying
    <2>3. y.dis = <<DisarmedEvent>> /\ y.dis # <<>>
      BY <2>1, <2>2
    <2>4. Saying(y, v, c)
      BY <2>1, <2>2, <2>3 DEF Saying
    <2> QED BY <2>1, <2>4 DEF y
  <1> QED BY <1>1, <1>2

LEMMA ClaimEffect ==
  ASSUME NEW x, Section(x), NEW row, NEW origin
  PROVE  LET y == Claim(x, row, origin)
         IN  /\ y.log = x.log /\ y.qev = x.qev /\ y.dis = x.dis
             /\ y.e.cur.id = x.e.turnSeq + 1 /\ y.e.cur.id # 0
             /\ y.st = Append(x.st, StartedEvent(y.e.cur.id, origin))
             /\ y.e.queue = x.e.queue /\ y.e.armed = x.e.armed
  <1> DEFINE id == x.e.turnSeq + 1
             s == Begin(Raced(x.s), id, row.id)
             fencedRow == x.e.exit.up /\ x.e.exit.turn = 0 /\ row # NoRow /\ row.id = x.e.exit.row
             cur == [NoTurn EXCEPT !.id = id, !.row = row]
             exit == IF fencedRow THEN [x.e.exit EXCEPT !.turn = id] ELSE x.e.exit
             st == Append(x.st, StartedEvent(id, origin))
             e == [x.e EXCEPT !.turnSeq = id, !.cur = cur, !.activity = "working", !.exit = exit]
             y == Claim(x, row, origin)
  <1>1. x.e \in EngType /\ x.e.turnSeq \in Nat
    BY DEF Section, EngType
  <1>2. y = [x EXCEPT !.s = s, !.e.turnSeq = id, !.e.cur = cur, !.e.activity = "working",
                      !.e.exit = exit, !.st = st]
    BY DEF Claim
  <1>3. cur.id = id /\ id # 0
    BY <1>1 DEF NoTurn
  <1> HIDE DEF id, s, cur, exit, st, y
  <1>4. y.e = e /\ y.log = x.log /\ y.qev = x.qev /\ y.dis = x.dis /\ y.st = st
    BY <1>2 DEF Section
  <1>5. e.cur = cur /\ e.queue = x.e.queue /\ e.armed = x.e.armed
    BY <1>1 DEF EngType
  <1> HIDE DEF e
  <1> QED BY <1>3, <1>4, <1>5 DEF id, st, y

\* A claim, of the armed send or not: the send is no longer armed when it fires.
Firing(w, x, origin) ==
  /\ Section(w) /\ w.log = x.log /\ w.qev = x.qev /\ w.dis = x.dis /\ w.st = x.st
  /\ w.e.queue = x.e.queue
  /\ Armed(w) <=> Armed(x) /\ origin # "send_now"

LEMMA ClaimSays ==
  ASSUME NEW x, NEW v, NEW c, Saying(x, v, c), x.st = <<>>, c = 0,
         NEW origin \in Origins, NEW w, Firing(w, x, origin), NEW row
  PROVE  Saying(Claim(w, row, origin), v, c) /\ Claim(w, row, origin).e.queue = x.e.queue
  <1> DEFINE y == Claim(w, row, origin)
  <1>1. /\ y.log = x.log /\ y.qev = x.qev /\ y.dis = x.dis
        /\ y.e.cur.id # 0 /\ y.st = Append(<<>>, StartedEvent(y.e.cur.id, origin))
        /\ y.e.queue = x.e.queue /\ y.e.armed = w.e.armed
    BY ClaimEffect DEF Firing
  <1> HIDE DEF y
  <1>2. y.st = <<StartedEvent(y.e.cur.id, origin)>>
    BY <1>1
  <1>3. Armed(y) <=> v.armed /\ x.dis = <<>> /\ origin # "send_now"
    BY <1>1, SaysCurrent DEF Firing, Armed
  <1>4. Saying(y, v, c)
    BY <1>1, <1>2, <1>3 DEF Saying, Firing
  <1> QED BY <1>1, <1>4 DEF y

LEMMA FireArmedSays ==
  ASSUME NEW x, Section(x), NEW v, NEW c, Saying(x, v, c), x.st = <<>>, c = 0,
         Armed(x), ~ArmedRowGone(x.e)
  PROVE  Saying(FireArmed(x), v, c)
  <1> DEFINE from == x.e.armed.from
             w == [x EXCEPT !.e.armed = NoSend]
             e == [x.e EXCEPT !.armed = NoSend]
             row == Lookup(x.e.queue, from)
             y == Claim(w, row, "send_now")
             z == SendRow(y, from)
  <1>1. x.e \in EngType
    BY DEF Section
  <1>2. e \in EngType
    BY <1>1 DEF EngType, NoSend, Send
  <1>3. Section(w) /\ w.e = e /\ w.log = x.log /\ w.qev = x.qev /\ w.dis = x.dis /\ w.st = x.st
    BY <1>2 DEF Section
  <1>4. FireArmed(x) = IF from = 0 THEN y ELSE z
    BY DEF FireArmed
  <1>5. row \in Row \cup {NoRow}
    BY LookupType, QueueTyped
  <1>6. from # 0 => Has(x.e.queue, from)
    BY DEF ArmedRowGone, Armed
  <1> HIDE DEF w, row, from
  <1>7. w.e.queue = x.e.queue /\ w.e.cur.id = x.e.cur.id /\ ~Armed(w)
    BY <1>1, <1>3 DEF EngType, Armed
  <1>8. Section(y) /\ Saying(y, v, c) /\ y.e.queue = x.e.queue
    <2>1. Section(y)
      BY <1>3, <1>5, ClaimSection
    <2> DEFINE o == "send_now"
    <2>2. o \in Origins /\ Firing(w, x, o)
      BY <1>3, <1>7 DEF Origins, Firing
    <2> HIDE DEF o
    <2> QED BY <2>1, <2>2, ClaimSays DEF o
  <1> HIDE DEF y
  <1>9. from # 0 => Saying(z, v, c)
    BY <1>6, <1>8, SendRowSays
  <1> QED BY <1>4, <1>8, <1>9

LEMMA DrainHeadSays ==
  ASSUME NEW x, Section(x), NEW v, NEW c, Saying(x, v, c), x.st = <<>>, c = 0,
         x.e.queue # <<>>
  PROVE  Saying(DrainHead(x), v, c)
  <1> DEFINE row == HeadRow(x.e.queue)
             y == Claim(x, row, "drain")
  <1>1. x.e.queue \in Seq(Row)
    BY QueueTyped
  <1>2. row \in Row \cup {NoRow}
    BY <1>1, HeadRowType
  <1>3. Has(x.e.queue, row.id)
    BY <1>1 DEF HeadRow, Has
  <1>4. DrainHead(x) = SendRow(y, row.id)
    BY DEF DrainHead
  <1> HIDE DEF row
  <1>5. "drain" \in Origins /\ "drain" # "send_now"
    BY DEF Origins
  <1>6. Section(y) /\ Saying(y, v, c) /\ y.e.queue = x.e.queue
    <2>1. Section(y)
      BY <1>2, ClaimSection
    <2> DEFINE o == "drain"
    <2>2. o \in Origins /\ Firing(x, x, o)
      BY <1>5 DEF Firing
    <2> HIDE DEF o
    <2> QED BY <2>1, <2>2, ClaimSays DEF o
  <1> HIDE DEF y
  <1> QED BY <1>3, <1>4, <1>6, SendRowSays

LEMMA SuccessorSays ==
  ASSUME NEW x, Section(x), NEW v, NEW c, Saying(x, v, c), x.st = <<>>, NEW mayRun
  PROVE  Saying(Successor(x, mayRun), v, c)
  <1> DEFINE y == LookIf(x, x.e.activity = "idle" /\ Free(x.e))
             z == IF ArmedRowGone(y.e) THEN Disarm(y) ELSE y
             held == y.e.passHeld \/ y.e.closeFences # {}
             w == [y EXCEPT !.e.passHeld = held]
             e == [y.e EXCEPT !.passHeld = held]
  <1>1. Section(y) /\ Silent(y, x)
    BY LookIfSection, LookIfSilent
  <1>2. Successor(x, mayRun) =
          IF y.e.activity # "idle" \/ ~CanStart(y) THEN w
          ELSE IF z.e.armed # NoSend THEN FireArmed(z)
          ELSE IF mayRun /\ z.e.queue # <<>> THEN DrainHead(z)
          ELSE z
    BY <1>1 DEF Successor, Section, EngType
  <1> HIDE DEF y
  <1>3. Saying(y, v, c) /\ y.st = <<>> /\ y.e.cur.id = c
    <2>1. Saying(y, v, c) /\ y.st = <<>>
      BY <1>1, SilentSays
    <2> QED BY <2>1, SaysCurrent
  <1>4. Silent(w, y)
    <2> HIDE DEF held
    <2>1. y.e \in EngType
      BY <1>1 DEF Section
    <2>2. w.e = e /\ w.log = y.log /\ w.qev = y.qev /\ w.dis = y.dis /\ w.st = y.st
      BY <1>1 DEF Section
    <2> HIDE DEF w
    <2> QED BY <2>1, <2>2 DEF EngType, Silent
  <1>5. Saying(w, v, c)
    BY <1>3, <1>4, SilentSays
  <1>6. /\ Section(z) /\ Saying(z, v, c) /\ z.st = <<>> /\ z.e.cur.id = c
        /\ Armed(z) => ~ArmedRowGone(z.e)
    <2>1. CASE ArmedRowGone(y.e)
      <3>1. Armed(y)
        BY <2>1 DEF ArmedRowGone, Armed
      <3>2. ~Armed(Disarm(y))
        BY <1>1, <3>1, DisarmEffect
      <3>3. Section(Disarm(y)) /\ Saying(Disarm(y), v, c) /\ Disarm(y).st = <<>> /\ Disarm(y).e.cur = y.e.cur
        BY <1>1, <1>3, DisarmSection, DisarmSays
      <3> QED BY <1>3, <2>1, <3>2, <3>3
    <2>2. CASE ~ArmedRowGone(y.e)
      BY <1>1, <1>3, <2>2
    <2> QED BY <2>1, <2>2
  <1>7. CanStart(y) => c = 0
    BY <1>3 DEF CanStart, Free
  <1> HIDE DEF w, z
  <1>8. CASE y.e.activity # "idle" \/ ~CanStart(y)
    BY <1>2, <1>5, <1>8
  <1>9. CASE CanStart(y)
    <2>1. Armed(z) => Saying(FireArmed(z), v, c)
      BY <1>6, <1>7, <1>9, FireArmedSays
    <2>2. z.e.queue # <<>> => Saying(DrainHead(z), v, c)
      BY <1>6, <1>7, <1>9, DrainHeadSays
    <2> QED BY <1>2, <1>5, <1>6, <2>1, <2>2 DEF Armed
  <1> QED BY <1>8, <1>9

-----------------------------------------------------------------------------
(* Batches placed *)

Viewed(rows, open, promised, armed) ==
  [rows |-> rows, open |-> open, promised |-> promised, armed |-> armed, ok |-> TRUE]

LEMMA ViewedAll ==
  /\ \A u \in View : u.ok => u = Viewed(u.rows, u.open, u.promised, u.armed)
  /\ \A rows \in Seq(Row), open, promised \in Nat, armed \in BOOLEAN :
       Viewed(rows, open, promised, armed) \in View
  BY DEF View, Viewed

LEMMA QueueFolded ==
  ASSUME NEW evs, NEW p \in Seq(Row), NEW q, QueueTold(evs, p, q),
         NEW open \in Nat, NEW promised \in Nat, NEW armed \in BOOLEAN
  PROVE  FoldAll(Viewed(p, open, promised, armed), evs) = Viewed(q, open, promised, armed)
  <1> DEFINE u == Viewed(p, open, promised, armed)
  <1>1. u \in View /\ u.ok /\ u.rows = p
    BY ViewedAll DEF Viewed
  <1>2. [u EXCEPT !.rows = q] = Viewed(q, open, promised, armed)
    <2> DEFINE w == [u EXCEPT !.rows = q]
    <2>1. u.open = open /\ u.promised = promised /\ u.armed = armed
      BY DEF Viewed
    <2> HIDE DEF u
    <2>2. w \in View /\ w.ok
      BY <1>1, RowsSet DEF QueueTold
    <2>3. w.rows = q /\ w.open = open /\ w.promised = promised /\ w.armed = armed
      BY <1>1, <2>1 DEF View
    <2> HIDE DEF w
    <2>4. w = Viewed(q, open, promised, armed)
      BY <2>2, <2>3, ViewedAll
    <2> QED BY <2>4 DEF w
  <1> HIDE DEF u
  <1>3. FoldAll(u, evs) = [u EXCEPT !.rows = q]
    BY <1>1 DEF QueueTold
  <1> QED BY <1>2, <1>3 DEF u

LEMMA DisarmFolded ==
  ASSUME NEW dis \in {<<>>, <<DisarmedEvent>>}, NEW rows, NEW open, NEW promised,
         NEW armed \in BOOLEAN, dis # <<>> => armed
  PROVE  FoldAll(Viewed(rows, open, promised, armed), dis) =
           Viewed(rows, open, promised, armed /\ dis = <<>>)
  <1> DEFINE u == Viewed(rows, open, promised, armed)
  <1>1. CASE dis = <<>>
    BY <1>1, FoldNothing
  <1>2. CASE dis # <<>>
    <2>1. dis = <<DisarmedEvent>> /\ armed = TRUE
      BY <1>2
    <2>2. FoldAll(u, <<DisarmedEvent>>) = Fold(u, DisarmedEvent)
      BY FoldOne
    <2>3. Fold(u, DisarmedEvent) = Viewed(rows, open, promised, FALSE)
      BY <2>1 DEF Fold, FoldSendNow, DisarmedEvent, Viewed
    <2> QED BY <1>2, <2>1, <2>2, <2>3
  <1> QED BY <1>1, <1>2

LEMMA EndFolded ==
  ASSUME NEW rows \in Seq(Row), NEW open \in Nat, NEW next \in Nat, NEW armed
  PROVE  FoldAll(Viewed(rows, open, 0, armed), <<EndedEvent(open, next, Len(rows))>>) =
           Viewed(rows, 0, next, armed)
  <1> DEFINE u == Viewed(rows, open, 0, armed)
             ev == EndedEvent(open, next, Len(rows))
  <1>1. FoldAll(u, <<ev>>) = Fold(u, ev)
    BY FoldOne
  <1>2. Fold(u, ev) = Viewed(rows, 0, next, armed)
    BY DEF Fold, FoldTurn, EndedEvent, Viewed
  <1> QED BY <1>1, <1>2

LEMMA StartFolded ==
  ASSUME NEW rows, NEW t \in Nat, NEW promised \in {0, t}, NEW armed \in BOOLEAN, NEW origin
  PROVE  FoldAll(Viewed(rows, 0, promised, armed), <<StartedEvent(t, origin)>>) =
           Viewed(rows, t, 0, armed /\ origin # "send_now")
  <1> DEFINE u == Viewed(rows, 0, promised, armed)
             ev == StartedEvent(t, origin)
  <1>1. FoldAll(u, <<ev>>) = Fold(u, ev)
    BY FoldOne
  <1>2. Fold(u, ev) = Viewed(rows, t, 0, armed /\ origin # "send_now")
    BY DEF Fold, FoldTurn, StartedEvent, Viewed
  <1> QED BY <1>1, <1>2

\* The end of a batch: the turn it starts, if it starts one.
LEMMA StartsFolded ==
  ASSUME NEW x, Section(x), NEW v, NEW c, Saying(x, v, c), NEW rows, NEW open, NEW promised,
         x.st = <<>> => open = c /\ promised = 0,
         x.st # <<>> => open = 0 /\ promised \in {0, x.e.cur.id}
  PROVE  FoldAll(Viewed(rows, open, promised, v.armed /\ x.dis = <<>>), x.st) =
           Viewed(rows, x.e.cur.id, 0, Armed(x))
  <1> DEFINE armed == v.armed /\ x.dis = <<>>
  <1>1. armed \in BOOLEAN /\ Armed(x) \in BOOLEAN /\ x.e.cur.id \in Nat
    BY QueueTyped DEF Armed
  <1>2. CASE x.st = <<>>
    <2>1. x.e.cur.id = c /\ armed = Armed(x)
      BY <1>1, <1>2, SaysCurrent
    <2> QED BY <1>2, <2>1, FoldNothing
  <1>3. CASE x.st # <<>>
    <2>1. PICK o \in Origins : /\ x.st = <<StartedEvent(x.e.cur.id, o)>>
                               /\ Armed(x) <=> v.armed /\ x.dis = <<>> /\ o # "send_now"
      BY <1>3 DEF Saying
    <2>2. Armed(x) = (armed /\ o # "send_now")
      BY <1>1, <2>1
    <2> HIDE DEF armed
    <2>3. FoldAll(Viewed(rows, 0, promised, armed), <<StartedEvent(x.e.cur.id, o)>>) =
            Viewed(rows, x.e.cur.id, 0, armed /\ o # "send_now")
      BY <1>1, <1>3, StartFolded
    <2> QED BY <1>3, <2>1, <2>2, <2>3 DEF armed
  <1> QED BY <1>2, <1>3

LEMMA SayingTyped ==
  ASSUME NEW x, Section(x), NEW v, NEW c, Saying(x, v, c)
  PROVE  /\ x.qev \in Seq(Event) /\ x.dis \in Seq(Event) /\ x.st \in Seq(Event)
         /\ v.rows \in Seq(Row) /\ v.open \in Nat /\ v.armed \in BOOLEAN
         /\ x.e.queue \in Seq(Row) /\ x.e.cur.id \in Nat
         /\ v = Viewed(v.rows, v.open, 0, v.armed)
  <1>1. x.qev \in Seq(Event)
    BY DEF Saying, QueueTold
  <1>2. x.dis \in Seq(Event)
    <2>1. DisarmedEvent \in Event
      BY DEF DisarmedEvent, Event
    <2>2. <<>> \in Seq(Event) /\ <<DisarmedEvent>> \in Seq(Event)
      BY <2>1
    <2>3. x.dis = <<>> \/ x.dis = <<DisarmedEvent>>
      BY DEF Saying
    <2> QED BY <2>2, <2>3
  <1>3. x.st \in Seq(Event)
    <2>1. \A o \in Origins : StartedEvent(x.e.cur.id, o) \in Event
      BY QueueTyped DEF StartedEvent, Event, Origins
    <2>2. <<>> \in Seq(Event) /\ \A o \in Origins : <<StartedEvent(x.e.cur.id, o)>> \in Seq(Event)
      BY <2>1
    <2>3. x.st = <<>> \/ \E o \in Origins : x.st = <<StartedEvent(x.e.cur.id, o)>>
      BY DEF Saying
    <2> QED BY <2>2, <2>3
  <1>4. v \in View /\ v = Viewed(v.rows, v.open, 0, v.armed)
    BY ViewedAll DEF Saying
  <1> QED BY <1>1, <1>2, <1>3, <1>4, QueueTyped DEF View

LEMMA PlaceSaid ==
  ASSUME NEW x, Section(x), NEW v, NEW c, Saying(x, v, c), NEW evs \in Seq(Event),
         FoldAll(v, evs) = Viewed(x.e.queue, x.e.cur.id, 0, Armed(x))
  PROVE  Said(Place(x, evs)) /\ Section(Place(x, evs)) /\ Place(x, evs).e = x.e
  <1> DEFINE y == Place(x, evs)
             log == x.log \o evs
  <1>1. Section(y) /\ y.e = x.e
    BY PlaceSection
  <1>2. y = [x EXCEPT !.log = log, !.qev = <<>>, !.dis = <<>>, !.st = <<>>]
    BY DEF Place
  <1>3. log \in Seq(Event) /\ FoldAll(view, log) = FoldAll(v, evs)
    BY FoldConcat DEF Saying
  <1> HIDE DEF log, y
  <1>4. y.log = log /\ y.qev = <<>> /\ y.dis = <<>> /\ y.st = <<>>
    BY <1>2 DEF Section
  <1> DEFINE u == Viewed(x.e.queue, x.e.cur.id, 0, Armed(x))
  <1>5. u \in View
    BY SayingTyped, ViewedAll DEF Armed
  <1>6. u.ok /\ u.rows = x.e.queue /\ u.open = x.e.cur.id /\ u.promised = 0 /\ u.armed = Armed(x)
    BY DEF Viewed
  <1> HIDE DEF u
  <1>7. FoldAll(view, y.log) = u
    BY <1>3, <1>4 DEF u
  <1>8. Shown(u, y.e)
    BY <1>1, <1>5, <1>6 DEF Shown, Armed
  <1> QED BY <1>1, <1>3, <1>4, <1>7, <1>8 DEF Said, y

\* The driver's batch.
LEMMA PlaceDrain ==
  ASSUME NEW x, Section(x), NEW v, Saying(x, v, v.open)
  PROVE  Said(Place(x, x.dis \o x.qev \o x.st))
  <1> DEFINE a == v.armed
             b == v.armed /\ x.dis = <<>>
             q == x.e.queue
  <1>1. /\ x.qev \in Seq(Event) /\ x.dis \in Seq(Event) /\ x.st \in Seq(Event)
        /\ v.rows \in Seq(Row) /\ v.open \in Nat /\ a \in BOOLEAN /\ b \in BOOLEAN
        /\ v = Viewed(v.rows, v.open, 0, a)
    BY SayingTyped
  <1>2. FoldAll(Viewed(v.rows, v.open, 0, a), x.dis) = Viewed(v.rows, v.open, 0, b)
    <2>1. x.dis \in {<<>>, <<DisarmedEvent>>} /\ (x.dis # <<>> => a) /\ b = (a /\ x.dis = <<>>)
      BY DEF Saying
    <2> HIDE DEF a, b, q
    <2> QED BY <1>1, <2>1, DisarmFolded
  <1>3. FoldAll(Viewed(v.rows, v.open, 0, b), x.qev) = Viewed(q, v.open, 0, b)
    <2> HIDE DEF b
    <2> QED BY <1>1, QueueFolded DEF Saying
  <1>4. FoldAll(Viewed(q, v.open, 0, b), x.st) = Viewed(q, x.e.cur.id, 0, Armed(x))
    <2>1. x.st # <<>> => v.open = 0
      BY DEF Saying
    <2> QED BY <2>1, StartsFolded
  <1> HIDE DEF a, b, q
  <1> DEFINE e1 == x.dis \o x.qev
             e2 == e1 \o x.st
  <1>5. e1 \in Seq(Event) /\ e2 \in Seq(Event)
    BY <1>1
  <1>6. FoldAll(v, e1) = Viewed(q, v.open, 0, b)
    BY <1>1, <1>2, <1>3, FoldConcat
  <1> HIDE DEF e1
  <1>7. FoldAll(v, e2) = Viewed(q, x.e.cur.id, 0, Armed(x))
    BY <1>1, <1>4, <1>5, <1>6, FoldConcat
  <1> HIDE DEF e2
  <1>8. Said(Place(x, e2))
    BY <1>5, <1>7, PlaceSaid DEF q
  <1> QED BY <1>8 DEF e2, e1

\* A batch that ends no turn.
LEMMA PlaceChange ==
  ASSUME NEW x, Section(x), NEW v, Saying(x, v, v.open)
  PROVE  Said(Place(x, x.qev \o x.dis \o x.st))
  <1> DEFINE a == v.armed
             b == v.armed /\ x.dis = <<>>
             q == x.e.queue
  <1>1. /\ x.qev \in Seq(Event) /\ x.dis \in Seq(Event) /\ x.st \in Seq(Event)
        /\ v.rows \in Seq(Row) /\ v.open \in Nat /\ a \in BOOLEAN /\ b \in BOOLEAN
        /\ v = Viewed(v.rows, v.open, 0, a)
    BY SayingTyped
  <1>2. FoldAll(Viewed(v.rows, v.open, 0, a), x.qev) = Viewed(q, v.open, 0, a)
    BY <1>1, QueueFolded DEF Saying
  <1>3. FoldAll(Viewed(q, v.open, 0, a), x.dis) = Viewed(q, v.open, 0, b)
    <2>1. x.dis \in {<<>>, <<DisarmedEvent>>} /\ (x.dis # <<>> => a) /\ b = (a /\ x.dis = <<>>)
      BY DEF Saying
    <2> HIDE DEF a, b, q
    <2> QED BY <1>1, <2>1, DisarmFolded
  <1>4. FoldAll(Viewed(q, v.open, 0, b), x.st) = Viewed(q, x.e.cur.id, 0, Armed(x))
    <2>1. x.st # <<>> => v.open = 0
      BY DEF Saying
    <2> QED BY <2>1, StartsFolded
  <1> HIDE DEF a, b, q
  <1> DEFINE e1 == x.qev \o x.dis
             e2 == e1 \o x.st
  <1>5. e1 \in Seq(Event) /\ e2 \in Seq(Event)
    BY <1>1
  <1>6. FoldAll(v, e1) = Viewed(q, v.open, 0, b)
    BY <1>1, <1>2, <1>3, FoldConcat
  <1> HIDE DEF e1
  <1>7. FoldAll(v, e2) = Viewed(q, x.e.cur.id, 0, Armed(x))
    BY <1>1, <1>4, <1>5, <1>6, FoldConcat
  <1> HIDE DEF e2
  <1>8. Said(Place(x, e2))
    BY <1>5, <1>7, PlaceSaid DEF q
  <1> QED BY <1>8 DEF e2, e1

\* A batch that ends the turn the client shows, and may start its successor.
LEMMA PlaceEnding ==
  ASSUME NEW x, Section(x), NEW v, Saying(x, v, 0), NEW next, next = x.e.cur.id,
         NEW left, left = Len(x.e.queue)
  PROVE  Said(Place(x, x.qev \o <<EndedEvent(v.open, next, left)>> \o x.dis \o x.st))
  <1> DEFINE a == v.armed
             b == v.armed /\ x.dis = <<>>
             q == x.e.queue
             ended == <<EndedEvent(v.open, next, left)>>
  <1>1. /\ x.qev \in Seq(Event) /\ x.dis \in Seq(Event) /\ x.st \in Seq(Event)
        /\ v.rows \in Seq(Row) /\ v.open \in Nat /\ a \in BOOLEAN /\ b \in BOOLEAN
        /\ v = Viewed(v.rows, v.open, 0, a) /\ q \in Seq(Row) /\ next \in Nat /\ left \in Nat
    BY SayingTyped
  <1>2. ended \in Seq(Event)
    <2>1. EndedEvent(v.open, next, left) \in Event
      BY <1>1 DEF EndedEvent, Event
    <2> QED BY <2>1
  <1>3. FoldAll(Viewed(v.rows, v.open, 0, a), x.qev) = Viewed(q, v.open, 0, a)
    BY <1>1, QueueFolded DEF Saying
  <1>4. FoldAll(Viewed(q, v.open, 0, a), ended) = Viewed(q, 0, next, a)
    BY <1>1, EndFolded
  <1>5. FoldAll(Viewed(q, 0, next, a), x.dis) = Viewed(q, 0, next, b)
    <2>1. x.dis \in {<<>>, <<DisarmedEvent>>} /\ (x.dis # <<>> => a) /\ b = (a /\ x.dis = <<>>)
      BY DEF Saying
    <2> HIDE DEF a, b, q
    <2> QED BY <1>1, <2>1, DisarmFolded
  <1>6. FoldAll(Viewed(q, 0, next, b), x.st) = Viewed(q, x.e.cur.id, 0, Armed(x))
    <2>1. x.st = <<>> => next = 0
      BY SaysCurrent
    <2> QED BY <2>1, StartsFolded
  <1> HIDE DEF a, b, q, ended
  <1> DEFINE e1 == x.qev \o ended
             e2 == e1 \o x.dis
             e3 == e2 \o x.st
  <1>7. e1 \in Seq(Event) /\ e2 \in Seq(Event) /\ e3 \in Seq(Event)
    BY <1>1, <1>2
  <1>8. FoldAll(v, e1) = Viewed(q, 0, next, a)
    BY <1>1, <1>2, <1>3, <1>4, FoldConcat
  <1> HIDE DEF e1
  <1>9. FoldAll(v, e2) = Viewed(q, 0, next, b)
    BY <1>1, <1>5, <1>7, <1>8, FoldConcat
  <1> HIDE DEF e2
  <1>10. FoldAll(v, e3) = Viewed(q, x.e.cur.id, 0, Armed(x))
    BY <1>1, <1>6, <1>7, <1>9, FoldConcat
  <1> HIDE DEF e3
  <1>11. Said(Place(x, e3))
    BY <1>7, <1>10, PlaceSaid DEF q
  <1> QED BY <1>11 DEF e3, e2, e1, ended

-----------------------------------------------------------------------------
(* A pass of the driver says what it does *)

LEMMA DrainSaid == ASSUME NEW x, Inside(x), Said(x) PROVE Said(Drain(x))
  <1> DEFINE v == FoldAll(view, x.log)
             y == Successor(x, TRUE)
             evs == y.dis \o y.qev \o y.st
  <1>1. Section(x)
    BY DEF Inside
  <1>2. Saying(x, v, v.open) /\ x.st = <<>>
    BY <1>1, SaidSaying
  <1> HIDE DEF v
  <1>3. Section(y) /\ Saying(y, v, v.open)
    BY <1>1, <1>2, SuccessorInside, SuccessorSays DEF Inside
  <1>4. Drain(x) = Place(y, evs)
    BY DEF Drain
  <1> HIDE DEF y
  <1> QED BY <1>3, <1>4, PlaceDrain

\* Nothing is current: the client's turn has still to be ended.
LEMMA TurnGoneSays ==
  ASSUME NEW x, NEW y, NEW v, Saying(x, v, v.open), x.st = <<>>,
         y.log = x.log, y.qev = x.qev, y.dis = x.dis, y.st = x.st,
         y.e.queue = x.e.queue, y.e.armed = x.e.armed, y.e.cur = NoTurn
  PROVE  Saying(y, v, 0)
  <1>1. Armed(y) <=> v.armed /\ x.dis = <<>>
    BY SaysCurrent DEF Armed
  <1>2. y.e.cur.id = 0
    BY DEF NoTurn
  <1> QED BY <1>1, <1>2 DEF Saying

LEMMA RestoreTurnSaid ==
  ASSUME NEW x, Inside(x), Orderly(x), NEW t, t = x.e.cur, t.row # NoRow,
         NEW v, Saying(x, v, v.open), x.st = <<>>
  PROVE  Said(RestoreTurn(x, t))
  <1> DEFINE q == Restore(x.e.queue, t.row)
             ev == QueuedEvent(t.row, 0)
             qev == Append(x.qev, ev)
             exit == IF x.e.exit.up /\ x.e.exit.turn = t.id THEN [x.e.exit EXCEPT !.turn = 0] ELSE x.e.exit
             u == [x EXCEPT !.e.queue = q, !.qev = qev]
             eu == [x.e EXCEPT !.queue = q]
             y == [x EXCEPT !.e.queue = q, !.qev = qev, !.e.exit = exit,
                            !.e.cur = NoTurn, !.e.activity = "idle",
                            !.e.recheck = TRUE, !.e.rearm = TRUE]
             e == [x.e EXCEPT !.queue = q, !.exit = exit, !.cur = NoTurn, !.activity = "idle",
                              !.recheck = TRUE, !.rearm = TRUE]
             z == IF y.e.armed.turn # t.id THEN Disarm(y) ELSE y
             ended == <<EndedEvent(t.id, 0, Len(z.e.queue))>>
             evs == z.qev \o ended \o z.dis
  <1>1. /\ Section(x) /\ x.e \in EngType /\ x.e.queue \in Seq(Row) /\ x.e.exit \in ExitFence
        /\ t \in Turn /\ x.qev \in Seq(Event)
    BY SayingTyped DEF Inside, Section, EngType
  <1>2. t.row \in Row
    BY <1>1 DEF Turn
  <1>3. QueueTold(<<ev>>, x.e.queue, q)
    <2>1. ~Has(x.e.queue, t.row.id)
      BY HasIds DEF Orderly, RowsApart
    <2> QED BY <1>1, <1>2, <2>1, RowFirst DEF Restore
  <1>4. RestoreTurn(x, t) = Place(z, evs)
    BY DEF RestoreTurn
  <1>5. exit \in ExitFence
    BY <1>1 DEF ExitFence
  <1>6. q \in Seq(Row)
    BY <1>3 DEF QueueTold
  <1>7. NoTurn \in Turn /\ NoTurn.id = 0
    BY DEF NoTurn, Turn
  <1>8. qev = x.qev \o <<ev>>
    <2>1. ev \in Event
      BY <1>2 DEF QueuedEvent, Event
    <2> HIDE DEF q, ev, exit
    <2> QED BY <1>1, <2>1, AppendIsConcat
  <1> HIDE DEF q, ev, qev, exit
  <1>9. e \in EngType
    BY <1>1, <1>5, <1>6, <1>7 DEF EngType, Activities
  <1>10. /\ Section(y) /\ y.e = e /\ y.log = x.log /\ y.qev = qev /\ y.dis = x.dis /\ y.st = x.st
         /\ u.e = eu /\ u.log = x.log /\ u.qev = qev /\ u.dis = x.dis /\ u.st = x.st
    BY <1>1, <1>9 DEF Section
  <1> HIDE DEF y, u
  <1>11. /\ e.cur = NoTurn /\ e.queue = q /\ e.armed = x.e.armed
         /\ eu.cur = x.e.cur /\ eu.queue = q /\ eu.armed = x.e.armed
    BY <1>1 DEF EngType
  <1> HIDE DEF e, eu
  <1>12. QueueSaid(u, x, <<ev>>)
    BY <1>3, <1>8, <1>10, <1>11 DEF QueueSaid
  <1>13. Saying(u, v, v.open) /\ u.st = <<>>
    BY <1>12, QueueSays
  <1>14. Saying(y, v, 0)
    BY <1>10, <1>11, <1>13, TurnGoneSays
  <1>15. Section(z) /\ Saying(z, v, 0) /\ z.st = <<>> /\ z.e.cur.id = 0
    <2>1. /\ Section(Disarm(y)) /\ Saying(Disarm(y), v, 0) /\ Disarm(y).st = <<>>
          /\ Disarm(y).e.cur = y.e.cur
      BY <1>10, <1>13, <1>14, DisarmSection, DisarmSays
    <2> QED BY <1>7, <1>10, <1>11, <1>13, <1>14, <2>1
  <1>16. t.id = v.open
    BY SaysCurrent
  <1> HIDE DEF z
  <1>17. Said(Place(z, z.qev \o ended \o z.dis \o z.st))
    BY <1>15, <1>16, PlaceEnding
  <1>18. evs \o z.st = evs
    <2>1. z.qev \in Seq(Event) /\ z.dis \in Seq(Event)
      BY <1>15, SayingTyped
    <2>2. ended \in Seq({EndedEvent(t.id, 0, Len(z.e.queue))})
      OBVIOUS
    <2> DEFINE S == Event \cup {EndedEvent(t.id, 0, Len(z.e.queue))}
    <2>3. z.qev \in Seq(S) /\ ended \in Seq(S) /\ z.dis \in Seq(S)
      BY <2>1, <2>2
    <2> HIDE DEF ended, S
    <2> QED BY <1>15, <2>3
  <1> QED BY <1>4, <1>17, <1>18

LEMMA FinishTurnSaid ==
  ASSUME NEW x, Inside(x), Orderly(x), x.e.cur.returned, ~x.e.closed, NEW t, t = x.e.cur,
         NEW v, Saying(x, v, v.open), x.st = <<>>
  PROVE  Said(FinishTurn(x, t))
  <1> DEFINE clears == Clears(x.e, t)
             exit == IF EndsExitFence(x.e, t) THEN [x.e.exit EXCEPT !.ended = TRUE] ELSE x.e.exit
             activity == IF Failed(t) THEN "error" ELSE "idle"
             e == [x.e EXCEPT !.exit = exit, !.cur = NoTurn, !.activity = activity]
             y == EndTheTurn(x, t)
             z == IF Failed(t) \/ y.e.armed.turn # t.id THEN Disarm(y) ELSE y
             next == Successor(z, ~clears)
             done == IF clears THEN ClearQueue(next) ELSE next
             evs == done.qev \o <<EndedEvent(t.id, done.e.cur.id, Len(done.e.queue))>>
                      \o done.dis \o done.st
  <1>1. FinishTurn(x, t) = Place(done, evs)
    BY DEF FinishTurn
  <1>2. Inside(y) /\ Orderly(y) /\ Section(y)
    BY EndTheTurnInside, EndTheTurnOrderly DEF Inside
  <1>3. Saying(y, v, 0) /\ y.st = <<>>
    <2>1. x.e \in EngType
      BY DEF Inside, Section
    <2>2. y = [x EXCEPT !.e.exit = exit, !.e.cur = NoTurn, !.e.activity = activity]
      BY DEF EndTheTurn
    <2> HIDE DEF exit, activity, y
    <2>3. y.e = e /\ y.log = x.log /\ y.qev = x.qev /\ y.dis = x.dis /\ y.st = x.st
      BY <2>2 DEF Inside, Section
    <2>4. e.cur = NoTurn /\ e.queue = x.e.queue /\ e.armed = x.e.armed
      BY <2>1 DEF EngType
    <2> HIDE DEF e
    <2> QED BY <2>3, <2>4, TurnGoneSays
  <1> HIDE DEF y
  <1>4. Inside(z) /\ Orderly(z) /\ Section(z) /\ Saying(z, v, 0) /\ z.st = <<>>
    <2>1. Section(Disarm(y)) /\ Saying(Disarm(y), v, 0) /\ Disarm(y).st = <<>>
      BY <1>2, <1>3, DisarmSection, DisarmSays
    <2>2. Inside(Disarm(y)) /\ Orderly(Disarm(y))
      BY <1>2, DisarmInside, DisarmAlike, AlikeOrderly
    <2> QED BY <1>2, <1>3, <2>1, <2>2
  <1> HIDE DEF z
  <1>5. Inside(next) /\ Section(next) /\ Orderly(next) /\ Saying(next, v, 0)
    BY <1>4, SuccessorInside, SuccessorOrderly, SuccessorSays DEF Inside, Goes
  <1> HIDE DEF next
  <1>6. Section(done) /\ Saying(done, v, 0)
    <2>1. Section(ClearQueue(next)) /\ Saying(ClearQueue(next), v, 0)
      BY <1>5, ClearQueueSection, ClearQueueSays DEF Orderly, RowsApart
    <2> QED BY <1>5, <2>1
  <1>7. t.id = v.open
    BY SaysCurrent
  <1> HIDE DEF done
  <1> QED BY <1>1, <1>6, <1>7, PlaceEnding

LEMMA SettleSaid ==
  ASSUME NEW x, Inside(x), Orderly(x), Said(x), x.e.cur.returned, ~x.e.closed
  PROVE  Said(Settle(x))
  <1> DEFINE t == x.e.cur
             v == FoldAll(view, x.log)
             y == PutBackSteers(x, t.unanswered)
             waiting == [t EXCEPT !.retry = TRUE]
             w == [x EXCEPT !.e.cur = waiting, !.e.kick = TRUE]
             e == [x.e EXCEPT !.cur = waiting, !.kick = TRUE]
             waits == RetryForeignTurn /\ ~x.e.stopped /\ ~t.givenUp /\ t.res = "foreign"
  <1>1. Section(x) /\ x.e \in EngType /\ t \in Turn /\ t.unanswered \in Nat /\ t.id # 0
    BY DEF Inside, Section, EngType, Turn, Safe
  <1>2. Saying(x, v, v.open) /\ x.st = <<>>
    BY <1>1, SaidSaying
  <1>3. /\ Inside(y) /\ Orderly(y) /\ y.e.cur = t /\ y.e.cur.returned /\ ~y.e.closed
    <2>1. Inside(y) /\ Goes(y, x) /\ y.e.cur = t /\ y.e.cur.returned /\ ~y.e.closed
      BY <1>1, PutBackSteersInside, PutBackSteersOrderly DEF Inside, Keeps
    <2> QED BY <2>1 DEF Goes
  <1> HIDE DEF v
  <1>4. Saying(y, v, v.open) /\ y.st = <<>>
    BY <1>1, <1>2, PutBackSteersSays
  <1>5. Silent(w, x)
    <2>1. waiting.id = t.id
      BY <1>1 DEF Turn
    <2> HIDE DEF waiting
    <2>2. w.e = e /\ w.log = x.log /\ w.qev = x.qev /\ w.dis = x.dis /\ w.st = x.st
      BY <1>1 DEF Section
    <2>3. e.cur = waiting /\ e.queue = x.e.queue /\ e.armed = x.e.armed
      BY <1>1 DEF EngType
    <2> HIDE DEF w, e
    <2> QED BY <2>1, <2>2, <2>3 DEF Silent
  <1>6. Settle(x) = IF waits THEN w ELSE IF Restores(x.e, t) THEN RestoreTurn(y, t) ELSE FinishTurn(y, t)
    BY DEF Settle
  <1>7. Restores(x.e, t) => t.row # NoRow
    BY DEF Restores, RowRefused
  <1> HIDE DEF y, w, waits, t
  <1>8. Said(w)
    BY <1>5, SilentSays
  <1>9. Restores(x.e, t) => Said(RestoreTurn(y, t))
    BY <1>3, <1>4, <1>7, RestoreTurnSaid
  <1>10. Said(FinishTurn(y, t))
    BY <1>3, <1>4, FinishTurnSaid
  <1> QED BY <1>6, <1>8, <1>9, <1>10

LEMMA RetrySaid ==
  ASSUME NEW x, Inside(x), Orderly(x), Said(x), x.e.cur.retry, ~x.e.closed
  PROVE  Said(Retry(x))
  <1> DEFINE t == x.e.cur
             due == t.retryDue /\ x.e.holds = {}
             y == LookIf(x, due)
             resting == [t EXCEPT !.retry = FALSE]
             again == [t EXCEPT !.retry = FALSE, !.retryDue = FALSE, !.returned = FALSE]
             z == [x EXCEPT !.e.cur = resting]
             s == Begin(Raced(y.s), t.id, t.row.id)
             w == [y EXCEPT !.s = s, !.e.cur = again]
  <1>1. Section(x) /\ x.e \in EngType /\ t \in Turn /\ t.returned
    BY DEF Inside, Section, EngType, Safe
  <1>2. /\ resting \in Turn /\ resting.id = t.id /\ resting.row = t.row /\ resting.res = t.res
        /\ resting.cancelAsked = t.cancelAsked /\ resting.returned = t.returned /\ resting.retry = FALSE
        /\ again.id = t.id
    BY <1>1 DEF Turn
  <1>3. Retry(x) = IF x.e.stopped
                   THEN IF x.e.holds = {} THEN Settle(z) ELSE z
                   ELSE IF ~due \/ ForeignTurn(x.s) THEN y ELSE w
    BY DEF Retry
  <1>4. Section(y) /\ Silent(y, x) /\ y.e \in EngType
    BY <1>1, LookIfSection, LookIfSilent DEF Section
  <1> HIDE DEF due, y, resting, again, s
  <1>5. Inside(z) /\ Orderly(z) /\ z.e.cur.returned /\ ~z.e.closed /\ Silent(z, x)
    <2> DEFINE e == [x.e EXCEPT !.cur = resting]
    <2>1. e \in EngType
      BY <1>1, <1>2 DEF EngType
    <2>2. /\ Section(z) /\ z.e = e /\ z.s = x.s
          /\ z.log = x.log /\ z.qev = x.qev /\ z.dis = x.dis /\ z.st = x.st
      BY <1>1, <2>1 DEF Section
    <2>3. /\ e.cur = resting /\ e.closed = x.e.closed /\ e.holds = x.e.holds
          /\ e.turnSeq = x.e.turnSeq /\ e.fenced = x.e.fenced
          /\ e.exit = x.e.exit /\ e.queue = x.e.queue /\ e.rowSeq = x.e.rowSeq
          /\ e.closeFences = x.e.closeFences /\ e.admitting = x.e.admitting /\ e.armed = x.e.armed
      BY <1>1 DEF EngType
    <2> HIDE DEF z, e
    <2>4. Inside(z)
      BY <1>1, <1>2, <2>2, <2>3, TurnChanges
    <2>5. TurnTells(z.e, z.s)
      BY <1>2, <2>2, <2>3 DEF TurnTells, Orderly
    <2>6. Retold(z, x)
      BY <1>2, <2>2, <2>3, <2>5 DEF Retold, Still, Orderly, MarksTell
    <2>7. Orderly(z)
      BY <2>6, RetoldGoes DEF Goes
    <2> QED BY <1>1, <1>2, <2>2, <2>3, <2>4, <2>7 DEF Silent
  <1>6. Said(z)
    BY <1>5, SilentSays
  <1>7. Said(Settle(z))
    BY <1>5, <1>6, SettleSaid
  <1>8. Silent(w, y)
    <2> DEFINE e == [y.e EXCEPT !.cur = again]
    <2>1. y.e.cur.id = t.id
      BY <1>4 DEF Silent
    <2>2. w.e = e /\ w.log = y.log /\ w.qev = y.qev /\ w.dis = y.dis /\ w.st = y.st
      BY <1>4 DEF Section
    <2>3. e.cur = again /\ e.queue = y.e.queue /\ e.armed = y.e.armed
      BY <1>4 DEF EngType
    <2> HIDE DEF w, e
    <2> QED BY <1>2, <2>1, <2>2, <2>3 DEF Silent
  <1>9. Said(y) /\ Said(w)
    BY <1>4, <1>8, SilentSays
  <1> HIDE DEF z, w
  <1> QED BY <1>3, <1>6, <1>7, <1>9

LEMMA PassSaid == ASSUME NEW x, Inside(x), Orderly(x), Said(x) PROVE Said(Pass(x))
  <1>1. Pass(x) = IF x.e.closed THEN x
                  ELSE IF x.e.cur.id = 0 THEN Drain(x)
                  ELSE IF x.e.cur.retry THEN Retry(x)
                  ELSE IF x.e.cur.returned /\ x.e.holds = {} THEN Settle(x)
                  ELSE x
    BY DEF Pass
  <1> QED BY <1>1, DrainSaid, RetrySaid, SettleSaid

-----------------------------------------------------------------------------
(* The engine's own steps *)

LEMMA ReadySaid ==
  ASSUME IInv, JInv, Seen, NEW x, Ready(x)
  PROVE  Said(x) /\ Section(x) /\ x.e.queue = eng.queue /\ x.e.armed = eng.armed /\ x.e.cur.id = eng.cur.id
  BY EnterSaid, Entered, SilentSays DEF Ready, Inside, Silent

LEMMA RaisedReady == ASSUME IInv, JInv PROVE Ready(Raise(Enter))
  BY RaisedKeeps DEF Ready

\* Nothing a client shows changes.
LEMMA SilentStep ==
  ASSUME Seen, view' = view,
         eng'.queue = eng.queue, eng'.cur.id = eng.cur.id, eng'.armed = eng.armed
  PROVE  Seen'
  BY DEF Seen, Shown

LEMMA DriverPassSeen ==
  ASSUME IInv, JInv, Seen, NEW ticked \in BOOLEAN, DriverPass(ticked)
  PROVE  Seen'
  <1> DEFINE w == Woken(ticked)
             y == Pass(w)
             tick == y.e.cur.retry \/ y.e.recheck
             z == [y EXCEPT !.e.tick = tick]
             ez == [y.e EXCEPT !.tick = tick]
  <1>1. Leave(z)
    BY DEF DriverPass, Woken
  <1>2. Ready(w) /\ Said(w)
    BY WokenReady, ReadySaid
  <1> HIDE DEF w
  <1>3. Inside(y) /\ Said(y)
    BY <1>2, PassInside, PassSaid DEF Ready
  <1> HIDE DEF y
  <1>4. y.e \in EngType /\ tick \in BOOLEAN
    BY <1>3 DEF Inside, Section, EngType, Turn
  <1> HIDE DEF tick
  <1>5. ez \in EngType /\ ez.queue = y.e.queue /\ ez.cur = y.e.cur /\ ez.armed = y.e.armed
    BY <1>4 DEF EngType
  <1>6. Section(z) /\ Silent(z, y)
    BY <1>3, <1>5 DEF Inside, Section, Silent
  <1> HIDE DEF z
  <1> QED BY <1>1, <1>3, <1>6, SilentSays, LeaveSeen

LEMMA DriverSeen == ASSUME IInv, JInv, Seen, DriverNext PROVE Seen'
  <1>1. eng \in EngType
    BY EnterInv
  <1>2. CASE Kicked \/ Ticked
    BY <1>2, DriverPassSeen DEF Kicked, Ticked
  <1>3. CASE Rearmed
    BY <1>1, <1>3, SilentStep DEF Rearmed, EngType
  <1>4. CASE AgentEndObserved
    BY <1>1, <1>4, SilentStep DEF AgentEndObserved, EngType
  <1>5. CASE ReplayEnds
    BY <1>1, <1>5, SilentStep DEF ReplayEnds, EngType
  <1> QED BY <1>2, <1>3, <1>4, <1>5 DEF DriverNext

LEMMA ReturnSeen == ASSUME IInv, JInv, Seen, NEW c \in ses.conts, Return(c) PROVE Seen'
  <1> DEFINE y == Returned(c)
             z == Pass(y)
  <1>1. Leave(z) /\ c.phase = "back"
    BY DEF Return, Returned
  <1>2. Ready(y) /\ Said(y)
    BY <1>1, ReturnedReady, ReadySaid
  <1> HIDE DEF y
  <1>3. Section(z) /\ Said(z)
    BY <1>2, PassInside, PassSaid DEF Ready, Inside
  <1> HIDE DEF z
  <1> QED BY <1>1, <1>3, LeaveSeen

LEMMA StartedSeen == ASSUME IInv, JInv, Seen, NEW ok \in BOOLEAN, Started(ok) PROVE Seen'
  <1> DEFINE activity == IF ok THEN "idle" ELSE "error"
             failed == ~ok
             replaying == eng.replaying /\ ok
             e == [eng EXCEPT !.activity = activity, !.startFailed = failed, !.replaying = replaying]
             x == [Enter EXCEPT !.e.activity = activity, !.e.startFailed = failed, !.e.replaying = replaying]
  <1>1. Section(Enter) /\ Enter.e = eng /\ eng \in EngType /\ Said(Enter)
    BY EnterInv, EnterSaid
  <1>2. Leave([Enter EXCEPT !.e.activity = activity, !.e.startFailed = failed, !.e.replaying = @ /\ ok])
    BY DEF Started
  <1>3. [Enter EXCEPT !.e.activity = activity, !.e.startFailed = failed, !.e.replaying = @ /\ ok] = x
    BY <1>1 DEF Section, EngType
  <1>4. activity \in Activities /\ failed \in BOOLEAN /\ replaying \in BOOLEAN
    BY <1>1 DEF Activities, EngType
  <1> HIDE DEF activity, failed, replaying
  <1>5. e \in EngType /\ e.queue = eng.queue /\ e.cur = eng.cur /\ e.armed = eng.armed
    <2>1. e \in EngType
      BY <1>1, <1>4, StartedType
    <2> QED BY <1>1, <2>1 DEF EngType
  <1>6. Section(x) /\ Silent(x, Enter)
    BY <1>1, <1>5 DEF Section, Silent
  <1> HIDE DEF x
  <1>7. Leave(x)
    BY <1>2, <1>3
  <1> QED BY <1>1, <1>6, <1>7, SilentSays, LeaveSeen

LEMMA DisarmSendSeen == ASSUME IInv, JInv, Seen, DisarmSend PROVE Seen'
  <1> DEFINE v == FoldAll(view, Enter.log)
             x == Disarm(Enter)
             z == Place(x, x.qev \o x.dis \o x.st)
  <1>1. Section(Enter) /\ Saying(Enter, v, v.open) /\ Enter.st = <<>> /\ Enter.qev = <<>>
    <2>1. Section(Enter) /\ Enter.qev = <<>>
      BY EnterInv DEF Enter
    <2> QED BY <2>1, EnterSaid, SaidSaying
  <1>2. Commit(Place(x, x.dis))
    BY DEF DisarmSend
  <1>3. x.qev = <<>>
    BY <1>1, DisarmEffect DEF Disarm, Armed
  <1> HIDE DEF v
  <1>4. Section(x) /\ Saying(x, v, v.open) /\ x.st = <<>>
    BY <1>1, DisarmSection, DisarmSays
  <1> HIDE DEF x
  <1>5. Said(z)
    BY <1>4, PlaceChange
  <1>6. x.qev \o x.dis \o x.st = x.dis
    BY <1>3, <1>4, SayingTyped
  <1> HIDE DEF z
  <1> QED BY <1>2, <1>5, <1>6, CommitSeen DEF z

-----------------------------------------------------------------------------
(* Interjections, and commands on the queue *)

LEMMA InterjectSeen == ASSUME IInv, JInv, Seen, InterjectAdmitted \/ InterjectMade PROVE Seen'
  <1>1. eng \in EngType
    BY EnterInv
  <1>2. CASE InterjectAdmitted
    BY <1>1, <1>2, SilentStep DEF InterjectAdmitted, EngType
  <1>3. CASE InterjectMade
    BY <1>1, <1>3, SilentStep DEF InterjectMade, EngType
  <1> QED BY <1>2, <1>3

\* The queue changes, and the events that say so are placed.
LEMMA QueuePlaced ==
  ASSUME NEW x, Said(x), NEW y, NEW evs, QueueTold(evs, x.e.queue, y.e.queue),
         y.log = x.log \o evs, y.qev = <<>>, y.dis = <<>>, y.st = <<>>,
         y.e.cur.id = x.e.cur.id, y.e.armed = x.e.armed
  PROVE  Said(y)
  <1> DEFINE v == FoldAll(view, x.log)
             u == [v EXCEPT !.rows = y.e.queue]
  <1>1. /\ x.log \in Seq(Event) /\ evs \in Seq(Event) /\ y.e.queue \in Seq(Row)
        /\ v \in View /\ v.ok /\ v.rows = x.e.queue /\ v.open = x.e.cur.id
        /\ v.promised = 0 /\ v.armed = (x.e.armed # NoSend)
    BY DEF Said, Shown, QueueTold
  <1>2. FoldAll(view, y.log) = FoldAll(v, evs)
    BY <1>1, FoldConcat
  <1> HIDE DEF v
  <1>3. FoldAll(v, evs) = u
    BY <1>1 DEF QueueTold
  <1>4. /\ u \in View /\ u.ok /\ u.rows = y.e.queue /\ u.open = v.open
        /\ u.promised = v.promised /\ u.armed = v.armed
    BY <1>1 DEF View
  <1>5. y.log \in Seq(Event)
    BY <1>1
  <1> HIDE DEF u
  <1>6. Shown(u, y.e)
    BY <1>1, <1>4 DEF Shown
  <1> QED BY <1>2, <1>3, <1>5, <1>6 DEF Said

LEMMA AddRowSaid ==
  ASSUME NEW x, Section(x), Orderly(x), Said(x)
  PROVE  Said(AddRow(x)) /\ Section(AddRow(x))
  <1> DEFINE row == [id |-> x.e.rowSeq + 1, ver |-> 0]
             q == Append(x.e.queue, row)
             seq == x.e.rowSeq + 1
             ev == QueuedEvent(row, Len(x.e.queue))
             log == Append(x.log, ev)
             e == [x.e EXCEPT !.queue = q, !.rowSeq = seq]
             y == AddRow(x)
  <1>1. x.e \in EngType /\ x.e.rowSeq \in Nat /\ x.e.queue \in Seq(Row) /\ Section(y)
    BY AddRowSection DEF Section, EngType
  <1>2. y = [x EXCEPT !.e.queue = q, !.e.rowSeq = seq, !.log = log]
    BY DEF AddRow, Add
  <1>3. row \in Row /\ ~Has(x.e.queue, row.id)
    <2>1. row \in Row /\ row.id = x.e.rowSeq + 1
      BY <1>1 DEF Row
    <2>2. \A id \in Ids(x.e.queue) : id <= x.e.rowSeq
      BY DEF Orderly, RowsApart
    <2>3. row.id \notin Ids(x.e.queue)
      BY <1>1, <2>1, <2>2
    <2> QED BY <2>1, <2>3, HasIds
  <1>4. QueueTold(<<ev>>, x.e.queue, q)
    BY <1>1, <1>3, RowLast DEF Add
  <1>5. log = x.log \o <<ev>>
    BY DEF Said
  <1> HIDE DEF row, q, seq, ev, log, y
  <1>6. y.e = e /\ y.log = log /\ y.qev = x.qev /\ y.dis = x.dis /\ y.st = x.st
    BY <1>2 DEF Section
  <1>7. e.queue = q /\ e.cur = x.e.cur /\ e.armed = x.e.armed
    BY <1>1 DEF EngType
  <1> HIDE DEF e
  <1>8. Said(y)
    BY <1>4, <1>5, <1>6, <1>7, QueuePlaced DEF Said
  <1> QED BY <1>1, <1>8 DEF y

LEMMA RequeuedSeen ==
  ASSUME IInv, JInv, Seen, NEW q \in Seq(Row), NEW log, QueueTold(log, eng.queue, q),
         Leave([Enter EXCEPT !.e.queue = q, !.log = log])
  PROVE  Seen'
  <1> DEFINE e == [eng EXCEPT !.queue = q]
             x == [Enter EXCEPT !.e.queue = q, !.log = log]
  <1>1. Section(Enter) /\ Enter.e = eng /\ eng \in EngType /\ Said(Enter) /\ Enter.log = <<>>
    BY EnterInv, EnterSaid DEF Enter
  <1>2. e \in EngType /\ e.queue = q /\ e.cur = eng.cur /\ e.armed = eng.armed
    BY <1>1 DEF EngType
  <1>3. /\ Section(x) /\ x.e = e
        /\ x.log = log /\ x.qev = Enter.qev /\ x.dis = Enter.dis /\ x.st = Enter.st
    BY <1>1, <1>2 DEF Section
  <1>4. x.log = Enter.log \o log
    BY <1>1, <1>3 DEF QueueTold
  <1> HIDE DEF x, e
  <1>5. Said(x)
    BY <1>1, <1>2, <1>3, <1>4, QueuePlaced DEF Said
  <1> QED BY <1>3, <1>5, LeaveSeen DEF x

LEMMA QueueVerbSeen == ASSUME IInv, JInv, Seen, QueueVerb PROVE Seen'
  <1> DEFINE v == FoldAll(view, Enter.log)
  <1>1. /\ Section(Enter) /\ Enter.e = eng /\ eng.queue \in Seq(Row) /\ Orderly(Enter)
        /\ Distinct(eng.queue) /\ Said(Enter)
    BY EnterInv, EnterSaid DEF EngType, JInv, Orderly, RowsApart
  <1>2. CASE QueueRow
    BY <1>1, <1>2, AddRowSaid, LeaveSeen DEF QueueRow
  <1>3. CASE ClearRows
    <2> DEFINE x == ClearQueue(Enter)
               z == Place(x, x.qev \o x.dis \o x.st)
    <2>1. Leave(Place(x, x.qev))
      BY <1>3 DEF ClearRows
    <2>2. Saying(Enter, v, v.open) /\ Enter.st = <<>> /\ Enter.dis = <<>>
      BY <1>1, SaidSaying DEF Enter
    <2> HIDE DEF v
    <2>3. Section(x) /\ Saying(x, v, v.open) /\ x.st = <<>> /\ x.dis = <<>>
      BY <1>1, <2>2, ClearQueueSection, ClearQueueSays
    <2> HIDE DEF x
    <2>4. Said(z) /\ Section(z)
      BY <2>3, PlaceChange, PlaceSection
    <2>5. x.qev \o x.dis \o x.st = x.qev
      BY <2>3, SayingTyped
    <2> HIDE DEF z
    <2> QED BY <2>1, <2>4, <2>5, LeaveSeen DEF z
  <1>4. ASSUME NEW id, EditQueued(id) PROVE Seen'
    <2> DEFINE q == Edit(eng.queue, id)
               log == <<EditedEvent(Lookup(q, id), Position(q, id) - 1)>>
    <2>1. Leave([Enter EXCEPT !.e.queue = q, !.log = log]) /\ Has(eng.queue, id)
      BY <1>4 DEF EditQueued
    <2>2. QueueTold(log, eng.queue, q)
      BY <1>1, <2>1, RowEdited
    <2>3. q \in Seq(Row)
      BY <2>2 DEF QueueTold
    <2> HIDE DEF q, log
    <2> QED BY <2>1, <2>2, <2>3, RequeuedSeen
  <1>5. ASSUME NEW id, Unqueue(id) PROVE Seen'
    <2> DEFINE q == Take(eng.queue, id)
               ev == RemovedEvent(Lookup(eng.queue, id), Position(eng.queue, id) - 1)
               log == <<ev>>
    <2>1. Leave([Enter EXCEPT !.e.queue = q, !.log = log]) /\ Has(eng.queue, id)
      BY <1>1, <1>5 DEF Unqueue
    <2>2. Position(eng.queue, id) - 1 \in Nat
      BY <1>1, <2>1, PositionInQueue
    <2>3. ev = [k |-> "removed", row |-> Lookup(eng.queue, id), pos |-> Position(eng.queue, id) - 1]
      BY DEF RemovedEvent
    <2> HIDE DEF ev, q
    <2>4. QueueTold(log, eng.queue, q)
      BY <1>1, <2>1, <2>2, <2>3, RowGone DEF q
    <2>5. q \in Seq(Row)
      BY <2>4 DEF QueueTold
    <2> HIDE DEF log
    <2> QED BY <2>1, <2>4, <2>5, RequeuedSeen
  <1> QED BY <1>2, <1>3, <1>4, <1>5 DEF QueueVerb

-----------------------------------------------------------------------------
(* Commands that admit a prompt *)

LEMMA AdmissionSaid ==
  ASSUME IInv, JInv, Seen, NEW mode
  PROVE  /\ Inside(Admission(mode)) /\ Section(Admission(mode)) /\ Orderly(Admission(mode))
         /\ Said(Admission(mode)) /\ Silent(Admission(mode), Enter)
  <1> DEFINE r == Raise(Enter)
             reads == ~Refuses(eng) /\ (mode = "send_now" \/ (~RetryForeignTurn /\ Free(eng)))
             x == Admission(mode)
  <1>1. x = LookIf(r, reads)
    BY DEF Admission
  <1>2. Section(r) /\ Silent(r, Enter)
    BY RaisedKeeps
  <1> HIDE DEF r, reads, x
  <1>3. Silent(x, Enter)
    BY <1>1, <1>2, LookIfSilent, SilentTransitive
  <1>4. Said(x)
    BY <1>3, EnterSaid, SilentSays
  <1> QED BY <1>3, <1>4, AdmissionKeeps DEF x

\* The exit fence is nothing a client shows.
LEMMA FenceSetSilent ==
  ASSUME NEW x, Section(x), NEW exit \in ExitFence
  PROVE  Silent([x EXCEPT !.e.exit = exit], x) /\ Section([x EXCEPT !.e.exit = exit])
  <1> DEFINE e == [x.e EXCEPT !.exit = exit]
             y == [x EXCEPT !.e.exit = exit]
  <1>1. x.e \in EngType
    BY DEF Section
  <1>2. e \in EngType /\ e.queue = x.e.queue /\ e.cur = x.e.cur /\ e.armed = x.e.armed
    BY <1>1 DEF EngType
  <1>3. /\ Section(y) /\ y.e = e
        /\ y.log = x.log /\ y.qev = x.qev /\ y.dis = x.dis /\ y.st = x.st
    BY <1>2 DEF Section
  <1> HIDE DEF e, y
  <1> QED BY <1>2, <1>3 DEF Silent, y

LEMMA SubmitStartsSeen ==
  ASSUME IInv, JInv, Seen, NEW mode, NEW from \in Nat, NEW fence \in BOOLEAN,
         SubmitStarts(mode, from, fence)
  PROVE  Seen'
  <1> DEFINE x == Admission(mode)
             u == FoldAll(view, x.log)
             row == Lookup(eng.queue, from)
             origin == IF mode = "send_now" THEN "send_now" ELSE "submit"
             y == Claim(x, row, origin)
             z == IF from = 0 THEN y ELSE SendRow(y, from)
             exit == [NoFence EXCEPT !.up = TRUE, !.turn = z.e.cur.id]
             w == IF fence THEN [z EXCEPT !.e.exit = exit] ELSE z
             p == Place(w, w.qev \o w.dis \o w.st)
  <1>1. /\ Section(x) /\ Said(x) /\ x.e.queue = eng.queue
        /\ Saying(x, u, u.open) /\ u.open = x.e.cur.id /\ x.st = <<>> /\ x.dis = <<>>
    <2>1. Section(x) /\ Said(x) /\ x.e.queue = eng.queue
      BY AdmissionSaid, Entered DEF Silent
    <2> QED BY <2>1, SaidSaying DEF Said
  <1>2. row \in Row \cup {NoRow}
    BY EnterInv, LookupNames DEF EngType
  <1>3. Leave(Place(w, w.qev \o w.st)) /\ SubmitOutcome(x, mode, from) = "start"
    BY DEF SubmitStarts
  <1>4. origin \in Origins /\ Firing(x, x, origin)
    <2>1. mode = "send_now" => ~Armed(x)
      BY <1>3 DEF SubmitOutcome, Armed
    <2> QED BY <1>1, <2>1 DEF Firing, Origins
  <1> HIDE DEF x, u, row, origin
  <1>5. x.e.cur.id = 0 /\ (from # 0 => Has(x.e.queue, from))
    BY <1>3 DEF SubmitOutcome, CanSubmit, CanStart, Free
  <1>6. Section(y) /\ Saying(y, u, u.open) /\ y.e.queue = x.e.queue /\ y.dis = <<>>
    <2>1. Section(y)
      BY <1>1, <1>2, ClaimSection
    <2>2. y.dis = x.dis
      <3>1. \A o : Claim(x, row, o).dis = x.dis
        BY <1>1, ClaimEffect
      <3> QED BY <3>1
    <2>3. Saying(y, u, u.open) /\ y.e.queue = x.e.queue
      BY <1>1, <1>4, <1>5, ClaimSays
    <2> QED BY <1>1, <2>1, <2>2, <2>3
  <1> HIDE DEF y
  <1>7. Section(z) /\ Saying(z, u, u.open) /\ z.dis = <<>>
    <2>1. CASE from = 0
      BY <1>6, <2>1
    <2>2. CASE from # 0
      <3>1. Section(SendRow(y, from)) /\ Saying(SendRow(y, from), u, u.open)
        BY <1>5, <1>6, <2>2, SendRowSection, SendRowSays
      <3>2. SendRow(y, from).dis = y.dis
        BY <1>6 DEF SendRow, Section
      <3> QED BY <1>6, <2>2, <3>1, <3>2
    <2> QED BY <2>1, <2>2
  <1> HIDE DEF z
  <1>8. exit \in ExitFence
    BY <1>7 DEF NoFence, ExitFence, Section, EngType, Turn
  <1> HIDE DEF exit
  <1>9. Section(w) /\ Silent(w, z)
    <2>1. Section([z EXCEPT !.e.exit = exit]) /\ Silent([z EXCEPT !.e.exit = exit], z)
      BY <1>7, <1>8, FenceSetSilent
    <2> QED BY <1>7, <2>1, SilentItself
  <1> HIDE DEF w
  <1>10. Saying(w, u, u.open) /\ w.dis = <<>>
    BY <1>7, <1>9, SilentSays
  <1>11. Said(p) /\ Section(p)
    BY <1>9, <1>10, PlaceChange, PlaceSection
  <1>12. w.qev \o w.dis \o w.st = w.qev \o w.st
    <2>1. w.qev \in Seq(Event)
      BY <1>9, <1>10, SayingTyped
    <2>2. w.qev \o <<>> = w.qev
      BY <2>1
    <2> QED BY <1>10, <2>2
  <1> HIDE DEF p
  <1> QED BY <1>3, <1>11, <1>12, LeaveSeen DEF p

LEMMA SubmitQueuesSeen ==
  ASSUME IInv, JInv, Seen, NEW fence \in BOOLEAN, SubmitQueues(fence)
  PROVE  Seen'
  <1> DEFINE x == Admission("queue")
             y == AddRow(x)
             exit == [NoFence EXCEPT !.up = TRUE, !.row = y.e.rowSeq]
             z == [y EXCEPT !.e.exit = exit]
             w == IF fence THEN z ELSE y
  <1>1. Leave(w)
    BY DEF SubmitQueues
  <1>2. Section(x) /\ Orderly(x) /\ Said(x)
    BY AdmissionSaid
  <1> HIDE DEF x
  <1>3. Section(y) /\ Said(y)
    BY <1>2, AddRowSaid
  <1> HIDE DEF y
  <1>4. exit \in ExitFence
    BY <1>3 DEF NoFence, ExitFence, Section, EngType
  <1> HIDE DEF exit
  <1>5. Section(z) /\ Said(z)
    BY <1>3, <1>4, FenceSetSilent, SilentSays
  <1> HIDE DEF z
  <1>6. Section(w) /\ Said(w)
    BY <1>3, <1>5
  <1> HIDE DEF w
  <1> QED BY <1>1, <1>6, LeaveSeen

LEMMA SubmitRefusedSeen ==
  ASSUME IInv, JInv, Seen, NEW mode, NEW from, SubmitRefused(mode, from)
  PROVE  Seen'
  BY AdmissionSaid, LeaveSeen DEF SubmitRefused

-----------------------------------------------------------------------------
(* Cancels *)

LEMMA HoldSilent ==
  ASSUME NEW x, Section(x), NEW c
  PROVE  Silent(Hold(x, c), x)
  <1> DEFINE holds == x.e.holds \cup {c}
             asked == x.e.cur.cancelAsked \/ x.e.cur.id # 0
             cur == [x.e.cur EXCEPT !.cancelAsked = asked]
             y == [x EXCEPT !.e.holds = holds, !.e.cur.cancelAsked = asked]
             e == [x.e EXCEPT !.holds = holds, !.cur = cur]
  <1>1. x.e \in EngType /\ x.e.cur \in Turn
    BY DEF Section, EngType
  <1>2. Hold(x, c) = y
    BY <1>1 DEF Hold, Section, EngType
  <1> HIDE DEF holds, asked
  <1>3. cur.id = x.e.cur.id
    BY <1>1 DEF Turn
  <1>4. y.e = e /\ y.log = x.log /\ y.qev = x.qev /\ y.dis = x.dis /\ y.st = x.st
    BY <1>1 DEF Section, EngType
  <1> HIDE DEF cur
  <1>5. e.cur = cur /\ e.queue = x.e.queue /\ e.armed = x.e.armed
    BY <1>1 DEF EngType
  <1> HIDE DEF y, e
  <1> QED BY <1>2, <1>3, <1>4, <1>5 DEF Silent

LEMMA SubmitArmsSeen ==
  ASSUME IInv, JInv, Seen, NEW from \in Nat, NEW c \in Calls, SubmitArms(from, c)
  PROVE  Seen'
  <1> DEFINE x == Admission("send_now")
             h == Hold(x, c)
             armed == [turn |-> eng.cur.id, from |-> from]
             log == Append(h.log, ArmedEvent)
             y == [h EXCEPT !.e.armed = armed, !.log = log]
             e == [h.e EXCEPT !.armed = armed]
             v == FoldAll(view, h.log)
             u == [v EXCEPT !.armed = TRUE]
  <1>1. Inside(x) /\ Section(x) /\ Said(x) /\ x.e.cur.id = eng.cur.id
    BY AdmissionSaid, Entered DEF Silent
  <1>2. Leave(y) /\ SubmitOutcome(x, "send_now", from) = "arm"
    BY DEF SubmitArms
  <1>3. armed \in Send /\ armed.turn = eng.cur.id
    BY EnterInv DEF Send, EngType, Turn
  <1> HIDE DEF x, armed
  <1>4. x.e.armed = NoSend /\ x.e.cur.id # 0
    BY <1>2 DEF SubmitOutcome
  <1>5. armed # NoSend
    BY <1>1, <1>3, <1>4 DEF NoSend
  <1>6. Section(h) /\ Silent(h, x)
    BY <1>1, HoldInside, HoldSilent DEF Inside
  <1> HIDE DEF h
  <1>7. Said(h) /\ h.e.armed = NoSend /\ h.e \in EngType
    BY <1>1, <1>4, <1>6, SilentSays DEF Silent, Section
  <1>8. /\ h.log \in Seq(Event) /\ v \in View /\ v.ok /\ v.rows = h.e.queue /\ v.open = h.e.cur.id
        /\ v.promised = 0 /\ v.armed = FALSE
    BY <1>7 DEF Said, Shown
  <1>9. ArmedEvent \in Event /\ log \in Seq(Event)
    <2>1. ArmedEvent \in Event
      BY DEF ArmedEvent, Event
    <2> QED BY <1>8, <2>1
  <1>10. FoldAll(view, log) = Fold(v, ArmedEvent)
    BY <1>8, <1>9, FoldAppend
  <1> HIDE DEF v, log
  <1>11. Fold(v, ArmedEvent) = u
    BY <1>8 DEF Fold, FoldSendNow, ArmedEvent, View
  <1>12. /\ u \in View /\ u.ok /\ u.rows = v.rows /\ u.open = v.open /\ u.promised = 0
         /\ u.armed = TRUE
    BY <1>8 DEF View
  <1> HIDE DEF u
  <1>13. e \in EngType /\ e.queue = h.e.queue /\ e.cur = h.e.cur /\ e.armed = armed
    BY <1>3, <1>7 DEF EngType
  <1>14. Section(y) /\ y.e = e /\ y.log = log /\ y.qev = h.qev /\ y.dis = h.dis /\ y.st = h.st
    BY <1>6, <1>13 DEF Section
  <1> HIDE DEF y, e
  <1>15. Shown(u, y.e)
    BY <1>5, <1>8, <1>12, <1>13, <1>14 DEF Shown
  <1>16. Said(y)
    BY <1>7, <1>9, <1>10, <1>11, <1>14, <1>15 DEF Said
  <1> QED BY <1>2, <1>14, <1>16, LeaveSeen

LEMMA SubmitSeen == ASSUME IInv, JInv, Seen, Submit PROVE Seen'
  <1> DEFINE rows == {0} \cup {eng.queue[i].id : i \in DOMAIN eng.queue}
  <1>1. rows \subseteq Nat
    <2>1. eng.queue \in Seq(Row)
      BY EnterInv DEF EngType
    <2>2. \A i \in DOMAIN eng.queue : eng.queue[i] \in Row
      BY <2>1
    <2> QED BY <2>2 DEF Row
  <1>2. ASSUME NEW mode, NEW from, SubmitRefused(mode, from) PROVE Seen'
    BY <1>2, SubmitRefusedSeen
  <1>3. ASSUME NEW from \in rows, NEW mode, SubmitStarts(mode, from, FALSE) PROVE Seen'
    BY <1>1, <1>3, SubmitStartsSeen
  <1>4. ASSUME NEW from \in rows, NEW c \in Calls, SubmitArms(from, c) PROVE Seen'
    BY <1>1, <1>4, SubmitArmsSeen
  <1>5. ASSUME NEW fence \in BOOLEAN, SubmitQueues(fence) PROVE Seen'
    BY <1>5, SubmitQueuesSeen
  <1>6. ASSUME SubmitStarts("queue", 0, TRUE) PROVE Seen'
    BY <1>6, SubmitStartsSeen
  <1> HIDE DEF rows
  <1> QED BY <1>2, <1>3, <1>4, <1>5, <1>6 DEF Submit, rows

LEMMA CancelHeldSeen == ASSUME IInv, JInv, Seen, NEW c \in Calls, CancelHeld(c) PROVE Seen'
  <1> DEFINE r == Raise(Enter)
             x == LookIf(r, eng.cur.id = 0)
             y == Hold(x, c)
  <1>1. Inside(r) /\ Section(r) /\ Said(r)
    BY RaisedReady, ReadySaid DEF Ready
  <1>2. Leave(y)
    BY DEF CancelHeld
  <1> HIDE DEF r
  <1>3. Inside(x) /\ Section(x) /\ Said(x)
    BY <1>1, LookIfInside, LookIfSection, LookIfSilent, SilentSays
  <1> HIDE DEF x
  <1>4. Section(y) /\ Said(y)
    BY <1>3, HoldInside, HoldSilent, SilentSays DEF Inside
  <1> HIDE DEF y
  <1> QED BY <1>2, <1>4, LeaveSeen

LEMMA CancelRefusedSeen == ASSUME IInv, JInv, Seen, CancelRefused PROVE Seen'
  BY RaisedReady, ReadySaid, LeaveSeen DEF CancelRefused

LEMMA StoppedSilent == ASSUME NEW x, Section(x) PROVE Silent([x EXCEPT !.e.stopped = TRUE], x)
  <1> DEFINE e == [x.e EXCEPT !.stopped = TRUE]
             y == [x EXCEPT !.e.stopped = TRUE]
  <1>1. y.e = e /\ y.log = x.log /\ y.qev = x.qev /\ y.dis = x.dis /\ y.st = x.st
    BY DEF Section
  <1>2. e.queue = x.e.queue /\ e.cur = x.e.cur /\ e.armed = x.e.armed
    BY DEF Section, EngType
  <1> HIDE DEF y, e
  <1> QED BY <1>1, <1>2 DEF Silent, y

LEMMA StopHeldSeen == ASSUME IInv, JInv, Seen, NEW c \in Calls, StopHeld(c) PROVE Seen'
  <1> DEFINE x == Raise(Enter)
             v == FoldAll(view, x.log)
             s == [x EXCEPT !.e.stopped = TRUE]
             q == ClearQueue(s)
             d == Disarm(q)
             y == IF eng.stopped THEN x ELSE d
             p == Place(y, y.qev \o y.dis)
             m == Place(y, y.qev \o y.dis \o y.st)
             z == Hold(p, c)
  <1>1. Inside(x) /\ Section(x) /\ Said(x) /\ Orderly(x)
    BY RaisedReady, ReadySaid DEF Ready
  <1>2. Leave(z)
    BY DEF StopHeld
  <1>3. Saying(x, v, v.open) /\ x.st = <<>>
    BY <1>1, SaidSaying
  <1> HIDE DEF x, v
  <1>4. Inside(s) /\ Section(s) /\ Orderly(s) /\ Saying(s, v, v.open) /\ s.st = <<>>
    <2>1. Inside(s) /\ Orderly(s)
      BY <1>1, StoppedInside, StoppedGoes DEF Goes
    <2>2. Silent(s, x)
      BY <1>1, StoppedSilent
    <2> HIDE DEF s
    <2> QED BY <1>3, <2>1, <2>2, SilentSays DEF Inside
  <1> HIDE DEF s
  <1>5. Inside(q) /\ Section(q) /\ Saying(q, v, v.open) /\ q.st = <<>>
    BY <1>4, ClearQueueInside, ClearQueueSays DEF Inside, Orderly, RowsApart
  <1> HIDE DEF q
  <1>6. Inside(d) /\ Section(d) /\ Saying(d, v, v.open) /\ d.st = <<>>
    BY <1>5, DisarmInside, DisarmSays DEF Inside
  <1> HIDE DEF d
  <1>7. Inside(y) /\ Section(y) /\ Saying(y, v, v.open) /\ y.st = <<>>
    BY <1>1, <1>3, <1>6
  <1> HIDE DEF y
  <1>8. p = m
    <2>1. y.qev \in Seq(Event) /\ y.dis \in Seq(Event)
      BY <1>7, SayingTyped
    <2>2. y.qev \o y.dis \o <<>> = y.qev \o y.dis
      BY <2>1
    <2> QED BY <1>7, <2>2
  <1>9. Said(m)
    BY <1>7, PlaceChange
  <1>10. Inside(p)
    BY <1>7, PlaceInside
  <1> HIDE DEF p, m
  <1>11. Section(z) /\ Said(z)
    BY <1>8, <1>9, <1>10, HoldInside, HoldSilent, SilentSays DEF Inside
  <1> HIDE DEF z
  <1> QED BY <1>2, <1>11, LeaveSeen

\* The disarm placed alone.
LEMMA DisarmedSaid ==
  ASSUME NEW x, Inside(x), Orderly(x), Said(x)
  PROVE  LET d == Disarm(x)
             p == Place(d, d.dis)
         IN  Inside(p) /\ Orderly(p) /\ Said(p)
  <1> DEFINE v == FoldAll(view, x.log)
             d == Disarm(x)
             p == Place(d, d.dis)
             m == Place(d, d.qev \o d.dis \o d.st)
  <1>1. Section(x) /\ Saying(x, v, v.open) /\ x.st = <<>> /\ x.qev = <<>>
    BY SaidSaying DEF Inside, Said
  <1>2. d.qev = <<>>
    BY <1>1, DisarmEffect DEF Disarm, Armed
  <1> HIDE DEF v
  <1>3. Inside(d) /\ Section(d) /\ Orderly(d) /\ Saying(d, v, v.open) /\ d.st = <<>>
    BY <1>1, DisarmInside, DisarmAlike, AlikeOrderly, DisarmSays DEF Inside
  <1> HIDE DEF d
  <1>4. p = m
    <2>1. d.dis \in Seq(Event)
      BY <1>3, SayingTyped
    <2>2. <<>> \o d.dis \o <<>> = d.dis
      BY <2>1
    <2> QED BY <1>2, <1>3, <2>2
  <1>5. Said(m)
    BY <1>3, PlaceChange
  <1>6. Inside(p) /\ Orderly(p)
    BY <1>3, PlaceInside, PlaceAlike, AlikeOrderly
  <1> HIDE DEF p, m
  <1> QED BY <1>4, <1>5, <1>6 DEF p, d

LEMMA ReleaseSeen ==
  ASSUME IInv, JInv, Seen, NEW c \in Calls, NEW failed \in BOOLEAN, Release(c, failed)
  PROVE  Seen'
  <1> DEFINE x == Freed(c)
             d == Disarm(x)
             p == Place(d, d.dis)
             lost == failed /\ eng.armed # NoSend /\ eng.armed.turn = calls[c].turn
             y == IF lost THEN p ELSE x
             z == Pass(y)
  <1>1. Leave(z)
    BY DEF Release, Freed
  <1>2. Ready(x) /\ Said(x)
    BY FreedReady, ReadySaid
  <1> HIDE DEF x, lost
  <1>3. Inside(p) /\ Orderly(p) /\ Said(p)
    BY <1>2, DisarmedSaid DEF Ready
  <1> HIDE DEF p
  <1>4. Inside(y) /\ Orderly(y) /\ Said(y)
    BY <1>2, <1>3 DEF Ready
  <1> HIDE DEF y
  <1>5. Section(z) /\ Said(z)
    BY <1>4, PassInside, PassSaid DEF Inside
  <1> HIDE DEF z
  <1> QED BY <1>1, <1>5, LeaveSeen

LEMMA CancelSeen == ASSUME IInv, JInv, Seen, CancelNext PROVE Seen'
  <1> SUFFICES ASSUME NEW c \in Calls,
                      CancelHeld(c) \/ StopHeld(c) \/ CancelMarks(c) \/ CancelReturns(c) \/ StopAbandoned(c)
               PROVE  Seen'
    BY DEF CancelNext
  <1>1. CancelReturns(c) \/ StopAbandoned(c) => Release(c, FALSE) \/ Release(c, TRUE)
    BY DEF CancelReturns, StopAbandoned
  <1>2. CancelMarks(c) => Seen'
    BY SilentStep DEF CancelMarks
  <1> QED BY <1>1, <1>2, CancelHeldSeen, StopHeldSeen, ReleaseSeen

-----------------------------------------------------------------------------
(* Giving up, hosts, and closing *)

LEMMA GiveUpSeen == ASSUME IInv, JInv, Seen, GiveUp PROVE Seen'
  <1> DEFINE x == GivenUp
             y == IF eng.holds = {} THEN Settle(x) ELSE x
  <1>1. Leave(y) /\ ~eng.closed /\ eng.cur.retry
    BY DEF GiveUp, GivenUp
  <1>2. Ready(x) /\ Said(x) /\ x.e.cur.returned /\ ~x.e.closed
    BY <1>1, GivenUpReady, ReadySaid
  <1> HIDE DEF x
  <1>3. Inside(Settle(x)) /\ Said(Settle(x))
    BY <1>2, SettleInside, SettleSaid DEF Ready
  <1>4. Section(y) /\ Said(y)
    BY <1>2, <1>3 DEF Ready, Inside
  <1> HIDE DEF y
  <1> QED BY <1>1, <1>4, LeaveSeen

LEMMA GiveUpDrainSeen == ASSUME IInv, JInv, Seen, GiveUpDrain PROVE Seen'
  <1> DEFINE x == Raise(Enter)
             y == IF eng.cur.id = 0 THEN Pass(x) ELSE x
             s == [y EXCEPT !.e.stopped = TRUE]
             z == Disarm(s)
             p == Place(z, z.dis)
             w == IF y.e.cur.id # 0 THEN y ELSE p
  <1>1. Leave(w)
    BY DEF GiveUpDrain
  <1>2. Inside(x) /\ Orderly(x) /\ Said(x)
    BY RaisedReady, ReadySaid DEF Ready
  <1> HIDE DEF x
  <1>3. Inside(Pass(x)) /\ Orderly(Pass(x)) /\ Said(Pass(x))
    BY <1>2, PassInside, PassOrderly, PassSaid DEF Passes
  <1>4. Inside(y) /\ Section(y) /\ Orderly(y) /\ Said(y)
    BY <1>2, <1>3 DEF Inside
  <1> HIDE DEF y
  <1>5. Inside(s) /\ Orderly(s) /\ Said(s)
    BY <1>4, StoppedInside, StoppedGoes, StoppedSilent, SilentSays DEF Goes
  <1> HIDE DEF s
  <1>6. Inside(p) /\ Said(p)
    BY <1>5, DisarmedSaid
  <1> HIDE DEF p
  <1>7. Section(w) /\ Said(w)
    BY <1>4, <1>6 DEF Inside
  <1> HIDE DEF w
  <1> QED BY <1>1, <1>7, LeaveSeen

LEMMA FenceCloseSeen == ASSUME IInv, JInv, Seen, NEW h \in Hosts, FenceClose(h) PROVE Seen'
  <1> DEFINE r == Raise(Enter)
             fences == r.e.closeFences \cup {h}
             w == [r EXCEPT !.e.closeFences = fences]
             e == [r.e EXCEPT !.closeFences = fences]
             x == Look(w)
  <1>1. Section(r) /\ r.e \in EngType /\ Said(r)
    BY RaisedReady, ReadySaid DEF Section
  <1>2. Leave(x)
    BY DEF FenceClose
  <1> HIDE DEF r
  <1>3. fences \in SUBSET Hosts
    BY <1>1 DEF EngType
  <1> HIDE DEF fences
  <1>4. e \in EngType /\ e.queue = r.e.queue /\ e.cur = r.e.cur /\ e.armed = r.e.armed
    BY <1>1, <1>3 DEF EngType
  <1>5. Section(w) /\ Silent(w, r)
    BY <1>1, <1>4 DEF Section, Silent
  <1> HIDE DEF w
  <1>6. Section(x) /\ Silent(x, w)
    <2>1. LookIf(w, TRUE) = x
      BY DEF LookIf
    <2>2. Silent(LookIf(w, TRUE), w)
      BY <1>5, LookIfSilent
    <2> QED BY <1>5, <2>1, <2>2, LookSection
  <1> HIDE DEF x
  <1>7. Said(x)
    BY <1>1, <1>5, <1>6, SilentTransitive, SilentSays
  <1> QED BY <1>2, <1>6, <1>7, LeaveSeen

LEMMA ReleaseFenceSeen == ASSUME IInv, JInv, Seen, NEW h \in Hosts, ReleaseFence(h) PROVE Seen'
  <1> DEFINE left == eng.closeFences \ {h}
             replay == left = {} /\ eng.passHeld
             held == eng.passHeld /\ ~replay
             kick == eng.kick \/ replay
             x == [Enter EXCEPT !.e.closeFences = left, !.e.passHeld = held, !.e.kick = kick]
             e == [eng EXCEPT !.closeFences = left, !.passHeld = held, !.kick = kick]
  <1>1. Section(Enter) /\ Enter.e = eng /\ eng \in EngType /\ Said(Enter)
    BY EnterInv, EnterSaid
  <1>2. Leave(x)
    BY <1>1 DEF ReleaseFence, Section, EngType
  <1>3. left \in SUBSET Hosts /\ held \in BOOLEAN /\ kick \in BOOLEAN
    BY <1>1 DEF EngType
  <1> HIDE DEF left, held, kick
  <1>4. e \in EngType /\ e.queue = eng.queue /\ e.cur = eng.cur /\ e.armed = eng.armed
    <2>1. e \in EngType
      BY <1>1, <1>3, FencesType
    <2> QED BY <1>1, <2>1 DEF EngType
  <1>5. Section(x) /\ Silent(x, Enter)
    BY <1>1, <1>4 DEF Section, Silent
  <1> HIDE DEF x
  <1> QED BY <1>1, <1>2, <1>5, SilentSays, LeaveSeen

LEMMA CloseEngineSeen == ASSUME IInv, JInv, Seen, CloseEngine PROVE Seen'
  <1> DEFINE v == FoldAll(view, Enter.log)
             w == [Enter EXCEPT !.e.closed = TRUE, !.e.activity = "closing", !.e.cur = NoTurn]
             e == [eng EXCEPT !.closed = TRUE, !.activity = "closing", !.cur = NoTurn]
             x == Raise(w)
             y == Disarm(x)
             ended == IF eng.cur.id = 0 THEN <<>> ELSE <<EndedEvent(eng.cur.id, 0, Len(eng.queue))>>
             z == Place(y, ended \o y.dis)
  <1>1. /\ Section(Enter) /\ Enter.e = eng /\ eng \in EngType
        /\ Saying(Enter, v, v.open) /\ v.open = eng.cur.id /\ Enter.st = <<>> /\ Enter.qev = <<>>
    <2>1. Section(Enter) /\ Enter.e = eng /\ eng \in EngType /\ Said(Enter)
      BY EnterInv, EnterSaid
    <2> QED BY <2>1, SaidSaying DEF Said
  <1>2. Commit(z)
    BY DEF CloseEngine
  <1> HIDE DEF v
  <1>3. NoTurn \in Turn
    BY DEF NoTurn, Turn
  <1>4. e \in EngType /\ e.cur = NoTurn /\ e.queue = eng.queue /\ e.armed = eng.armed
    BY <1>1, <1>3 DEF EngType, Activities
  <1>5. /\ Section(w) /\ w.e = e
        /\ w.log = Enter.log /\ w.qev = Enter.qev /\ w.dis = Enter.dis /\ w.st = Enter.st
    BY <1>1, <1>4 DEF Section
  <1> HIDE DEF w, e
  <1>6. Saying(w, v, 0)
    BY <1>1, <1>4, <1>5, TurnGoneSays
  <1>7. Section(x) /\ Silent(x, w)
    BY <1>5, RaiseSection, RaiseSilent
  <1> HIDE DEF x
  <1>8. Saying(x, v, 0) /\ x.st = <<>> /\ x.qev = <<>> /\ x.e.queue = eng.queue
    BY <1>1, <1>4, <1>5, <1>6, <1>7, SilentSays DEF Silent
  <1>9. y.qev = <<>> /\ y.e.queue = eng.queue
    BY <1>7, <1>8, DisarmEffect DEF Disarm, Armed
  <1>10. Section(y) /\ Saying(y, v, 0) /\ y.st = <<>> /\ y.e.cur.id = 0
    <2>1. Section(y) /\ Saying(y, v, 0) /\ y.st = <<>>
      BY <1>7, <1>8, DisarmSection, DisarmSays
    <2> QED BY <2>1, SaysCurrent
  <1> HIDE DEF y
  <1>11. y.dis \in Seq(Event) /\ eng.cur.id \in Nat /\ Len(eng.queue) \in Nat
    BY <1>1, <1>10, SayingTyped DEF EngType, Turn
  <1>12. CASE eng.cur.id = 0
    <2>1. z = Place(y, y.qev \o y.dis \o y.st)
      <3>1. <<>> \o y.dis \o <<>> = y.dis /\ <<>> \o y.dis = y.dis
        BY <1>11
      <3> QED BY <1>9, <1>10, <1>12, <3>1
    <2> HIDE DEF z
    <2>2. Said(z)
      BY <1>1, <1>10, <1>12, <2>1, PlaceChange
    <2> QED BY <1>2, <2>2, CommitSeen
  <1>13. CASE eng.cur.id # 0
    <2> DEFINE ev == EndedEvent(v.open, 0, Len(y.e.queue))
    <2>1. z = Place(y, y.qev \o <<ev>> \o y.dis \o y.st)
      <3>1. ended = <<ev>>
        BY <1>1, <1>9, <1>13
      <3>2. ev \in Event
        BY <1>1, <1>9, <1>11 DEF EndedEvent, Event
      <3> HIDE DEF ended, ev
      <3>3. <<>> \o <<ev>> \o y.dis \o <<>> = <<ev>> \o y.dis
        BY <1>11, <3>2
      <3> QED BY <1>9, <1>10, <3>1, <3>3
    <2>2. Said(Place(y, y.qev \o <<ev>> \o y.dis \o y.st))
      <3> DEFINE next == 0
                 left == Len(y.e.queue)
      <3>1. next = y.e.cur.id /\ left = Len(y.e.queue)
        BY <1>10
      <3> HIDE DEF next, left
      <3>2. Said(Place(y, y.qev \o <<EndedEvent(v.open, next, left)>> \o y.dis \o y.st))
        BY <1>10, <3>1, PlaceEnding
      <3> QED BY <3>2 DEF next, left
    <2> HIDE DEF z, ev
    <2> QED BY <1>2, <2>1, <2>2, CommitSeen
  <1> QED BY <1>12, <1>13

-----------------------------------------------------------------------------
(* The theorem *)

LEMMA InitSeen == Init => Seen
  <1> SUFFICES ASSUME Init PROVE Seen
    OBVIOUS
  <1>1. eng.queue = <<>> /\ eng.cur.id = 0 /\ eng.armed = NoSend
    BY DEF Init, EngInit, NoTurn
  <1>2. EmptyView \in View
    BY DEF EmptyView, View
  <1> QED BY <1>1, <1>2 DEF Init, Seen, Shown, EmptyView

LEMMA NextSeen == IInv /\ JInv /\ Seen /\ [Next]_vars => Seen'
  <1> SUFFICES ASSUME IInv, JInv, Seen, [Next]_vars PROVE Seen'
    OBVIOUS
  <1>1. CASE SessionStep
    BY <1>1, SilentStep DEF SessionStep
  <1>2. CASE DriverNext
    BY <1>2, DriverSeen
  <1>3. CASE \E c \in ses.conts : Return(c)
    BY <1>3, ReturnSeen
  <1>4. CASE \E ok \in BOOLEAN : Started(ok)
    BY <1>4, StartedSeen
  <1>5. CASE Submit
    BY <1>5, SubmitSeen
  <1>6. CASE InterjectAdmitted \/ InterjectMade
    BY <1>6, InterjectSeen
  <1>7. CASE QueueVerb \/ DisarmSend
    BY <1>7, QueueVerbSeen, DisarmSendSeen
  <1>8. CASE CancelNext \/ CancelRefused
    BY <1>8, CancelSeen, CancelRefusedSeen
  <1>9. CASE GiveUp \/ GiveUpDrain
    BY <1>9, GiveUpSeen, GiveUpDrainSeen
  <1>10. CASE HostNext
    BY <1>10, FenceCloseSeen, ReleaseFenceSeen, SilentStep DEF HostNext, FenceVerdict
  <1>11. CASE CloseEngine \/ CloseSession
    BY <1>11, CloseEngineSeen, SilentStep DEF CloseSession
  <1>12. CASE UNCHANGED vars
    BY <1>12, SilentStep DEF vars
  <1> QED BY <1>1, <1>2, <1>3, <1>4, <1>5, <1>6, <1>7, <1>8, <1>9, <1>10, <1>11, <1>12 DEF Next

\* A client over a socket, which folds the engine's events and sees nothing else
\* of it, is never contradicted and shows the queue, the running turn and the
\* armed send the engine has: every section places each change once, and in an
\* order and at positions that foldQueue and foldTurn replay.
THEOREM ClientShowsEngine == Spec => []ClientSeesEngine
  <1>1. Seen => ClientSeesEngine
    BY DEF Seen, Shown, ClientSeesEngine
  <1>2. Spec => []Seen
    BY InitSeen, NextSeen, Keeping, PTL DEF Spec
  <1> QED BY <1>1, <1>2, PTL
=============================================================================
