---------------------------- MODULE EngineProofs ----------------------------
(***************************************************************************)
(* Type correctness of Engine, and its two safety properties about who     *)
(* holds the session's slot, for every value of the constants.             *)
(*                                                                         *)
(* The argument follows the code.  A section starts in a state where IInv  *)
(* holds; Raise puts the fence up (Inside); every operator a section is    *)
(* composed of keeps Inside and, while a cancel is on its way, the slot    *)
(* (Keeps); and the way out restores Covered, that the fence is up while a *)
(* turn is current, a cancel is held or the engine is closed (SyncSection, *)
(* LeaveState).  Between sections Covered keeps the session's wake out.    *)
(* The invariant is IInv; InitInv, NextInv and the theorems are at the end.*)
(*                                                                         *)
(* Record sections are handled field by field: a leaf proves that one      *)
(* record has its type, and the facts about its fields are then used with  *)
(* the record's definition hidden.                                         *)
(***************************************************************************)
EXTENDS Engine, TLAPS, SequenceTheorems

-----------------------------------------------------------------------------
(* The queue *)

LEMMA PositionInQueue ==
  ASSUME NEW q, NEW id, Has(q, id)
  PROVE  Position(q, id) \in DOMAIN q /\ q[Position(q, id)].id = id
  BY DEF Has, Position

LEMMA LookupType ==
  ASSUME NEW q \in Seq(Row), NEW id
  PROVE  Lookup(q, id) \in Row \cup {NoRow}
  BY PositionInQueue DEF Lookup

LEMMA HeadRowType ==
  ASSUME NEW q \in Seq(Row)
  PROVE  HeadRow(q) \in Row \cup {NoRow}
  BY DEF HeadRow

LEMMA TakeType ==
  ASSUME NEW q \in Seq(Row), NEW id
  PROVE  Take(q, id) \in Seq(Row)
  <1>1. CASE Has(q, id)
    <2> DEFINE i == Position(q, id)
    <2>1. i \in 1..Len(q)
      BY <1>1, PositionInQueue
    <2>2. SubSeq(q, 1, i - 1) \in Seq(Row) /\ SubSeq(q, i + 1, Len(q)) \in Seq(Row)
      BY <2>1
    <2> QED BY <1>1, <2>2 DEF Take, RemoveAt
  <1> QED BY <1>1 DEF Take

LEMMA EditType ==
  ASSUME NEW q \in Seq(Row), NEW id, Has(q, id)
  PROVE  Edit(q, id) \in Seq(Row)
  <1> DEFINE i == Position(q, id)
             edited == [id |-> id, ver |-> q[i].ver + 1]
  <1>1. i \in 1..Len(q) /\ q[i].id = id
    BY PositionInQueue
  <1>2. q[i] \in Row
    BY <1>1
  <1>3. edited \in Row
    BY <1>1, <1>2 DEF Row
  <1> HIDE DEF edited
  <1>4. [q EXCEPT ![i] = edited] \in Seq(Row)
    BY <1>1, <1>3, ExceptSeq
  <1> QED BY <1>4 DEF Edit, edited

LEMMA SteerRowsType ==
  ASSUME NEW seq \in Nat, NEW n \in Nat
  PROVE  SteerRows(seq, n) \in Seq(Row)
  <1>1. \A i \in 1..n : [id |-> seq + n + 1 - i, ver |-> 0] \in Row
    BY DEF Row
  <1>2. SteerRows(seq, n) \in [1..n -> Row]
    BY <1>1, Zenon DEF SteerRows
  <1> HIDE DEF SteerRows
  <1> QED BY <1>2, SeqDef

-----------------------------------------------------------------------------
(* What the sections ask of the session *)

LEMMA FenceUpType == ASSUME NEW s \in SesType PROVE FenceUp(s) \in SesType
  BY DEF FenceUp, SesType

LEMMA FenceDownType == ASSUME NEW s \in SesType PROVE FenceDown(s) \in SesType
  BY DEF FenceDown, SesType

LEMMA RacedType == ASSUME NEW s \in SesType PROVE Raced(s) \in SesType
  BY DEF Raced, WakeClaimed, SesType, AgentPhases

LEMMA WakeEndedType == ASSUME NEW s \in SesType PROVE WakeEnded(s) \in SesType
  BY DEF WakeEnded, SesType, AgentPhases

LEMMA BeginType ==
  ASSUME NEW s \in SesType, NEW t \in Nat \ {0}, NEW row \in Nat
  PROVE  Begin(s, t, row) \in SesType
  <1> DEFINE cont == [turn |-> t, row |-> row, phase |-> "claimed", res |-> "none", steers |-> 0]
             refused == [cont EXCEPT !.phase = "back", !.res = ClaimRefusal(s)]
  <1>1. cont \in Cont
    BY DEF Cont, Phases
  <1>2. ClaimRefusal(s) # "none" => refused \in Cont
    BY DEF Cont, Phases, ClaimRefusal, Results, Refusals
  <1>3. s.conts \in SUBSET Cont
    BY DEF SesType
  <1>4. CASE ClaimRefusal(s) = "none"
    <2>1. s.conts \cup {cont} \in SUBSET Cont
      BY <1>1, <1>3
    <2> QED BY <1>4, <2>1 DEF Begin, SesType
  <1>5. CASE ClaimRefusal(s) # "none"
    <2>1. s.conts \cup {refused} \in SUBSET Cont
      BY <1>2, <1>3, <1>5
    <2> QED BY <1>5, <2>1 DEF Begin, SesType
  <1> QED BY <1>4, <1>5

-----------------------------------------------------------------------------
(* Sections *)

Section(x) ==
  /\ DOMAIN x = {"e", "s", "log", "qev", "dis", "st"}
  /\ x.e \in EngType
  /\ x.s \in SesType

\* What the safety argument reads, but for the fence.
SameButFence(y, x) ==
  /\ y.s.slot = x.s.slot /\ y.s.conts = x.s.conts /\ y.s.agent = x.s.agent
  /\ y.e.closed = x.e.closed /\ y.e.holds = x.e.holds /\ y.e.turnSeq = x.e.turnSeq
  /\ y.e.cur.id = x.e.cur.id /\ y.e.cur.returned = x.e.cur.returned /\ y.e.cur.retry = x.e.cur.retry

Same(y, x) ==
  SameButFence(y, x) /\ y.s.fenced = x.s.fenced /\ y.e.fenced = x.e.fenced

LEMMA ForeignTurnBoolean == ASSUME NEW s PROVE ForeignTurn(s) \in BOOLEAN
  <1>1. CASE Native = TRUE
    BY <1>1 DEF ForeignTurn
  <1>2. CASE Native = FALSE
    BY <1>2 DEF ForeignTurn
  <1> QED BY <1>1, <1>2, SessionAssumption DEF SessionAssumption

LEMMA EnterSection == ASSUME eng \in EngType, ses \in SesType PROVE Section(Enter)
  BY DEF Section, Enter

LEMMA PlaceSection ==
  ASSUME NEW x, Section(x), NEW evs
  PROVE  Section(Place(x, evs)) /\ Place(x, evs).e = x.e /\ Place(x, evs).s = x.s
  <1> DEFINE log == x.log \o evs
  <1>1. Place(x, evs) = [x EXCEPT !.log = log, !.qev = <<>>, !.dis = <<>>, !.st = <<>>]
    BY DEF Place
  <1> HIDE DEF log
  <1> QED BY <1>1 DEF Section

LEMMA LookSection ==
  ASSUME NEW x, Section(x) PROVE Section(Look(x)) /\ Same(Look(x), x)
  <1> DEFINE e == [x.e EXCEPT !.sawForeign = @ \/ (Native /\ ForeignTurn(x.s))]
  <1>1. e \in EngType
    BY DEF Section, EngType, ForeignTurn
  <1>2. Section(Look(x)) /\ Look(x).e = e /\ Look(x).s = x.s
    BY <1>1 DEF Section, Look
  <1>3. x.e \in EngType
    BY DEF Section
  <1> QED BY <1>2, <1>3 DEF Same, SameButFence, EngType

LEMMA DisarmSection ==
  ASSUME NEW x, Section(x) PROVE Section(Disarm(x)) /\ Same(Disarm(x), x)
  <1> DEFINE e == [x.e EXCEPT !.armed = NoSend]
  <1>1. e \in EngType
    BY DEF Section, EngType, NoSend, Send
  <1>2. CASE x.e.armed # NoSend
    <2>1. Section(Disarm(x)) /\ Disarm(x).e = e /\ Disarm(x).s = x.s
      BY <1>1, <1>2 DEF Section, Disarm
    <2>2. x.e \in EngType
      BY DEF Section
    <2> QED BY <2>1, <2>2 DEF Same, SameButFence, EngType
  <1>3. CASE x.e.armed = NoSend
    BY <1>3 DEF Disarm, Same, SameButFence
  <1> QED BY <1>2, <1>3

LEMMA QueueSection ==
  ASSUME NEW x, Section(x), NEW q \in Seq(Row), NEW qev
  PROVE  /\ Section([x EXCEPT !.qev = qev, !.e.queue = q])
         /\ Same([x EXCEPT !.qev = qev, !.e.queue = q], x)
  <1> DEFINE e == [x.e EXCEPT !.queue = q]
             y == [x EXCEPT !.qev = qev, !.e.queue = q]
  <1>1. e \in EngType
    BY DEF Section, EngType
  <1>2. Section(y) /\ y.e = e /\ y.s = x.s
    BY <1>1 DEF Section
  <1>3. x.e \in EngType
    BY DEF Section
  <1> QED BY <1>2, <1>3 DEF Same, SameButFence, EngType

LEMMA SendRowSection ==
  ASSUME NEW x, Section(x), NEW id
  PROVE  Section(SendRow(x, id)) /\ Same(SendRow(x, id), x)
  <1> DEFINE qev == Append(x.qev, SentEvent(Lookup(x.e.queue, id), Position(x.e.queue, id) - 1))
             q == Take(x.e.queue, id)
  <1>1. q \in Seq(Row)
    BY TakeType DEF Section, EngType
  <1>2. SendRow(x, id) = [x EXCEPT !.qev = qev, !.e.queue = q]
    BY DEF SendRow
  <1> HIDE DEF qev, q
  <1>3. /\ Section([x EXCEPT !.qev = qev, !.e.queue = q])
        /\ Same([x EXCEPT !.qev = qev, !.e.queue = q], x)
    BY <1>1, QueueSection
  <1> QED BY <1>2, <1>3

LEMMA ClearQueueSection ==
  ASSUME NEW x, Section(x)
  PROVE  Section(ClearQueue(x)) /\ Same(ClearQueue(x), x)
  <1> DEFINE qev == x.qev \o ClearEvents(x.e.queue)
  <1>1. ClearQueue(x) = [x EXCEPT !.qev = qev, !.e.queue = <<>>]
    BY DEF ClearQueue
  <1>2. <<>> \in Seq(Row)
    OBVIOUS
  <1> HIDE DEF qev
  <1>3. /\ Section([x EXCEPT !.qev = qev, !.e.queue = <<>>])
        /\ Same([x EXCEPT !.qev = qev, !.e.queue = <<>>], x)
    BY <1>2, QueueSection
  <1> QED BY <1>1, <1>3

LEMMA PutBackSteersSection ==
  ASSUME NEW x, Section(x), NEW n \in Nat
  PROVE  Section(PutBackSteers(x, n)) /\ Same(PutBackSteers(x, n), x)
  <1> DEFINE rows == SteerRows(x.e.rowSeq, n)
             qev == x.qev \o [i \in 1..n |-> QueuedEvent(rows[n + 1 - i], 0)]
             q == rows \o x.e.queue
             seq == x.e.rowSeq + n
             y == [x EXCEPT !.qev = qev, !.e.queue = q, !.e.rowSeq = seq]
             e == [x.e EXCEPT !.queue = q, !.rowSeq = seq]
  <1>1. x.e \in EngType
    BY DEF Section
  <1>2. rows \in Seq(Row) /\ seq \in Nat
    <2>1. x.e.rowSeq \in Nat
      BY <1>1 DEF EngType
    <2>2. rows \in Seq(Row)
      BY <2>1, SteerRowsType, Zenon
    <2> QED BY <2>1, <2>2
  <1>3. q \in Seq(Row)
    BY <1>1, <1>2, ConcatProperties DEF EngType
  <1>4. PutBackSteers(x, n) = y
    BY DEF PutBackSteers
  <1> HIDE DEF rows, qev, q, seq
  <1>5. e \in EngType
    BY <1>1, <1>2, <1>3 DEF EngType
  <1>6. Section(y) /\ y.e = e /\ y.s = x.s
    BY <1>5 DEF Section
  <1>7. Same(y, x)
    <2> HIDE DEF y
    <2> QED BY <1>1, <1>6 DEF Same, SameButFence, EngType
  <1> QED BY <1>4, <1>6, <1>7

LEMMA AddRowSection ==
  ASSUME NEW x, Section(x)
  PROVE  Section(AddRow(x)) /\ Same(AddRow(x), x)
  <1> DEFINE row == [id |-> x.e.rowSeq + 1, ver |-> 0]
             log == Append(x.log, QueuedEvent(row, Len(x.e.queue)))
             q == Append(x.e.queue, row)
             seq == x.e.rowSeq + 1
             y == [x EXCEPT !.e.queue = q, !.e.rowSeq = seq, !.log = log]
             e == [x.e EXCEPT !.queue = q, !.rowSeq = seq]
  <1>1. x.e \in EngType
    BY DEF Section
  <1>2. row \in Row /\ seq \in Nat
    BY <1>1 DEF EngType, Row
  <1>3. q \in Seq(Row)
    BY <1>1, <1>2 DEF EngType
  <1>4. AddRow(x) = y
    BY DEF AddRow, Add
  <1> HIDE DEF row, log, q, seq
  <1>5. e \in EngType
    BY <1>1, <1>2, <1>3 DEF EngType
  <1>6. Section(y) /\ y.e = e /\ y.s = x.s
    BY <1>5 DEF Section
  <1>7. Same(y, x)
    <2> HIDE DEF y
    <2> QED BY <1>1, <1>6 DEF Same, SameButFence, EngType
  <1> QED BY <1>4, <1>6, <1>7

LEMMA LiftExitFenceSection ==
  ASSUME NEW x, Section(x)
  PROVE  Section(LiftExitFence(x)) /\ Same(LiftExitFence(x), x)
  <1> DEFINE y == [x EXCEPT !.e.exit = NoFence]
             e == [x.e EXCEPT !.exit = NoFence]
  <1>1. x.e \in EngType
    BY DEF Section
  <1>2. e \in EngType
    BY <1>1 DEF EngType, NoFence, ExitFence
  <1>3. Section(y) /\ y.e = e /\ y.s = x.s
    BY <1>2 DEF Section
  <1>4. LiftExitFence(x) = y \/ LiftExitFence(x) = x
    BY DEF LiftExitFence
  <1>5. Same(y, x) /\ Same(x, x)
    <2> HIDE DEF y
    <2> QED BY <1>1, <1>3 DEF Same, SameButFence, EngType
  <1> HIDE DEF y
  <1> QED BY <1>3, <1>4, <1>5

-----------------------------------------------------------------------------
(* The fence *)

\* The engine's record of the fence is the session's.
FencesAgree(x) == Native => x.e.fenced = x.s.fenced

LEMMA RaiseSection ==
  ASSUME NEW x, Section(x)
  PROVE  /\ Section(Raise(x)) /\ SameButFence(Raise(x), x)
         /\ Native => Raise(x).s.fenced = TRUE /\ Raise(x).e.fenced = TRUE
  <1> DEFINE y == [x EXCEPT !.e.fenced = TRUE, !.s = FenceUp(@)]
             e == [x.e EXCEPT !.fenced = TRUE]
             s == FenceUp(x.s)
  <1>1. x.e \in EngType /\ x.s \in SesType
    BY DEF Section
  <1>2. e \in EngType /\ e.fenced = TRUE
    BY <1>1 DEF EngType
  <1>3. s \in SesType /\ s.fenced = TRUE
    BY <1>1, FenceUpType DEF FenceUp, SesType
  <1>4. Section(y) /\ y.e = e /\ y.s = s
    BY <1>2, <1>3 DEF Section
  <1>5. SameButFence(y, x)
    <2> HIDE DEF y
    <2> QED BY <1>1, <1>4 DEF SameButFence, EngType, SesType, FenceUp
  <1>6. SameButFence(x, x)
    BY DEF SameButFence
  <1>7. Raise(x) = IF Native THEN y ELSE x
    BY DEF Raise
  <1> HIDE DEF y, e, s
  <1> QED BY <1>2, <1>3, <1>4, <1>5, <1>6, <1>7

LEMMA LowerSection ==
  ASSUME NEW x, Section(x)
  PROVE  /\ Section(Lower(x)) /\ SameButFence(Lower(x), x)
         /\ FencesAgree(x) => FencesAgree(Lower(x))
  <1> DEFINE y == [x EXCEPT !.e.fenced = FALSE, !.s = FenceDown(@)]
             e == [x.e EXCEPT !.fenced = FALSE]
             s == FenceDown(x.s)
  <1>1. x.e \in EngType /\ x.s \in SesType
    BY DEF Section
  <1>2. e \in EngType /\ e.fenced = FALSE
    BY <1>1 DEF EngType
  <1>3. s \in SesType /\ s.fenced = FALSE
    BY <1>1, FenceDownType DEF FenceDown, SesType
  <1>4. Section(y) /\ y.e = e /\ y.s = s
    BY <1>2, <1>3 DEF Section
  <1>5. SameButFence(y, x)
    <2> HIDE DEF y
    <2> QED BY <1>1, <1>4 DEF SameButFence, EngType, SesType, FenceDown
  <1>6. SameButFence(x, x)
    BY DEF SameButFence
  <1>7. Lower(x) = IF x.e.fenced THEN y ELSE x
    BY DEF Lower
  <1> HIDE DEF y, e, s
  <1> QED BY <1>2, <1>3, <1>4, <1>5, <1>6, <1>7 DEF FencesAgree

LEMMA SettleOwedDrainSection ==
  ASSUME NEW x, Section(x)
  PROVE  /\ Section(SettleOwedDrain(x)) /\ SameButFence(SettleOwedDrain(x), x)
         /\ FencesAgree(x) => FencesAgree(SettleOwedDrain(x))
  <1> DEFINE y == [x EXCEPT !.e.sawForeign = FALSE]
             e == [x.e EXCEPT !.sawForeign = FALSE]
             w(v, b) == [v EXCEPT !.e.drainOwed = b]
  <1>1. x.e \in EngType
    BY DEF Section
  <1>2. e \in EngType
    BY <1>1 DEF EngType
  <1>3. Section(y) /\ y.e = e /\ y.s = x.s
    BY <1>2 DEF Section
  <1>4. Same(y, x)
    <2> HIDE DEF y
    <2> QED BY <1>1, <1>3 DEF Same, SameButFence, EngType
  <1>5. ASSUME NEW v, Section(v), NEW b \in BOOLEAN
        PROVE  Section(w(v, b)) /\ Same(w(v, b), v)
    <2> DEFINE f == [v.e EXCEPT !.drainOwed = b]
    <2>1. v.e \in EngType
      BY <1>5 DEF Section
    <2>2. f \in EngType
      BY <1>5, <2>1 DEF EngType
    <2>3. Section(w(v, b)) /\ w(v, b).e = f /\ w(v, b).s = v.s
      BY <1>5, <2>2 DEF Section
    <2> HIDE DEF w
    <2> QED BY <2>1, <2>3 DEF Same, SameButFence, EngType
  <1>6. Section(Raise(y)) /\ SameButFence(Raise(y), y)
        /\ (Native => Raise(y).s.fenced = TRUE /\ Raise(y).e.fenced = TRUE)
    BY <1>3, RaiseSection
  <1>7. ForeignTurn(x.s) \in BOOLEAN
    BY ForeignTurnBoolean
  <1>8. SettleOwedDrain(x) \in {w(y, FALSE), y, w(y, TRUE), w(Raise(y), ForeignTurn(x.s))}
    BY DEF SettleOwedDrain
  <1> HIDE DEF y, e, w
  <1>9. CASE SettleOwedDrain(x) = y
    BY <1>3, <1>4, <1>9 DEF Same, FencesAgree
  <1>10. ASSUME NEW b \in BOOLEAN, SettleOwedDrain(x) = w(y, b)
         PROVE  /\ Section(SettleOwedDrain(x)) /\ SameButFence(SettleOwedDrain(x), x)
                /\ FencesAgree(x) => FencesAgree(SettleOwedDrain(x))
    BY <1>3, <1>4, <1>5, <1>10 DEF Same, SameButFence, FencesAgree
  <1>11. CASE SettleOwedDrain(x) = w(Raise(y), ForeignTurn(x.s))
    <2> DEFINE z == Raise(y)
    <2>1. Section(w(z, ForeignTurn(x.s))) /\ Same(w(z, ForeignTurn(x.s)), z)
      BY <1>5, <1>6, <1>7
    <2> HIDE DEF z
    <2> QED BY <1>4, <1>6, <1>11, <2>1 DEF Same, SameButFence, FencesAgree, z
  <1> QED BY <1>8, <1>9, <1>10, <1>11

LEMMA LookIfSection ==
  ASSUME NEW x, Section(x), NEW reads
  PROVE  Section(LookIf(x, reads)) /\ Same(LookIf(x, reads), x)
  BY LookSection DEF LookIf, Same, SameButFence

\* Out of a section the fence is up while a turn is current or a cancel is on
\* its way.
Covered(x) ==
  Native /\ (x.e.closed \/ x.e.cur.id # 0 \/ x.e.holds # {}) => x.s.fenced = TRUE

LEMMA SyncSection ==
  ASSUME NEW x, Section(x)
  PROVE  /\ Section(Sync(x)) /\ SameButFence(Sync(x), x)
         /\ FencesAgree(x) => FencesAgree(Sync(x)) /\ Covered(Sync(x))
  <1> DEFINE y == LiftExitFence(x)
             z == SettleOwedDrain(y)
  <1>1. Section(y) /\ Same(y, x)
    BY LiftExitFenceSection
  <1>2. Section(z) /\ SameButFence(z, y) /\ (FencesAgree(y) => FencesAgree(z))
    BY <1>1, SettleOwedDrainSection
  <1>3. /\ Section(Raise(z)) /\ SameButFence(Raise(z), z)
        /\ Native => Raise(z).s.fenced = TRUE /\ Raise(z).e.fenced = TRUE
    BY <1>2, RaiseSection
  <1>4. /\ Section(Lower(z)) /\ SameButFence(Lower(z), z)
        /\ FencesAgree(z) => FencesAgree(Lower(z))
    BY <1>2, LowerSection
  <1>5. Sync(x) = IF ~Native THEN y ELSE IF FenceWant(z.e) THEN Raise(z) ELSE Lower(z)
    BY DEF Sync
  <1>6. (z.e.closed \/ z.e.cur.id # 0 \/ z.e.holds # {}) => FenceWant(z.e)
    BY DEF FenceWant
  <1> DEFINE u == Raise(z)
             l == Lower(z)
  <1> HIDE DEF y, z, u, l
  <1>7. CASE ~Native
    BY <1>1, <1>5, <1>7 DEF Same, FencesAgree, Covered
  <1>8. CASE Native /\ FenceWant(z.e)
    BY <1>1, <1>2, <1>3, <1>5, <1>8 DEF Same, SameButFence, FencesAgree, Covered, u
  <1>9. CASE Native /\ ~FenceWant(z.e)
    BY <1>1, <1>2, <1>4, <1>5, <1>6, <1>9 DEF Same, SameButFence, FencesAgree, Covered, l
  <1> QED BY <1>7, <1>8, <1>9

-----------------------------------------------------------------------------
(* The invariant of a section *)

\* A continuation's claim: it is of a turn the engine made, one per turn, its
\* claim is gone when its result is back, and it was not a claim in vain.
ContinuationOK(x, c) ==
  /\ c.turn <= x.e.turnSeq
  /\ c.phase = "back" => c.turn # x.s.slot
  /\ c.res # "inflight"
  /\ Native /\ ~RetryForeignTurn => c.res # "foreign"

Safe(x) ==
  /\ FencesAgree(x)
  /\ x.e.cur.id <= x.e.turnSeq
  /\ ~x.e.closed => x.s.slot \in {0, x.e.cur.id}
  /\ \A c \in x.s.conts : ContinuationOK(x, c)
  /\ \A c, d \in x.s.conts : c.turn = d.turn => c = d
  /\ x.e.cur.returned => x.s.slot # x.e.cur.id /\ \A c \in x.s.conts : c.turn # x.e.cur.id
  /\ x.e.cur.returned => x.e.cur.id # 0
  /\ x.e.cur.retry => x.e.cur.returned
  /\ Native /\ ~RetryForeignTurn /\ ~x.e.closed /\ x.e.cur.id # 0 => ~Wake(x.s)

LEMMA SafeSame ==
  ASSUME NEW x, NEW y, Safe(x), SameButFence(y, x), FencesAgree(y)
  PROVE  Safe(y)
  BY DEF Safe, SameButFence, ContinuationOK, Wake

LEMMA SameAgrees ==
  ASSUME NEW x, NEW y, FencesAgree(x), Same(y, x)
  PROVE  FencesAgree(y) /\ SameButFence(y, x)
  BY DEF Same, FencesAgree

\* A claim with the slot free: granted, or refused by a wake.
LEMMA BeginEffect ==
  ASSUME NEW s \in SesType, NEW t \in Nat \ {0}, NEW row \in Nat, s.slot = 0
  PROVE  /\ Begin(s, t, row).agent = s.agent
         /\ Begin(s, t, row).fenced = s.fenced
         /\ \E c : /\ Begin(s, t, row).conts = s.conts \cup {c}
                   /\ c.turn = t
                   /\ \/ c.phase = "claimed" /\ c.res = "none" /\ Begin(s, t, row).slot = t
                      \/ c.phase = "back" /\ c.res = "foreign" /\ Begin(s, t, row).slot = 0 /\ Wake(s)
  <1> DEFINE cont == [turn |-> t, row |-> row, phase |-> "claimed", res |-> "none", steers |-> 0]
             refused == [cont EXCEPT !.phase = "back", !.res = "foreign"]
  <1>1. CASE Wake(s)
    <2>1. Begin(s, t, row) = [s EXCEPT !.conts = @ \cup {refused}]
      BY <1>1 DEF Begin, ClaimRefusal
    <2>2. refused.turn = t /\ refused.phase = "back" /\ refused.res = "foreign"
      OBVIOUS
    <2> HIDE DEF refused
    <2> QED BY <1>1, <2>1, <2>2 DEF SesType
  <1>2. CASE ~Wake(s)
    <2>1. Begin(s, t, row) = [s EXCEPT !.slot = t, !.cancelling = FALSE, !.conts = @ \cup {cont}]
      BY <1>2 DEF Begin, ClaimRefusal
    <2>2. cont.turn = t /\ cont.phase = "claimed" /\ cont.res = "none"
      OBVIOUS
    <2> HIDE DEF cont
    <2> QED BY <2>1, <2>2 DEF SesType
  <1> QED BY <1>1, <1>2

\* With the fence up no wake claims between a section's read and its Begin.
LEMMA NotRaced ==
  ASSUME NEW s, Native => s.fenced = TRUE
  PROVE  Raced(s) = s
  BY DEF Raced, WakeReady

\* May a claim be made: the engine is free, the fence is up, and the flag was
\* read clear unless the policy is to wait a refusal out.
MayClaim(x) ==
  /\ x.e.cur.id = 0 /\ ~x.e.closed /\ x.e.holds = {}
  /\ Native => x.s.fenced = TRUE
  /\ RetryForeignTurn \/ ~ForeignTurn(x.s)

\* What a claim makes of a section, as far as the argument reads.
Claimed(y, x, row) ==
  /\ y.s = Begin(Raced(x.s), x.e.turnSeq + 1, row.id)
  /\ y.e.turnSeq = x.e.turnSeq + 1 /\ y.e.cur.id = x.e.turnSeq + 1
  /\ y.e.cur.returned = FALSE /\ y.e.cur.retry = FALSE
  /\ y.e.closed = x.e.closed /\ y.e.holds = x.e.holds /\ y.e.fenced = x.e.fenced

LEMMA ClaimSection ==
  ASSUME NEW x, Section(x), NEW row \in Row \cup {NoRow}, NEW origin
  PROVE  Section(Claim(x, row, origin)) /\ Claimed(Claim(x, row, origin), x, row)
  <1> DEFINE id == x.e.turnSeq + 1
             s == Begin(Raced(x.s), id, row.id)
             fencedRow == x.e.exit.up /\ x.e.exit.turn = 0 /\ row # NoRow /\ row.id = x.e.exit.row
             cur == [NoTurn EXCEPT !.id = id, !.row = row]
             exit == IF fencedRow THEN [x.e.exit EXCEPT !.turn = id] ELSE x.e.exit
             st == Append(x.st, StartedEvent(id, origin))
             e == [x.e EXCEPT !.turnSeq = id, !.cur = cur, !.activity = "working", !.exit = exit]
  <1>1. x.e \in EngType /\ x.s \in SesType
    BY DEF Section
  <1>2. id \in Nat \ {0} /\ x.e.exit \in ExitFence
    BY <1>1 DEF EngType
  <1>3. row.id \in Nat
    BY DEF Row, NoRow
  <1>4. s \in SesType
    BY <1>1, <1>2, <1>3, RacedType, BeginType
  <1>5. cur \in Turn
    BY <1>2 DEF NoTurn, Turn
  <1>6. exit \in ExitFence
    BY <1>2 DEF ExitFence
  <1>7. Claim(x, row, origin) =
          [x EXCEPT !.s = s, !.e.turnSeq = id, !.e.cur = cur, !.e.activity = "working",
                    !.e.exit = exit, !.st = st]
    BY DEF Claim
  <1>8. cur.id = id /\ cur.returned = FALSE /\ cur.retry = FALSE
    BY DEF NoTurn
  <1> HIDE DEF id, s, cur, exit, st
  <1>9. e \in EngType
    BY <1>1, <1>2, <1>5, <1>6 DEF EngType, Activities
  <1> DEFINE y == Claim(x, row, origin)
  <1>10. Section(y) /\ y.e = e /\ y.s = s
    BY <1>4, <1>7, <1>9 DEF Section
  <1>11. /\ e.turnSeq = id /\ e.cur = cur
         /\ e.closed = x.e.closed /\ e.holds = x.e.holds /\ e.fenced = x.e.fenced
    BY <1>1 DEF EngType
  <1> HIDE DEF y, e
  <1> QED BY <1>8, <1>10, <1>11 DEF y, id, s, Claimed

LEMMA ClaimSafe ==
  ASSUME NEW x, Section(x), Safe(x), MayClaim(x), NEW row \in Row \cup {NoRow}, NEW y,
         Claimed(y, x, row)
  PROVE  Safe(y)
  <1> DEFINE id == x.e.turnSeq + 1
  <1>1. x.e \in EngType /\ x.s \in SesType /\ x.e.turnSeq \in Nat /\ x.s.conts \in SUBSET Cont
    BY DEF Section, EngType, SesType
  <1>2. id \in Nat \ {0} /\ row.id \in Nat
    BY <1>1 DEF Row, NoRow
  <1>3. x.s.slot = 0
    BY DEF Safe, MayClaim
  <1>4. Raced(x.s) = x.s
    BY NotRaced DEF MayClaim
  <1>5. /\ y.s = Begin(x.s, id, row.id)
        /\ y.e.turnSeq = id /\ y.e.cur.id = id
        /\ y.e.cur.returned = FALSE /\ y.e.cur.retry = FALSE
        /\ y.e.closed = x.e.closed /\ y.e.fenced = x.e.fenced
    BY <1>4 DEF Claimed
  <1>6. PICK c : /\ y.s.agent = x.s.agent /\ y.s.fenced = x.s.fenced
                 /\ y.s.conts = x.s.conts \cup {c}
                 /\ c.turn = id
                 /\ \/ c.phase = "claimed" /\ c.res = "none" /\ y.s.slot = id
                    \/ c.phase = "back" /\ c.res = "foreign" /\ y.s.slot = 0 /\ Wake(x.s)
    BY <1>1, <1>2, <1>3, <1>5, BeginEffect
  <1>7. Native /\ ~RetryForeignTurn => ~Wake(x.s)
    BY DEF MayClaim, ForeignTurn, Wake
  <1>8. \A d \in x.s.conts : d.turn \in Nat /\ d.turn # 0 /\ d.turn <= x.e.turnSeq
    BY <1>1 DEF Safe, ContinuationOK, Cont
  <1>9. FencesAgree(y)
    BY <1>5, <1>6 DEF Safe, FencesAgree
  <1>10. ASSUME NEW d \in y.s.conts
         PROVE  ContinuationOK(y, d)
    <2>1. CASE d = c
      BY <1>1, <1>2, <1>5, <1>6, <1>7, <2>1 DEF ContinuationOK
    <2>2. CASE d \in x.s.conts
      BY <1>1, <1>2, <1>3, <1>5, <1>6, <1>8, <2>2 DEF Safe, ContinuationOK
    <2> QED BY <1>6, <2>1, <2>2
  <1>11. \A d, f \in y.s.conts : d.turn = f.turn => d = f
    BY <1>1, <1>6, <1>8 DEF Safe
  <1>12. Native /\ ~RetryForeignTurn => ~Wake(y.s)
    BY <1>6, <1>7 DEF Wake
  <1>13. y.e.cur.id <= y.e.turnSeq /\ y.s.slot \in {0, y.e.cur.id}
    BY <1>1, <1>2, <1>5, <1>6
  <1> HIDE DEF id
  <1> QED BY <1>5, <1>9, <1>10, <1>11, <1>12, <1>13 DEF Safe

-----------------------------------------------------------------------------
(* Inside a section: the fence is up *)

Inside(x) == Section(x) /\ Safe(x) /\ (Native => x.s.fenced = TRUE)

\* What every part of a section keeps: while a cancel is on its way nothing
\* takes the slot.
Keeps(y, x) ==
  /\ y.e.closed = x.e.closed /\ y.e.holds = x.e.holds
  /\ y.s.agent = x.s.agent
  /\ x.e.holds # {} => y.s.slot = x.s.slot

LEMMA KeepsTransitive ==
  ASSUME NEW x, NEW y, NEW z, Keeps(y, x), Keeps(z, y)
  PROVE  Keeps(z, x)
  BY DEF Keeps

LEMMA InsideSame ==
  ASSUME NEW x, NEW y, Inside(x), Section(y), Same(y, x)
  PROVE  Inside(y) /\ Keeps(y, x) /\ (MayClaim(x) => MayClaim(y))
  <1>1. FencesAgree(y) /\ SameButFence(y, x)
    BY SameAgrees DEF Inside, Safe
  <1>2. Safe(y)
    BY <1>1, SafeSame DEF Inside
  <1> QED BY <1>1, <1>2 DEF Inside, Same, SameButFence, Keeps, MayClaim, ForeignTurn

LEMMA ClaimInside ==
  ASSUME NEW x, Inside(x), MayClaim(x), NEW row \in Row \cup {NoRow}, NEW origin
  PROVE  Inside(Claim(x, row, origin)) /\ Keeps(Claim(x, row, origin), x)
  <1> DEFINE y == Claim(x, row, origin)
  <1>1. Section(y) /\ Claimed(y, x, row)
    BY ClaimSection DEF Inside
  <1> HIDE DEF y
  <1>2. Safe(y)
    BY <1>1, ClaimSafe DEF Inside
  <1>3. x.s \in SesType /\ x.e.turnSeq + 1 \in Nat \ {0} /\ row.id \in Nat /\ x.s.slot = 0
    BY DEF Inside, Section, EngType, Row, NoRow, Safe, MayClaim
  <1>4. Raced(x.s) = x.s
    BY NotRaced DEF MayClaim
  <1>5. y.s.agent = x.s.agent /\ y.s.fenced = x.s.fenced
    BY <1>1, <1>3, <1>4, BeginEffect DEF Claimed
  <1> QED BY <1>1, <1>2, <1>5 DEF Inside, Keeps, Claimed, MayClaim, y

LEMMA DisarmInside ==
  ASSUME NEW x, Inside(x)
  PROVE  Inside(Disarm(x)) /\ Keeps(Disarm(x), x) /\ (MayClaim(x) => MayClaim(Disarm(x)))
  BY DisarmSection, InsideSame DEF Inside

LEMMA SendRowInside ==
  ASSUME NEW x, Inside(x), NEW id
  PROVE  Inside(SendRow(x, id)) /\ Keeps(SendRow(x, id), x)
  BY SendRowSection, InsideSame DEF Inside

LEMMA ClearQueueInside ==
  ASSUME NEW x, Inside(x)
  PROVE  Inside(ClearQueue(x)) /\ Keeps(ClearQueue(x), x)
  BY ClearQueueSection, InsideSame DEF Inside

LEMMA PlaceInside ==
  ASSUME NEW x, Inside(x), NEW evs
  PROVE  Inside(Place(x, evs)) /\ Keeps(Place(x, evs), x)
  <1>1. Section(Place(x, evs)) /\ Place(x, evs).e = x.e /\ Place(x, evs).s = x.s
    BY PlaceSection DEF Inside
  <1>2. Same(Place(x, evs), x)
    BY <1>1 DEF Same, SameButFence
  <1> QED BY <1>1, <1>2, InsideSame

LEMMA LookIfInside ==
  ASSUME NEW x, Inside(x), NEW reads
  PROVE  Inside(LookIf(x, reads)) /\ Keeps(LookIf(x, reads), x)
  BY LookIfSection, InsideSame DEF Inside

LEMMA FireArmedInside ==
  ASSUME NEW x, Inside(x), MayClaim(x)
  PROVE  Inside(FireArmed(x)) /\ Keeps(FireArmed(x), x)
  <1> DEFINE from == x.e.armed.from
             w == [x EXCEPT !.e.armed = NoSend]
             e == [x.e EXCEPT !.armed = NoSend]
             row == Lookup(x.e.queue, from)
             y == Claim(w, row, "send_now")
  <1>1. x.e \in EngType
    BY DEF Inside, Section
  <1>2. e \in EngType
    BY <1>1 DEF EngType, NoSend, Send
  <1>3. Section(w) /\ w.e = e /\ w.s = x.s
    BY <1>2 DEF Inside, Section
  <1>4. Same(w, x)
    <2> HIDE DEF w
    <2> QED BY <1>1, <1>3 DEF Same, SameButFence, EngType
  <1>5. Inside(w) /\ Keeps(w, x) /\ MayClaim(w)
    <2> HIDE DEF w
    <2> QED BY <1>3, <1>4, InsideSame
  <1>6. row \in Row \cup {NoRow}
    <2>1. x.e.queue \in Seq(Row)
      BY <1>1 DEF EngType
    <2> QED BY <2>1, LookupType
  <1>7. Inside(y) /\ Keeps(y, w)
    <2> HIDE DEF w, row
    <2> QED BY <1>5, <1>6, ClaimInside
  <1>8. FireArmed(x) = IF from = 0 THEN y ELSE SendRow(y, from)
    BY DEF FireArmed
  <1> HIDE DEF w, y, from
  <1>9. Keeps(y, x)
    BY <1>5, <1>7, KeepsTransitive
  <1>10. Inside(SendRow(y, from)) /\ Keeps(SendRow(y, from), x)
    BY <1>7, <1>9, SendRowInside, KeepsTransitive
  <1> QED BY <1>7, <1>8, <1>9, <1>10

LEMMA DrainHeadInside ==
  ASSUME NEW x, Inside(x), MayClaim(x)
  PROVE  Inside(DrainHead(x)) /\ Keeps(DrainHead(x), x)
  <1> DEFINE row == HeadRow(x.e.queue)
             y == Claim(x, row, "drain")
  <1>1. row \in Row \cup {NoRow}
    <2>1. x.e.queue \in Seq(Row)
      BY DEF Inside, Section, EngType
    <2> QED BY <2>1, HeadRowType
  <1>2. DrainHead(x) = SendRow(y, row.id)
    BY DEF DrainHead
  <1> HIDE DEF row
  <1>3. Inside(y) /\ Keeps(y, x)
    BY <1>1, ClaimInside
  <1> HIDE DEF y
  <1> QED BY <1>2, <1>3, SendRowInside, KeepsTransitive

-----------------------------------------------------------------------------
(* The successor, and the settlement *)

LEMMA SuccessorInside ==
  ASSUME NEW x, Inside(x), NEW mayRun
  PROVE  Inside(Successor(x, mayRun)) /\ Keeps(Successor(x, mayRun), x)
  <1> DEFINE y == LookIf(x, x.e.activity = "idle" /\ Free(x.e))
             z == IF ArmedRowGone(y.e) THEN Disarm(y) ELSE y
             w == [y EXCEPT !.e.passHeld = @ \/ y.e.closeFences # {}]
             e == [y.e EXCEPT !.passHeld = @ \/ y.e.closeFences # {}]
  <1>1. Inside(y) /\ Keeps(y, x)
    BY LookIfInside
  <1>2. Inside(w) /\ Keeps(w, x)
    <2> HIDE DEF y
    <2>1. y.e \in EngType
      BY <1>1 DEF Inside, Section
    <2>2. e \in EngType
      BY <2>1 DEF EngType
    <2>3. Section(w) /\ w.e = e /\ w.s = y.s
      BY <1>1, <2>2 DEF Inside, Section
    <2> HIDE DEF w
    <2>4. Same(w, y)
      BY <2>1, <2>3 DEF Same, SameButFence, EngType
    <2> QED BY <1>1, <2>3, <2>4, InsideSame, KeepsTransitive
  <1>3. CanStart(y) => MayClaim(y)
    BY <1>1 DEF CanStart, Free, Refuses, MayClaim, Inside
  <1>4. Successor(x, mayRun) =
          IF y.e.activity # "idle" \/ ~CanStart(y) THEN w
          ELSE IF z.e.armed # NoSend THEN FireArmed(z)
          ELSE IF mayRun /\ z.e.queue # <<>> THEN DrainHead(z)
          ELSE z
    BY DEF Successor
  <1> HIDE DEF y, w
  <1>5. Inside(z) /\ Keeps(z, x) /\ (CanStart(y) => MayClaim(z))
    BY <1>1, <1>3, DisarmInside, KeepsTransitive
  <1> HIDE DEF z
  <1>6. CASE y.e.activity # "idle" \/ ~CanStart(y)
    BY <1>2, <1>4, <1>6
  <1>7. CASE CanStart(y)
    <2>1. Inside(FireArmed(z)) /\ Keeps(FireArmed(z), x)
      BY <1>5, <1>7, FireArmedInside, KeepsTransitive
    <2>2. Inside(DrainHead(z)) /\ Keeps(DrainHead(z), x)
      BY <1>5, <1>7, DrainHeadInside, KeepsTransitive
    <2> QED BY <1>2, <1>4, <1>5, <2>1, <2>2
  <1> QED BY <1>6, <1>7

LEMMA DrainInside ==
  ASSUME NEW x, Inside(x)
  PROVE  Inside(Drain(x)) /\ Keeps(Drain(x), x)
  <1> DEFINE y == Successor(x, TRUE)
             evs == y.dis \o y.qev \o y.st
  <1>1. Inside(y) /\ Keeps(y, x)
    BY SuccessorInside
  <1>2. Drain(x) = Place(y, evs)
    BY DEF Drain
  <1> HIDE DEF y, evs
  <1> QED BY <1>1, <1>2, PlaceInside, KeepsTransitive

\* The current turn goes: its continuation is back, so nothing holds the slot.
LEMMA TurnGoes ==
  ASSUME NEW x, Inside(x), x.e.cur.returned, ~x.e.closed,
         NEW y, Section(y), y.s = x.s, y.e.cur = NoTurn,
         y.e.closed = x.e.closed, y.e.holds = x.e.holds, y.e.turnSeq = x.e.turnSeq,
         y.e.fenced = x.e.fenced
  PROVE  Inside(y) /\ Keeps(y, x)
  <1>1. NoTurn.id = 0 /\ NoTurn.returned = FALSE /\ NoTurn.retry = FALSE
    BY DEF NoTurn
  <1>2. x.s.slot = 0
    BY DEF Inside, Safe
  <1>3. y.e.turnSeq \in Nat
    BY DEF Section, EngType
  <1>4. FencesAgree(y)
    BY DEF Inside, Safe, FencesAgree
  <1>5. \A c \in y.s.conts : ContinuationOK(y, c)
    BY DEF Inside, Safe, ContinuationOK
  <1>6. Safe(y)
    BY <1>1, <1>2, <1>3, <1>4, <1>5 DEF Safe, Inside
  <1> QED BY <1>6 DEF Inside, Keeps

LEMMA RestoreTurnInside ==
  ASSUME NEW x, Inside(x), x.e.cur.returned, ~x.e.closed, NEW t \in Turn, t.row # NoRow
  PROVE  Inside(RestoreTurn(x, t)) /\ Keeps(RestoreTurn(x, t), x)
  <1> DEFINE q == Restore(x.e.queue, t.row)
             qev == Append(x.qev, QueuedEvent(t.row, 0))
             exit == IF x.e.exit.up /\ x.e.exit.turn = t.id THEN [x.e.exit EXCEPT !.turn = 0] ELSE x.e.exit
             y == [x EXCEPT !.e.queue = q, !.qev = qev, !.e.exit = exit,
                            !.e.cur = NoTurn, !.e.activity = "idle",
                            !.e.recheck = TRUE, !.e.rearm = TRUE]
             e == [x.e EXCEPT !.queue = q, !.exit = exit, !.cur = NoTurn, !.activity = "idle",
                              !.recheck = TRUE, !.rearm = TRUE]
             z == IF y.e.armed.turn # t.id THEN Disarm(y) ELSE y
             evs == z.qev \o <<EndedEvent(t.id, 0, Len(z.e.queue))>> \o z.dis
  <1>1. x.e \in EngType /\ x.e.queue \in Seq(Row) /\ x.e.exit \in ExitFence
    BY DEF Inside, Section, EngType
  <1>2. t.row \in Row
    BY DEF Turn
  <1>3. q \in Seq(Row)
    BY <1>1, <1>2 DEF Restore
  <1>4. exit \in ExitFence
    BY <1>1 DEF ExitFence
  <1>5. NoTurn \in Turn
    BY DEF NoTurn, Turn
  <1>6. RestoreTurn(x, t) = Place(z, evs)
    BY DEF RestoreTurn
  <1> HIDE DEF q, qev, exit
  <1>7. e \in EngType
    BY <1>1, <1>3, <1>4, <1>5 DEF EngType, Activities
  <1>8. Section(y) /\ y.e = e /\ y.s = x.s
    BY <1>7 DEF Inside, Section
  <1>9. /\ e.cur = NoTurn /\ e.closed = x.e.closed /\ e.holds = x.e.holds
        /\ e.turnSeq = x.e.turnSeq /\ e.fenced = x.e.fenced
    BY <1>1 DEF EngType
  <1> HIDE DEF y, e
  <1>10. Inside(y) /\ Keeps(y, x)
    BY <1>8, <1>9, TurnGoes
  <1>11. Inside(z) /\ Keeps(z, x)
    BY <1>10, DisarmInside, KeepsTransitive
  <1> HIDE DEF z, evs
  <1> QED BY <1>6, <1>11, PlaceInside, KeepsTransitive

LEMMA EndTheTurnInside ==
  ASSUME NEW x, Inside(x), x.e.cur.returned, ~x.e.closed, NEW t
  PROVE  Inside(EndTheTurn(x, t)) /\ Keeps(EndTheTurn(x, t), x)
  <1> DEFINE exit == IF EndsExitFence(x.e, t) THEN [x.e.exit EXCEPT !.ended = TRUE] ELSE x.e.exit
             activity == IF Failed(t) THEN "error" ELSE "idle"
             y == [x EXCEPT !.e.exit = exit, !.e.cur = NoTurn, !.e.activity = activity]
             e == [x.e EXCEPT !.exit = exit, !.cur = NoTurn, !.activity = activity]
  <1>1. x.e \in EngType /\ x.e.exit \in ExitFence
    BY DEF Inside, Section, EngType
  <1>2. EndTheTurn(x, t) = y
    BY DEF EndTheTurn
  <1>3. exit \in ExitFence
    BY <1>1 DEF ExitFence
  <1>4. activity \in Activities
    BY DEF Activities
  <1>5. NoTurn \in Turn
    BY DEF NoTurn, Turn
  <1> HIDE DEF exit, activity
  <1>6. e \in EngType
    BY <1>1, <1>3, <1>4, <1>5 DEF EngType
  <1>7. Section(y) /\ y.e = e /\ y.s = x.s
    BY <1>6 DEF Inside, Section
  <1>8. /\ e.cur = NoTurn /\ e.closed = x.e.closed /\ e.holds = x.e.holds
        /\ e.turnSeq = x.e.turnSeq /\ e.fenced = x.e.fenced
    BY <1>1 DEF EngType
  <1> HIDE DEF y, e
  <1>9. Inside(y) /\ Keeps(y, x)
    BY <1>7, <1>8, TurnGoes
  <1> QED BY <1>2, <1>9

LEMMA FinishTurnInside ==
  ASSUME NEW x, Inside(x), x.e.cur.returned, ~x.e.closed, NEW t
  PROVE  Inside(FinishTurn(x, t)) /\ Keeps(FinishTurn(x, t), x)
  <1> DEFINE clears == Clears(x.e, t)
             y == EndTheTurn(x, t)
             z == IF Failed(t) \/ y.e.armed.turn # t.id THEN Disarm(y) ELSE y
             next == Successor(z, ~clears)
             done == IF clears THEN ClearQueue(next) ELSE next
             evs == done.qev \o <<EndedEvent(t.id, done.e.cur.id, Len(done.e.queue))>>
                      \o done.dis \o done.st
  <1>1. FinishTurn(x, t) = Place(done, evs)
    BY DEF FinishTurn
  <1>2. Inside(y) /\ Keeps(y, x)
    BY EndTheTurnInside
  <1> HIDE DEF y
  <1>3. Inside(z) /\ Keeps(z, x)
    BY <1>2, DisarmInside, KeepsTransitive
  <1> HIDE DEF z
  <1>4. Inside(next) /\ Keeps(next, x)
    BY <1>3, SuccessorInside, KeepsTransitive
  <1> HIDE DEF next
  <1>5. Inside(done) /\ Keeps(done, x)
    BY <1>4, ClearQueueInside, KeepsTransitive
  <1> HIDE DEF done, evs
  <1> QED BY <1>1, <1>5, PlaceInside, KeepsTransitive

\* The current turn is changed and stays the current one.
LEMMA TurnChanges ==
  ASSUME NEW x, Inside(x), NEW y, Section(y), y.s = x.s,
         y.e.cur.id = x.e.cur.id, y.e.cur.returned = x.e.cur.returned,
         y.e.cur.retry => y.e.cur.returned,
         y.e.closed = x.e.closed, y.e.holds = x.e.holds, y.e.turnSeq = x.e.turnSeq,
         y.e.fenced = x.e.fenced
  PROVE  Inside(y) /\ Keeps(y, x)
  <1>1. FencesAgree(y)
    BY DEF Inside, Safe, FencesAgree
  <1>2. \A c \in y.s.conts : ContinuationOK(y, c)
    BY DEF Inside, Safe, ContinuationOK
  <1>3. Safe(y)
    BY <1>1, <1>2 DEF Inside, Safe
  <1> QED BY <1>3 DEF Inside, Keeps

LEMMA PutBackSteersInside ==
  ASSUME NEW x, Inside(x), NEW n \in Nat
  PROVE  /\ Inside(PutBackSteers(x, n)) /\ Keeps(PutBackSteers(x, n), x)
         /\ PutBackSteers(x, n).e.cur.returned = x.e.cur.returned
  <1>1. Section(PutBackSteers(x, n)) /\ Same(PutBackSteers(x, n), x)
    BY PutBackSteersSection DEF Inside
  <1>2. Inside(PutBackSteers(x, n)) /\ Keeps(PutBackSteers(x, n), x)
    BY <1>1, InsideSame
  <1> QED BY <1>1, <1>2 DEF Same, SameButFence

LEMMA SettleInside ==
  ASSUME NEW x, Inside(x), x.e.cur.returned, ~x.e.closed
  PROVE  Inside(Settle(x)) /\ Keeps(Settle(x), x)
  <1> DEFINE t == x.e.cur
             y == PutBackSteers(x, t.unanswered)
             waiting == [t EXCEPT !.retry = TRUE]
             w == [x EXCEPT !.e.cur = waiting, !.e.kick = TRUE]
  <1>1. t \in Turn /\ t.unanswered \in Nat
    BY DEF Inside, Section, EngType, Turn
  <1>2. waiting \in Turn /\ waiting.id = t.id /\ waiting.returned = t.returned
    BY <1>1 DEF Turn
  <1>3. Inside(y) /\ Keeps(y, x) /\ y.e.cur.returned /\ ~y.e.closed
    BY <1>1, PutBackSteersInside DEF Keeps
  <1>4. Inside(w) /\ Keeps(w, x)
    <2> DEFINE e == [x.e EXCEPT !.cur = waiting, !.kick = TRUE]
    <2> HIDE DEF waiting
    <2>1. x.e \in EngType
      BY DEF Inside, Section
    <2>2. e \in EngType
      BY <1>2, <2>1 DEF EngType
    <2>3. Section(w) /\ w.e = e /\ w.s = x.s
      BY <2>2 DEF Inside, Section
    <2>4. /\ e.cur = waiting /\ e.closed = x.e.closed /\ e.holds = x.e.holds
          /\ e.turnSeq = x.e.turnSeq /\ e.fenced = x.e.fenced
      BY <2>1 DEF EngType
    <2> HIDE DEF w, e
    <2> QED BY <1>2, <2>3, <2>4, TurnChanges
  <1>5. Settle(x) = IF RetryForeignTurn /\ ~x.e.stopped /\ ~t.givenUp /\ t.res = "foreign" THEN w
                    ELSE IF Restores(x.e, t) THEN RestoreTurn(y, t) ELSE FinishTurn(y, t)
    BY DEF Settle
  <1>6. Restores(x.e, t) => t.row # NoRow
    BY DEF Restores, RowRefused
  <1> HIDE DEF t, y, w
  <1>7. Restores(x.e, t) => Inside(RestoreTurn(y, t)) /\ Keeps(RestoreTurn(y, t), x)
    BY <1>1, <1>3, <1>6, RestoreTurnInside, KeepsTransitive
  <1>8. Inside(FinishTurn(y, t)) /\ Keeps(FinishTurn(y, t), x)
    BY <1>1, <1>3, FinishTurnInside, KeepsTransitive
  <1> QED BY <1>4, <1>5, <1>7, <1>8

\* The claim of a waiting turn is taken again.
LEMMA ReclaimInside ==
  ASSUME NEW x, Inside(x), x.e.cur.retry, ~x.e.closed, x.e.holds = {},
         RetryForeignTurn \/ ~ForeignTurn(x.s),
         NEW y, Section(y), NEW row \in Nat, y.s = Begin(Raced(x.s), x.e.cur.id, row),
         y.e.cur.id = x.e.cur.id, y.e.cur.returned = FALSE, y.e.cur.retry = FALSE,
         y.e.closed = x.e.closed, y.e.holds = x.e.holds, y.e.turnSeq = x.e.turnSeq,
         y.e.fenced = x.e.fenced
  PROVE  Inside(y) /\ Keeps(y, x)
  <1> DEFINE id == x.e.cur.id
  <1>1. x.s \in SesType /\ id \in Nat
    BY DEF Inside, Section, EngType, Turn
  <1>2. x.s.slot = 0 /\ id # 0 /\ \A d \in x.s.conts : d.turn # id
    BY DEF Inside, Safe
  <1>3. Raced(x.s) = x.s
    BY NotRaced DEF Inside
  <1>4. y.s = Begin(x.s, id, row)
    BY <1>3
  <1>5. PICK c : /\ y.s.agent = x.s.agent /\ y.s.fenced = x.s.fenced
                 /\ y.s.conts = x.s.conts \cup {c}
                 /\ c.turn = id
                 /\ \/ c.phase = "claimed" /\ c.res = "none" /\ y.s.slot = id
                    \/ c.phase = "back" /\ c.res = "foreign" /\ y.s.slot = 0 /\ Wake(x.s)
    BY <1>1, <1>2, <1>4, BeginEffect
  <1>6. Native /\ ~RetryForeignTurn => ~Wake(x.s)
    BY DEF ForeignTurn, Wake
  <1>7. FencesAgree(y)
    BY <1>5 DEF Inside, Safe, FencesAgree
  <1>8. ASSUME NEW d \in y.s.conts
        PROVE  ContinuationOK(y, d)
    <2>1. CASE d = c
      BY <1>1, <1>2, <1>5, <1>6, <2>1 DEF ContinuationOK, Inside, Safe
    <2>2. CASE d \in x.s.conts
      BY <1>1, <1>2, <1>5, <2>2 DEF Inside, Safe, ContinuationOK
    <2> QED BY <1>5, <2>1, <2>2
  <1>9. \A d, f \in y.s.conts : d.turn = f.turn => d = f
    BY <1>2, <1>5 DEF Inside, Safe
  <1>10. Native /\ ~RetryForeignTurn => ~Wake(y.s)
    BY <1>5, <1>6 DEF Wake
  <1>11. y.e.cur.id <= y.e.turnSeq /\ y.s.slot \in {0, y.e.cur.id}
    BY <1>2, <1>5 DEF Inside, Safe
  <1> HIDE DEF id
  <1>12. Safe(y)
    BY <1>7, <1>8, <1>9, <1>10, <1>11 DEF Safe
  <1> QED BY <1>5, <1>12 DEF Inside, Keeps

LEMMA RetryInside ==
  ASSUME NEW x, Inside(x), x.e.cur.retry, ~x.e.closed
  PROVE  Inside(Retry(x)) /\ Keeps(Retry(x), x)
  <1> DEFINE t == x.e.cur
             due == t.retryDue /\ x.e.holds = {}
             y == LookIf(x, due)
             resting == [t EXCEPT !.retry = FALSE]
             again == [t EXCEPT !.retry = FALSE, !.retryDue = FALSE, !.returned = FALSE]
             z == [x EXCEPT !.e.cur = resting]
             s == Begin(Raced(y.s), t.id, t.row.id)
             w == [y EXCEPT !.s = s, !.e.cur = again]
  <1>1. x.e \in EngType /\ t \in Turn /\ t.id \in Nat /\ t.row.id \in Nat /\ t.returned
    BY DEF Inside, Section, EngType, Turn, Row, NoRow, Safe
  <1>2. /\ resting \in Turn /\ resting.id = t.id /\ resting.returned = t.returned /\ resting.retry = FALSE
        /\ again \in Turn /\ again.id = t.id /\ again.returned = FALSE /\ again.retry = FALSE
    BY <1>1 DEF Turn
  <1>3. Retry(x) = IF x.e.stopped
                   THEN IF x.e.holds = {} THEN Settle(z) ELSE z
                   ELSE IF ~due \/ ForeignTurn(x.s) THEN y ELSE w
    BY DEF Retry
  <1>4. Section(y) /\ Same(y, x) /\ Inside(y) /\ Keeps(y, x)
    BY LookIfSection, LookIfInside DEF Inside
  <1> HIDE DEF due, y, resting, again
  <1>5. Inside(z) /\ Keeps(z, x) /\ z.e.cur.returned /\ ~z.e.closed
    <2> DEFINE e == [x.e EXCEPT !.cur = resting]
    <2>1. e \in EngType
      BY <1>1, <1>2 DEF EngType
    <2>2. Section(z) /\ z.e = e /\ z.s = x.s
      BY <2>1 DEF Inside, Section
    <2>3. /\ e.cur = resting /\ e.closed = x.e.closed /\ e.holds = x.e.holds
          /\ e.turnSeq = x.e.turnSeq /\ e.fenced = x.e.fenced
      BY <1>1 DEF EngType
    <2> HIDE DEF z, e
    <2> QED BY <1>1, <1>2, <2>2, <2>3, TurnChanges
  <1>6. x.e.holds = {} => Inside(Settle(z)) /\ Keeps(Settle(z), x)
    <2> HIDE DEF z
    <2> QED BY <1>5, SettleInside, KeepsTransitive
  <1>7. due /\ ~ForeignTurn(x.s) => Inside(w) /\ Keeps(w, x)
    <2> SUFFICES ASSUME due, ~ForeignTurn(x.s) PROVE Inside(w) /\ Keeps(w, x)
      OBVIOUS
    <2> DEFINE e == [y.e EXCEPT !.cur = again]
    <2>1. y.e \in EngType /\ y.s \in SesType
      BY <1>4 DEF Section
    <2>2. e \in EngType
      BY <1>2, <2>1 DEF EngType
    <2>3. t.id # 0
      BY <1>1 DEF Inside, Safe
    <2>4. s \in SesType
      BY <1>1, <2>1, <2>3, RacedType, BeginType
    <2> HIDE DEF s
    <2>5. Section(w) /\ w.e = e /\ w.s = s
      BY <1>4, <2>2, <2>4 DEF Section
    <2>6. /\ e.cur = again /\ e.closed = y.e.closed /\ e.holds = y.e.holds
          /\ e.turnSeq = y.e.turnSeq /\ e.fenced = y.e.fenced
      BY <2>1 DEF EngType
    <2>7. /\ y.e.cur.id = t.id /\ y.e.cur.retry /\ ~y.e.closed /\ y.e.holds = {}
          /\ ~ForeignTurn(y.s)
      BY <1>4 DEF Same, SameButFence, ForeignTurn, due
    <2>8. w.s = Begin(Raced(y.s), y.e.cur.id, t.row.id)
      BY <2>5, <2>7 DEF s
    <2> HIDE DEF w, e
    <2>9. Inside(w) /\ Keeps(w, y)
      BY <1>1, <1>2, <1>4, <2>5, <2>6, <2>7, <2>8, ReclaimInside
    <2> QED BY <1>4, <2>9, KeepsTransitive
  <1> HIDE DEF z, w
  <1>8. CASE x.e.stopped
    BY <1>3, <1>5, <1>6, <1>8
  <1>9. CASE ~x.e.stopped
    BY <1>3, <1>4, <1>7, <1>9
  <1> QED BY <1>8, <1>9

LEMMA PassInside ==
  ASSUME NEW x, Inside(x)
  PROVE  Inside(Pass(x)) /\ Keeps(Pass(x), x)
  <1>1. Pass(x) = IF x.e.closed THEN x
                  ELSE IF x.e.cur.id = 0 THEN Drain(x)
                  ELSE IF x.e.cur.retry THEN Retry(x)
                  ELSE IF x.e.cur.returned /\ x.e.holds = {} THEN Settle(x)
                  ELSE x
    BY DEF Pass
  <1>2. Keeps(x, x)
    BY DEF Keeps
  <1>3. Inside(Drain(x)) /\ Keeps(Drain(x), x)
    BY DrainInside
  <1>4. ~x.e.closed /\ x.e.cur.retry => Inside(Retry(x)) /\ Keeps(Retry(x), x)
    BY RetryInside
  <1>5. ~x.e.closed /\ x.e.cur.returned => Inside(Settle(x)) /\ Keeps(Settle(x), x)
    BY SettleInside
  <1> QED BY <1>1, <1>2, <1>3, <1>4, <1>5

-----------------------------------------------------------------------------
(* The inductive invariant *)

\* The engine holds what is on its way, and nothing else.
HoldsMatch == \A c \in Calls : c \in eng.holds <=> calls[c].phase # "idle"

IInv ==
  /\ TypeOK
  /\ Safe(Enter)
  /\ Covered(Enter)
  /\ HoldsMatch
  /\ CancelLandsOnItsTurn

UsedType == [{"prompts", "cancels", "edits", "steers", "fences"} -> Nat]

LEMMA EnterInv ==
  ASSUME IInv
  PROVE  /\ Section(Enter) /\ Safe(Enter) /\ Enter.e = eng /\ Enter.s = ses
         /\ eng \in EngType /\ ses \in SesType
  BY EnterSection DEF IInv, TypeOK, Enter

LEMMA CommitState ==
  ASSUME NEW z, Safe(z), Covered(z), eng' = z.e, ses' = z.s
  PROVE  Safe(Enter)' /\ Covered(Enter)'
  BY DEF Enter, Safe, Covered, FencesAgree, ContinuationOK, Wake

\* Whatever the agent's own turn does while a section runs, what the section
\* leaves behind is safe, and nothing but the fence and that turn's end differs.
LEMMA LeaveState ==
  ASSUME NEW x, Section(x), Safe(x), Leave(x)
  PROVE  /\ eng' \in EngType /\ ses' \in SesType
         /\ Safe(Enter)' /\ Covered(Enter)'
         /\ eng'.holds = x.e.holds /\ ses'.slot = x.s.slot
         /\ Wake(ses') => Wake(x.s)
  <1>1. PICK y \in Meanwhile(x) : Commit(Sync(y))
    BY DEF Leave
  <1> DEFINE w == [x EXCEPT !.s = WakeEnded(@)]
             s == WakeEnded(x.s)
  <1>2. y = x \/ y = w
    BY <1>1 DEF Meanwhile
  <1>3. s \in SesType /\ ~Wake(s) /\ s.slot = x.s.slot /\ s.conts = x.s.conts /\ s.fenced = x.s.fenced
    BY WakeEndedType DEF Section, WakeEnded, SesType, Wake
  <1>4. Section(w) /\ w.e = x.e /\ w.s = s
    BY <1>3 DEF Section
  <1> HIDE DEF w, s
  <1>5. FencesAgree(x) /\ (FencesAgree(x) => FencesAgree(w))
    BY <1>3, <1>4 DEF Safe, FencesAgree
  <1>6. \A c \in w.s.conts : ContinuationOK(w, c)
    BY <1>3, <1>4 DEF Safe, ContinuationOK
  <1>7. Safe(w)
    BY <1>3, <1>4, <1>5, <1>6 DEF Safe
  <1>8. /\ Section(y) /\ Safe(y) /\ y.e = x.e /\ y.s.slot = x.s.slot
        /\ Wake(y.s) => Wake(x.s)
    BY <1>2, <1>3, <1>4, <1>7
  <1> DEFINE z == Sync(y)
  <1>9. /\ Section(z) /\ SameButFence(z, y) /\ FencesAgree(z) /\ Covered(z)
    BY <1>8, SyncSection DEF Safe
  <1>10. eng' = z.e /\ ses' = z.s
    BY <1>1 DEF Commit
  <1> HIDE DEF z
  <1>11. Safe(z)
    BY <1>8, <1>9, SafeSame
  <1>12. Safe(Enter)' /\ Covered(Enter)'
    BY <1>9, <1>10, <1>11, CommitState
  <1>13. eng'.holds = x.e.holds /\ ses'.slot = x.s.slot /\ (Wake(ses') => Wake(x.s))
    BY <1>8, <1>9, <1>10 DEF SameButFence, Wake
  <1> QED BY <1>9, <1>10, <1>12, <1>13 DEF Section

\* A section that leaves the calls alone.
LEMMA AfterSection ==
  ASSUME IInv, NEW x, Section(x), Safe(x), Keeps(x, Enter), Leave(x),
         calls' = calls, hosts' \in [Hosts -> Host], used' \in UsedType
  PROVE  IInv'
  <1>1. /\ eng' \in EngType /\ ses' \in SesType
        /\ Safe(Enter)' /\ Covered(Enter)'
        /\ eng'.holds = x.e.holds /\ ses'.slot = x.s.slot
        /\ Wake(ses') => Wake(x.s)
    BY LeaveState
  <1>2. /\ x.e.holds = eng.holds /\ x.s.agent = ses.agent
        /\ eng.holds # {} => x.s.slot = ses.slot
    BY EnterInv DEF Keeps
  <1>3. TypeOK'
    BY <1>1 DEF IInv, TypeOK, UsedType
  <1>4. HoldsMatch'
    BY <1>1, <1>2 DEF IInv, HoldsMatch
  <1>5. Wake(x.s) => Wake(ses)
    BY <1>2 DEF Wake
  <1>6. ASSUME NEW c \in Calls, calls[c].phase = "held"
        PROVE  c \in eng.holds /\ ses'.slot = ses.slot
    BY <1>1, <1>2, <1>6 DEF IInv, HoldsMatch
  <1>7. CancelLandsOnItsTurn'
    BY <1>1, <1>5, <1>6 DEF IInv, CancelLandsOnItsTurn
  <1> QED BY <1>1, <1>3, <1>4, <1>7 DEF IInv

\* A section that takes or gives back the hold of call c.
LEMMA AfterCall ==
  ASSUME IInv, NEW x, Section(x), Safe(x), Leave(x), NEW c \in Calls, NEW call \in Call,
         calls' = [calls EXCEPT ![c] = call],
         x.e.holds = IF call.phase = "idle" THEN eng.holds \ {c} ELSE eng.holds \cup {c},
         x.s.agent = ses.agent,
         eng.holds \ {c} # {} => x.s.slot = ses.slot,
         call.phase = "held" => /\ x.s.slot \in {0, call.turn}
                                /\ ~RetryForeignTurn /\ call.turn # 0 => ~Wake(x.s),
         hosts' \in [Hosts -> Host], used' \in UsedType
  PROVE  IInv'
  <1>1. /\ eng' \in EngType /\ ses' \in SesType
        /\ Safe(Enter)' /\ Covered(Enter)'
        /\ eng'.holds = x.e.holds /\ ses'.slot = x.s.slot
        /\ Wake(ses') => Wake(x.s)
    BY LeaveState
  <1>2. calls \in [Calls -> Call]
    BY DEF IInv, TypeOK
  <1>3. calls' \in [Calls -> Call] /\ calls'[c] = call /\ \A d \in Calls \ {c} : calls'[d] = calls[d]
    BY <1>2
  <1>4. TypeOK'
    BY <1>1, <1>3 DEF IInv, TypeOK, UsedType
  <1>5. HoldsMatch'
    <2> SUFFICES ASSUME NEW d \in Calls PROVE d \in eng'.holds <=> calls'[d].phase # "idle"
      BY DEF HoldsMatch
    <2>1. CASE d = c
      BY <1>1, <1>3, <2>1
    <2>2. CASE d # c
      BY <1>1, <1>3, <2>2 DEF IInv, HoldsMatch
    <2> QED BY <2>1, <2>2
  <1>6. Wake(x.s) => Wake(ses)
    BY DEF Wake
  <1>7. CancelLandsOnItsTurn'
    <2> SUFFICES ASSUME NEW d \in Calls, calls'[d].phase = "held"
                 PROVE  /\ ses'.slot \in {0, calls'[d].turn}
                        /\ ~RetryForeignTurn /\ calls'[d].turn # 0 => ~Wake(ses')
      BY DEF CancelLandsOnItsTurn
    <2>1. CASE d = c
      BY <1>1, <1>3, <2>1
    <2>2. CASE d # c
      <3>1. d \in eng.holds \ {c}
        BY <1>3, <2>2 DEF IInv, HoldsMatch
      <3>2. ses'.slot = ses.slot
        BY <1>1, <3>1
      <3> QED BY <1>1, <1>3, <1>6, <2>2, <3>2 DEF IInv, CancelLandsOnItsTurn
    <2> QED BY <2>1, <2>2
  <1> QED BY <1>1, <1>4, <1>5, <1>7 DEF IInv

-----------------------------------------------------------------------------
(* The session's own steps *)

\* What the argument reads of the engine is as it was, and so are the calls.
EngineRests ==
  /\ eng' \in EngType
  /\ eng'.cur = eng.cur /\ eng'.closed = eng.closed /\ eng'.holds = eng.holds
  /\ eng'.turnSeq = eng.turnSeq /\ eng'.fenced = eng.fenced
  /\ calls' = calls /\ hosts' \in [Hosts -> Host] /\ used' \in UsedType

\* A step of the session: no claim is taken but by a wake that found the fence
\* down, and every continuation is one that was there, moved on.
LEMMA AfterSessionStep ==
  ASSUME IInv, EngineRests, ses' \in SesType, ses'.fenced = ses.fenced,
         ses'.slot \in {0, ses.slot},
         Wake(ses') => Wake(ses) \/ ~ses.fenced,
         \A c \in ses'.conts : \E d \in ses.conts :
            /\ c.turn = d.turn
            /\ c # d => /\ c.phase = "back" => ses'.slot = 0
                        /\ c.res # "inflight"
                        /\ Native /\ ~RetryForeignTurn => c.res # "foreign",
         \A c, d \in ses'.conts : c.turn = d.turn => c = d
  PROVE  IInv'
  <1>1. ses.conts \in SUBSET Cont /\ eng \in EngType /\ eng.cur.id \in Nat
    BY DEF IInv, TypeOK, SesType, EngType, Turn
  <1>2. /\ Safe(Enter) /\ Covered(Enter) /\ Enter.e = eng /\ Enter.s = ses
        /\ Enter'.e = eng' /\ Enter'.s = ses'
    BY DEF IInv, Enter
  <1>3. FencesAgree(Enter)'
    BY <1>2 DEF Safe, FencesAgree, EngineRests
  <1>4. ASSUME NEW c \in ses'.conts
        PROVE  ContinuationOK(Enter, c)'
    <2>1. PICK d \in ses.conts :
            /\ c.turn = d.turn
            /\ c # d => /\ c.phase = "back" => ses'.slot = 0
                        /\ c.res # "inflight"
                        /\ Native /\ ~RetryForeignTurn => c.res # "foreign"
      OBVIOUS
    <2>2. ContinuationOK(Enter, d) /\ d.turn # 0
      BY <1>1, <1>2 DEF Safe, Cont
    <2> QED BY <1>2, <2>1, <2>2 DEF ContinuationOK, EngineRests
  <1>5. eng.cur.returned => ses'.slot # eng.cur.id /\ \A c \in ses'.conts : c.turn # eng.cur.id
    BY <1>2 DEF Safe
  <1>6. (Native /\ ~RetryForeignTurn /\ ~eng.closed /\ eng.cur.id # 0) => ~Wake(ses')
    BY <1>2 DEF Safe, Covered, Wake
  <1>7. ~eng.closed => ses'.slot \in {0, eng.cur.id}
    BY <1>2 DEF Safe
  <1>8. /\ eng.cur.id <= eng.turnSeq /\ (eng.cur.returned => eng.cur.id # 0)
         /\ eng.cur.retry => eng.cur.returned
    BY <1>2 DEF Safe
  <1>9. Safe(Enter)'
    BY <1>2, <1>3, <1>4, <1>5, <1>6, <1>7, <1>8 DEF Safe, EngineRests
  <1>10. Covered(Enter)'
    BY <1>2 DEF Covered, EngineRests
  <1>11. TypeOK'
    BY DEF IInv, TypeOK, EngineRests, UsedType
  <1>12. HoldsMatch'
    BY DEF IInv, HoldsMatch, EngineRests
  <1>13. CancelLandsOnItsTurn'
    <2> SUFFICES ASSUME NEW c \in Calls, calls[c].phase = "held"
                 PROVE  /\ ses'.slot \in {0, calls[c].turn}
                        /\ ~RetryForeignTurn /\ calls[c].turn # 0 => ~Wake(ses')
      BY DEF CancelLandsOnItsTurn, EngineRests
    <2>1. Native => ses.fenced = TRUE
      BY <1>2 DEF IInv, HoldsMatch, Covered
    <2> QED BY <2>1 DEF IInv, CancelLandsOnItsTurn, Wake
  <1> QED BY <1>9, <1>10, <1>11, <1>12, <1>13 DEF IInv

\* One continuation moves on.
LEMMA AfterContinuationMoves ==
  ASSUME IInv, EngineRests, ses' \in SesType, ses'.fenced = ses.fenced,
         ses'.agent = ses.agent, ses'.slot \in {0, ses.slot},
         NEW c \in ses.conts, NEW d, ses'.conts = (ses.conts \ {c}) \cup {d},
         d.turn = c.turn, d.phase = "back" => ses'.slot = 0,
         d.res # "inflight", Native /\ ~RetryForeignTurn => d.res # "foreign"
  PROVE  IInv'
  <1>1. Enter.s = ses /\ \A f, g \in ses.conts : f.turn = g.turn => f = g
    BY DEF IInv, Safe, Enter
  <1>2. \A f, g \in ses'.conts : f.turn = g.turn => f = g
    BY <1>1
  <1>3. Wake(ses') => Wake(ses)
    BY DEF Wake
  <1> QED BY <1>2, <1>3, AfterSessionStep

\* No continuation is touched, and the slot is not.
LEMMA AfterAgentMoves ==
  ASSUME IInv, EngineRests, ses' \in SesType, ses'.fenced = ses.fenced,
         ses'.slot = ses.slot, ses'.conts = ses.conts,
         Wake(ses') => Wake(ses) \/ ~ses.fenced
  PROVE  IInv'
  <1>1. Enter.s = ses /\ \A f, g \in ses.conts : f.turn = g.turn => f = g
    BY DEF IInv, Safe, Enter
  <1> QED BY <1>1, AfterSessionStep

LEMMA ReleasedType ==
  ASSUME NEW s \in SesType, NEW c \in Cont, NEW res \in Results
  PROVE  /\ Released(s, c, res) \in SesType
         /\ Released(s, c, res).slot = 0 /\ Released(s, c, res).agent = s.agent
         /\ Released(s, c, res).fenced = s.fenced
         /\ \E d : /\ Released(s, c, res).conts = (s.conts \ {c}) \cup {d}
                   /\ d.turn = c.turn /\ d.res = res
  <1> DEFINE d == [c EXCEPT !.phase = "back", !.res = res]
             conts == (s.conts \ {c}) \cup {d}
             kick == s.wakeKick \/ Native
  <1>1. d \in Cont /\ d.turn = c.turn /\ d.res = res
    BY DEF Cont, Phases
  <1>2. s.conts \in SUBSET Cont
    BY DEF SesType
  <1>3. conts \in SUBSET Cont
    BY <1>1, <1>2
  <1>4. Released(s, c, res) =
          [s EXCEPT !.conts = conts, !.slot = 0, !.cancelling = FALSE, !.wakeKick = kick]
    BY DEF Released
  <1>5. kick \in BOOLEAN
    BY DEF SesType
  <1> HIDE DEF d, conts, kick
  <1> DEFINE r == Released(s, c, res)
  <1> HIDE DEF r
  <1>6. r = [s EXCEPT !.conts = conts, !.slot = 0, !.cancelling = FALSE, !.wakeKick = kick]
    BY <1>4 DEF r
  <1>7. r \in SesType
    BY <1>3, <1>5, <1>6 DEF SesType
  <1>8. r.conts = conts /\ r.slot = 0 /\ r.agent = s.agent /\ r.fenced = s.fenced
    BY <1>6 DEF SesType
  <1>9. \E f : r.conts = (s.conts \ {c}) \cup {f} /\ f.turn = c.turn /\ f.res = res
    BY <1>1, <1>8 DEF conts
  <1> QED BY <1>7, <1>8, <1>9 DEF r

LEMMA ContinuationSteps ==
  ASSUME IInv, EngineRests, NEW c \in ses.conts, NEW res \in Results,
         OpenTurn(c) \/ RefusePrompt(c) \/ SendPrompt(c) \/ StepBoundary(c) \/ EndTurn(c, res)
  PROVE  IInv'
  <1>1. ses \in SesType /\ ses.conts \in SUBSET Cont /\ c \in Cont
    BY DEF IInv, TypeOK, SesType
  <1>2. ContinuationOK(Enter, c)
    BY DEF IInv, Safe, Enter
  <1>3. ASSUME NEW r \in Results, r # "inflight", Native => r # "foreign", ses' = Released(ses, c, r)
        PROVE  IInv'
    <2>1. /\ ses' \in SesType /\ ses'.slot = 0 /\ ses'.agent = ses.agent /\ ses'.fenced = ses.fenced
          /\ \E d : ses'.conts = (ses.conts \ {c}) \cup {d} /\ d.turn = c.turn /\ d.res = r
      BY <1>1, <1>3, ReleasedType
    <2> QED BY <1>3, <2>1, AfterContinuationMoves
  <1>4. ASSUME NEW d \in Cont, d.turn = c.turn, d.res = c.res, d.phase # "back",
               ses'.conts = (ses.conts \ {c}) \cup {d}, ses' \in SesType,
               ses'.slot = ses.slot, ses'.agent = ses.agent, ses'.fenced = ses.fenced
        PROVE  IInv'
    BY <1>2, <1>4, AfterContinuationMoves DEF ContinuationOK
  <1>5. CASE OpenTurn(c)
    <2>1. CASE ses.cancelling
      BY <1>3, <1>5, <2>1 DEF OpenTurn, Results, StopReasons, Refusals
    <2>2. CASE ~ses.cancelling /\ ses.closed
      BY <1>3, <1>5, <2>2 DEF OpenTurn, Results, StopReasons, Refusals
    <2>3. CASE ~ses.cancelling /\ ~ses.closed
      <3> DEFINE d == [c EXCEPT !.phase = "open"]
                 conts == (ses.conts \ {c}) \cup {d}
      <3>1. d \in Cont /\ d.turn = c.turn /\ d.res = c.res /\ d.phase # "back"
        BY <1>1 DEF Cont, Phases
      <3>2. conts \in SUBSET Cont
        BY <1>1, <3>1
      <3>3. ses' = [ses EXCEPT !.conts = conts]
        BY <1>5, <2>3 DEF OpenTurn
      <3> HIDE DEF d, conts
      <3>4. /\ ses' \in SesType /\ ses'.conts = conts
            /\ ses'.slot = ses.slot /\ ses'.agent = ses.agent /\ ses'.fenced = ses.fenced
        BY <1>1, <3>2, <3>3 DEF SesType
      <3> QED BY <1>4, <3>1, <3>4 DEF conts
    <2> QED BY <2>1, <2>2, <2>3
  <1>6. CASE RefusePrompt(c)
    <2> DEFINE s == Released(ses, c, "foreign")
    <2>1. /\ s \in SesType /\ s.slot = 0 /\ s.agent = ses.agent /\ s.fenced = ses.fenced
          /\ \E d : s.conts = (ses.conts \ {c}) \cup {d} /\ d.turn = c.turn /\ d.res = "foreign"
      <3>1. "foreign" \in Results
        BY DEF Results, Refusals
      <3> QED BY <1>1, <3>1, ReleasedType
    <2>2. s.refusalsLeft - 1 \in Nat /\ ~Native
      BY <1>1, <1>6 DEF RefusePrompt, ClientForeign, Released, SesType
    <2>3. ses' = [s EXCEPT !.refusalsLeft = @ - 1]
      BY <1>6 DEF RefusePrompt
    <2> HIDE DEF s
    <2>4. /\ ses' \in SesType /\ ses'.conts = s.conts
          /\ ses'.slot = 0 /\ ses'.agent = ses.agent /\ ses'.fenced = ses.fenced
      BY <2>1, <2>2, <2>3 DEF SesType
    <2> QED BY <2>1, <2>2, <2>4, AfterContinuationMoves
  <1>7. CASE SendPrompt(c)
    <2> DEFINE d == [c EXCEPT !.phase = "sent"]
               conts == (ses.conts \ {c}) \cup {d}
               reached == IF c.row = 0 THEN ses.reached ELSE ses.reached \cup {c.row}
    <2>1. d \in Cont /\ d.turn = c.turn /\ d.res = c.res /\ d.phase # "back"
      BY <1>1 DEF Cont, Phases
    <2>2. conts \in SUBSET Cont
      BY <1>1, <2>1
    <2>3. reached \in SUBSET Nat
      BY <1>1 DEF SesType, Cont
    <2>4. ses' = [ses EXCEPT !.conts = conts, !.reached = reached]
      BY <1>7 DEF SendPrompt
    <2> HIDE DEF d, conts, reached
    <2>5. /\ ses' \in SesType /\ ses'.conts = conts
          /\ ses'.slot = ses.slot /\ ses'.agent = ses.agent /\ ses'.fenced = ses.fenced
      BY <1>1, <2>2, <2>3, <2>4 DEF SesType
    <2> QED BY <1>4, <2>1, <2>5 DEF conts
  <1>8. CASE StepBoundary(c)
    <2> DEFINE d == [c EXCEPT !.steers = 0]
               conts == (ses.conts \ {c}) \cup {d}
    <2>1. d \in Cont /\ d.turn = c.turn /\ d.res = c.res /\ d.phase # "back"
      BY <1>1, <1>8 DEF Cont, Phases, StepBoundary
    <2>2. conts \in SUBSET Cont
      BY <1>1, <2>1
    <2>3. ses' = [ses EXCEPT !.conts = conts, !.pending = FALSE]
      BY <1>8 DEF StepBoundary
    <2> HIDE DEF d, conts
    <2>4. /\ ses' \in SesType /\ ses'.conts = conts
          /\ ses'.slot = ses.slot /\ ses'.agent = ses.agent /\ ses'.fenced = ses.fenced
      BY <1>1, <2>2, <2>3 DEF SesType
    <2> QED BY <1>4, <2>1, <2>4 DEF conts
  <1>9. CASE EndTurn(c, res)
    BY <1>3, <1>9 DEF EndTurn, Results, StopReasons, Refusals
  <1> QED BY <1>5, <1>6, <1>7, <1>8, <1>9

LEMMA AgentSteps ==
  ASSUME IInv, EngineRests,
         \/ LaunchChild \/ ChildFinishes
         \/ RecheckRead \/ RecheckClaim \/ WakeOpens \/ WakeEnds
         \/ AgentTurnStarts \/ FlagRaised \/ AgentTurnEnds \/ FlagLowered
  PROVE  IInv'
  <1>1. ses \in SesType
    BY DEF IInv, TypeOK
  <1>2. SUFFICES /\ ses' \in SesType /\ ses'.fenced = ses.fenced
                 /\ ses'.slot = ses.slot /\ ses'.conts = ses.conts
                 /\ Wake(ses') => Wake(ses) \/ ~ses.fenced
    BY AfterAgentMoves
  <1>3. CASE LaunchChild
    <2>1. /\ ses.children + 1 \in Nat /\ ses.agentLeft - 1 \in Nat
          /\ ses' = [ses EXCEPT !.children = ses.children + 1, !.agentLeft = ses.agentLeft - 1]
      BY <1>1, <1>3 DEF LaunchChild, SesType
    <2> QED BY <1>1, <2>1 DEF SesType, Wake
  <1>4. CASE ChildFinishes
    <2>1. /\ ses.children - 1 \in Nat
          /\ ses' = [ses EXCEPT !.children = ses.children - 1, !.pending = TRUE, !.wakeKick = TRUE]
      BY <1>1, <1>4 DEF ChildFinishes, SesType
    <2> QED BY <1>1, <2>1 DEF SesType, Wake
  <1>5. CASE RecheckRead
    BY <1>1, <1>5 DEF RecheckRead, SesType, Wake
  <1>6. CASE RecheckClaim
    BY <1>1, <1>6 DEF RecheckClaim, WakeReady, WakeClaimed, SesType, AgentPhases, Wake
  <1>7. CASE WakeOpens
    BY <1>1, <1>7 DEF WakeOpens, SesType, AgentPhases, Wake
  <1>8. CASE WakeEnds
    BY <1>1, <1>8 DEF WakeEnds, WakeEnded, SesType, AgentPhases, Wake
  <1>9. CASE AgentTurnStarts
    <2>1. /\ ses.agentLeft - 1 \in Nat /\ ~Native
          /\ ses' = [ses EXCEPT !.agent = "claimed", !.agentLeft = ses.agentLeft - 1]
      BY <1>1, <1>9 DEF AgentTurnStarts, SesType
    <2> QED BY <1>1, <2>1 DEF SesType, AgentPhases, Wake
  <1>10. CASE FlagRaised
    BY <1>1, <1>10 DEF FlagRaised, SesType, AgentPhases, Wake
  <1>11. CASE AgentTurnEnds
    BY <1>1, <1>11 DEF AgentTurnEnds, SesType, AgentPhases, Wake
  <1>12. CASE FlagLowered
    BY <1>1, <1>12 DEF FlagLowered, SesType, AgentPhases, Wake
  <1> QED BY <1>3, <1>4, <1>5, <1>6, <1>7, <1>8, <1>9, <1>10, <1>11, <1>12

LEMMA SessionStepInv == ASSUME IInv, SessionStep PROVE IInv'
  <1>1. EngineRests
    BY DEF SessionStep, EngineRests, IInv, TypeOK, UsedType
  <1>2. "end_turn" \in Results
    BY DEF Results, StopReasons
  <1>3. SessionNext
    BY DEF SessionStep
  <1>4. CASE \E c \in ses.conts : \/ OpenTurn(c) \/ RefusePrompt(c) \/ SendPrompt(c) \/ StepBoundary(c)
                                  \/ \E res \in Results : EndTurn(c, res)
    BY <1>1, <1>2, <1>4, ContinuationSteps
  <1>5. CASE \/ LaunchChild \/ ChildFinishes
             \/ RecheckRead \/ RecheckClaim \/ WakeOpens \/ WakeEnds
             \/ AgentTurnStarts \/ FlagRaised \/ AgentTurnEnds \/ FlagLowered
    BY <1>1, <1>5, AgentSteps
  <1> QED BY <1>3, <1>4, <1>5 DEF SessionNext

-----------------------------------------------------------------------------
(* The engine's own steps *)

LEMMA RaiseInside ==
  ASSUME NEW x, Section(x), Safe(x)
  PROVE  Inside(Raise(x)) /\ Keeps(Raise(x), x) /\ SameButFence(Raise(x), x)
  <1>1. /\ Section(Raise(x)) /\ SameButFence(Raise(x), x)
        /\ Native => Raise(x).s.fenced = TRUE /\ Raise(x).e.fenced = TRUE
    BY RaiseSection
  <1>2. FencesAgree(Raise(x))
    BY <1>1 DEF FencesAgree
  <1>3. Safe(Raise(x))
    BY <1>1, <1>2, SafeSame
  <1> QED BY <1>1, <1>3 DEF Inside, Keeps, SameButFence

\* Every section that decides on a claim or a cancel begins like this.
LEMMA RaisedInv ==
  ASSUME IInv
  PROVE  /\ Inside(Raise(Enter)) /\ Keeps(Raise(Enter), Enter)
         /\ Section(Raise(Enter)) /\ Raise(Enter).e \in EngType
         /\ Raise(Enter).s.slot = ses.slot /\ Raise(Enter).s.conts = ses.conts
         /\ Raise(Enter).s.agent = ses.agent
         /\ Raise(Enter).e.closed = eng.closed /\ Raise(Enter).e.holds = eng.holds
         /\ Raise(Enter).e.cur.id = eng.cur.id /\ Raise(Enter).e.cur.returned = eng.cur.returned
         /\ Raise(Enter).e.cur.retry = eng.cur.retry
  BY EnterInv, RaiseInside DEF Inside, Section, SameButFence

LEMMA SectionInv ==
  ASSUME IInv, NEW x, Inside(x), Keeps(x, Enter), Leave(x),
         calls' = calls, hosts' \in [Hosts -> Host], used' \in UsedType
  PROVE  IInv'
  BY AfterSection DEF Inside

LEMMA DriverPassInv ==
  ASSUME IInv, NEW ticked \in BOOLEAN, DriverPass(ticked)
  PROVE  IInv'
  <1> DEFINE r == Raise(Enter)
             due == r.e.cur.retryDue \/ (ticked /\ eng.cur.retry)
             recheck == r.e.recheck /\ ~ticked
             cur == [r.e.cur EXCEPT !.retryDue = due]
             x == [r EXCEPT !.e.cur.retryDue = due, !.e.recheck = recheck]
             ex == [r.e EXCEPT !.cur = cur, !.recheck = recheck]
             kick == x.e.kick /\ ticked
             w == [x EXCEPT !.e.kick = kick]
             ew == [x.e EXCEPT !.kick = kick]
             y == Pass(w)
             tick == y.e.cur.retry \/ y.e.recheck
             z == [y EXCEPT !.e.tick = tick]
             ez == [y.e EXCEPT !.tick = tick]
  <1>1. /\ Inside(r) /\ Keeps(r, Enter) /\ Section(r) /\ r.e \in EngType
        /\ r.e.cur \in Turn /\ r.e.cur.id \in Nat
        /\ r.e.cur.retry => r.e.cur.returned
    BY RaisedInv DEF EngType, Turn, Inside, Safe
  <1>2. Leave(z)
    BY DEF DriverPass
  <1>3. due \in BOOLEAN /\ recheck \in BOOLEAN
    BY <1>1 DEF EngType, Turn
  <1> HIDE DEF r, due, recheck
  <1>4. cur \in Turn /\ cur.id = r.e.cur.id /\ cur.returned = r.e.cur.returned /\ cur.retry = r.e.cur.retry
    BY <1>1, <1>3 DEF Turn
  <1>5. ex \in EngType
    BY <1>1, <1>3, <1>4 DEF EngType
  <1>6. Section(x) /\ x.e = ex /\ x.s = r.s
    BY <1>1, <1>5 DEF Section
  <1>7. /\ ex.cur = cur /\ ex.closed = r.e.closed /\ ex.holds = r.e.holds
        /\ ex.turnSeq = r.e.turnSeq /\ ex.fenced = r.e.fenced
    BY <1>1 DEF EngType
  <1> HIDE DEF x, ex, cur
  <1>8. Inside(x) /\ Keeps(x, r)
    BY <1>1, <1>4, <1>6, <1>7, TurnChanges
  <1>9. x.e \in EngType /\ kick \in BOOLEAN
    BY <1>8 DEF Inside, Section, EngType
  <1> HIDE DEF kick
  <1>10. ew \in EngType
    BY <1>9 DEF EngType
  <1>11. Section(w) /\ w.e = ew /\ w.s = x.s
    BY <1>8, <1>10 DEF Inside, Section
  <1> HIDE DEF w
  <1>12. Same(w, x)
    BY <1>9, <1>11 DEF Same, SameButFence, EngType
  <1>13. Inside(w) /\ Keeps(w, x)
    BY <1>8, <1>11, <1>12, InsideSame
  <1>14. Inside(y) /\ Keeps(y, w)
    BY <1>13, PassInside
  <1> HIDE DEF y
  <1>15. y.e \in EngType /\ tick \in BOOLEAN
    BY <1>14 DEF Inside, Section, EngType, Turn
  <1> HIDE DEF tick
  <1>16. ez \in EngType
    BY <1>15 DEF EngType
  <1>17. Section(z) /\ z.e = ez /\ z.s = y.s
    BY <1>14, <1>16 DEF Inside, Section
  <1> HIDE DEF z
  <1>18. Same(z, y)
    BY <1>15, <1>17 DEF Same, SameButFence, EngType
  <1>19. Inside(z) /\ Keeps(z, y)
    BY <1>14, <1>17, <1>18, InsideSame
  <1>20. Keeps(z, Enter)
    BY <1>1, <1>8, <1>13, <1>14, <1>19, KeepsTransitive
  <1> QED BY <1>2, <1>19, <1>20, SectionInv DEF DriverPass, IInv, TypeOK, UsedType

LEMMA DriverInv == ASSUME IInv, DriverNext PROVE IInv'
  <1>1. eng \in EngType /\ ses \in SesType
    BY DEF IInv, TypeOK
  <1>2. CASE Kicked
    BY <1>2, DriverPassInv DEF Kicked
  <1>3. CASE Ticked
    BY <1>3, DriverPassInv DEF Ticked
  <1>4. CASE Rearmed
    <2>1. EngineRests /\ ses' = ses
      BY <1>1, <1>4 DEF Rearmed, EngineRests, EngType, IInv, TypeOK, UsedType
    <2> QED BY <1>1, <2>1, AfterAgentMoves
  <1>5. CASE ReplayEnds
    <2>1. EngineRests /\ ses' = ses
      BY <1>1, <1>5 DEF ReplayEnds, EngineRests, EngType, IInv, TypeOK, UsedType
    <2> QED BY <1>1, <2>1, AfterAgentMoves
  <1>6. CASE AgentEndObserved
    <2>1. EngineRests
      BY <1>1, <1>6 DEF AgentEndObserved, EngineRests, EngType, IInv, TypeOK, UsedType
    <2> DEFINE kick == ses.wakeKick \/ Native
    <2>2. kick \in BOOLEAN /\ ses' = [ses EXCEPT !.agent = "none", !.worker = "idle", !.wakeKick = kick]
      BY <1>1, <1>6 DEF AgentEndObserved, AgentEndSeen, SesType
    <2> HIDE DEF kick
    <2>3. /\ ses' \in SesType /\ ses'.fenced = ses.fenced /\ ses'.slot = ses.slot
          /\ ses'.conts = ses.conts /\ ~Wake(ses')
      BY <1>1, <2>2 DEF SesType, AgentPhases, Wake
    <2> QED BY <2>1, <2>3, AfterAgentMoves
  <1> QED BY <1>2, <1>3, <1>4, <1>5, <1>6 DEF DriverNext

\* A section that neither raises the fence nor claims.
LEMMA PlainInv ==
  ASSUME IInv, NEW x, Section(x), Same(x, Enter), Leave(x),
         calls' = calls, hosts' \in [Hosts -> Host], used' \in UsedType
  PROVE  IInv'
  <1>1. Safe(Enter) /\ FencesAgree(Enter)
    BY DEF IInv, Safe
  <1>2. FencesAgree(x) /\ SameButFence(x, Enter)
    BY <1>1, SameAgrees
  <1>3. Safe(x) /\ Keeps(x, Enter)
    BY <1>1, <1>2, SafeSame DEF SameButFence, Keeps
  <1> QED BY <1>3, AfterSection

LEMMA UsedRests == ASSUME IInv PROVE hosts \in [Hosts -> Host] /\ used \in UsedType
  BY DEF IInv, TypeOK, UsedType

LEMMA CountPromptType ==
  ASSUME IInv, NEW from, CountPrompt(from) PROVE used' \in UsedType
  BY UsedRests DEF CountPrompt, UsedType

LEMMA StartedType ==
  ASSUME NEW x \in EngType, NEW a \in Activities, NEW b \in BOOLEAN, NEW c \in BOOLEAN
  PROVE  [x EXCEPT !.activity = a, !.startFailed = b, !.replaying = c] \in EngType
  BY DEF EngType

LEMMA FencesType ==
  ASSUME NEW x \in EngType, NEW a \in SUBSET Hosts, NEW b \in BOOLEAN, NEW c \in BOOLEAN
  PROVE  [x EXCEPT !.closeFences = a, !.passHeld = b, !.kick = c] \in EngType
  BY DEF EngType

LEMMA StartedInv == ASSUME IInv, NEW ok \in BOOLEAN, Started(ok) PROVE IInv'
  <1> DEFINE activity == IF ok THEN "idle" ELSE "error"
             failed == ~ok
             replaying == eng.replaying /\ ok
             e == [eng EXCEPT !.activity = activity, !.startFailed = failed, !.replaying = replaying]
             x == [Enter EXCEPT !.e.activity = activity, !.e.startFailed = failed, !.e.replaying = replaying]
  <1>1. Section(Enter) /\ Enter.e = eng /\ Enter.s = ses /\ eng \in EngType
    BY EnterInv
  <1>2. Leave([Enter EXCEPT !.e.activity = activity, !.e.startFailed = failed, !.e.replaying = @ /\ ok])
    BY DEF Started
  <1>3. [Enter EXCEPT !.e.activity = activity, !.e.startFailed = failed, !.e.replaying = @ /\ ok] = x
    BY <1>1 DEF Section, EngType
  <1>4. activity \in Activities /\ failed \in BOOLEAN /\ replaying \in BOOLEAN
    BY <1>1 DEF Activities, EngType
  <1> HIDE DEF activity, failed, replaying
  <1>5. e \in EngType
    BY <1>1, <1>4, StartedType
  <1>6. Section(x) /\ x.e = e /\ x.s = ses
    BY <1>1, <1>5 DEF Section
  <1> HIDE DEF x
  <1>7. Same(x, Enter)
    BY <1>1, <1>6 DEF Same, SameButFence, EngType
  <1>8. Leave(x)
    BY <1>2, <1>3
  <1> QED BY <1>6, <1>7, <1>8, UsedRests, PlainInv DEF Started

LEMMA ReturnInv == ASSUME IInv, NEW c \in ses.conts, Return(c) PROVE IInv'
  <1> DEFINE conts == ses.conts \ {c}
             s == [ses EXCEPT !.conts = conts]
             w == [Enter EXCEPT !.s.conts = conts]
             x == Raise(w)
             cur == [x.e.cur EXCEPT !.returned = TRUE, !.res = c.res, !.unanswered = c.steers]
             back == [x EXCEPT !.e.cur = cur]
             e == [x.e EXCEPT !.cur = cur]
             y == IF eng.cur.id = c.turn THEN back ELSE x
  <1>1. /\ Section(Enter) /\ Safe(Enter) /\ Enter.e = eng /\ Enter.s = ses
        /\ eng \in EngType /\ ses \in SesType
    BY EnterInv
  <1>2. c \in Cont /\ c.phase = "back" /\ conts \in SUBSET Cont
    BY <1>1 DEF SesType, Return
  <1>3. c.turn # 0 /\ c.turn # ses.slot /\ \A d \in conts : d.turn # c.turn
    BY <1>1, <1>2 DEF Safe, ContinuationOK, Cont
  <1>4. Leave(Pass(y))
    BY <1>1 DEF Return
  <1>5. conts \subseteq ses.conts
    OBVIOUS
  <1> HIDE DEF conts
  <1>6. s \in SesType
    BY <1>1, <1>2 DEF SesType
  <1>7. Section(w) /\ w.e = eng /\ w.s = s
    BY <1>1, <1>6 DEF Section
  <1>8. s.conts = conts /\ s.slot = ses.slot /\ s.agent = ses.agent /\ s.fenced = ses.fenced
    BY <1>1 DEF SesType
  <1> HIDE DEF w, s
  <1>9. Safe(w) /\ Keeps(w, Enter)
    BY <1>1, <1>5, <1>7, <1>8 DEF Safe, FencesAgree, ContinuationOK, Wake, Keeps
  <1>10. Inside(x) /\ Keeps(x, w) /\ SameButFence(x, w)
    BY <1>7, <1>9, RaiseInside
  <1> HIDE DEF x
  <1>11. x.e \in EngType /\ x.e.cur \in Turn /\ x.e.cur.id = eng.cur.id /\ x.s.slot = ses.slot
         /\ x.s.conts = conts
    BY <1>7, <1>8, <1>10 DEF Inside, Section, EngType, SameButFence
  <1>12. cur \in Turn /\ cur.id = eng.cur.id /\ cur.returned = TRUE /\ cur.retry = x.e.cur.retry
    BY <1>2, <1>11 DEF Turn, Cont
  <1> HIDE DEF cur
  <1>13. e \in EngType
    BY <1>11, <1>12 DEF EngType
  <1>14. Section(back) /\ back.e = e /\ back.s = x.s
    BY <1>10, <1>13 DEF Inside, Section
  <1>15. /\ e.cur = cur /\ e.closed = x.e.closed /\ e.holds = x.e.holds
         /\ e.turnSeq = x.e.turnSeq /\ e.fenced = x.e.fenced
    BY <1>11 DEF EngType
  <1> HIDE DEF back, e
  <1>16. eng.cur.id = c.turn => Inside(back) /\ Keeps(back, x)
    <2> SUFFICES ASSUME eng.cur.id = c.turn PROVE Inside(back) /\ Keeps(back, x)
      OBVIOUS
    <2>1. FencesAgree(back)
      BY <1>10, <1>14, <1>15 DEF Inside, Safe, FencesAgree
    <2>2. \A d \in back.s.conts : ContinuationOK(back, d)
      BY <1>10, <1>14, <1>15 DEF Inside, Safe, ContinuationOK
    <2>3. back.s.slot # back.e.cur.id /\ \A d \in back.s.conts : d.turn # back.e.cur.id
      BY <1>3, <1>11, <1>12, <1>14, <1>15
    <2>4. Safe(back)
      BY <1>3, <1>10, <1>11, <1>12, <1>14, <1>15, <2>1, <2>2, <2>3 DEF Inside, Safe
    <2> QED BY <1>10, <1>14, <1>15, <2>4 DEF Inside, Keeps
  <1>17. Inside(y) /\ Keeps(y, x)
    BY <1>10, <1>16 DEF Keeps
  <1> HIDE DEF y
  <1>18. Inside(Pass(y)) /\ Keeps(Pass(y), y)
    BY <1>17, PassInside
  <1>19. Keeps(Pass(y), Enter)
    BY <1>9, <1>10, <1>17, <1>18, KeepsTransitive
  <1> QED BY <1>4, <1>18, <1>19, UsedRests, SectionInv DEF Return

LEMMA InterjectInv == ASSUME IInv, InterjectAdmitted \/ InterjectMade PROVE IInv'
  <1>1. eng \in EngType /\ ses \in SesType /\ used \in UsedType /\ ses.conts \in SUBSET Cont
    BY UsedRests DEF IInv, TypeOK, SesType
  <1>2. CASE InterjectAdmitted
    <2>1. used' \in UsedType
      BY <1>1, <1>2 DEF InterjectAdmitted, UsedType
    <2>2. EngineRests /\ ses' = ses
      BY <1>1, <1>2, <2>1, UsedRests DEF InterjectAdmitted, EngineRests, EngType
    <2> QED BY <1>1, <2>2, AfterAgentMoves
  <1>3. CASE InterjectMade
    <2> DEFINE taken(c) == Native /\ Interjectable(ses, c)
               next(c) == IF taken(c) THEN [c EXCEPT !.steers = @ + 1] ELSE c
               conts == {next(c) : c \in ses.conts}
    <2>1. EngineRests
      BY <1>1, <1>3, UsedRests DEF InterjectMade, EngineRests, EngType
    <2>2. ses' = [ses EXCEPT !.conts = conts]
      BY <1>3 DEF InterjectMade
    <2>3. ASSUME NEW c \in ses.conts
          PROVE  /\ next(c) \in Cont /\ next(c).turn = c.turn /\ next(c).res = c.res
                 /\ next(c) # c => next(c).phase # "back"
      BY <1>1 DEF Cont, Interjectable
    <2>4. \A c \in ses.conts : ContinuationOK(Enter, c)
      BY DEF IInv, Safe, Enter
    <2>5. \A c, d \in ses.conts : c.turn = d.turn => c = d
      BY DEF IInv, Safe, Enter
    <2> HIDE DEF next
    <2>6. conts \in SUBSET Cont
      BY <2>3
    <2>7. ASSUME NEW c \in conts
          PROVE  \E d \in ses.conts :
                   /\ c.turn = d.turn
                   /\ c # d => /\ c.phase = "back" => ses.slot = 0
                               /\ c.res # "inflight"
                               /\ Native /\ ~RetryForeignTurn => c.res # "foreign"
      <3>1. PICK d \in ses.conts : c = next(d)
        OBVIOUS
      <3> QED BY <2>3, <2>4, <3>1 DEF ContinuationOK
    <2>8. \A c, d \in conts : c.turn = d.turn => c = d
      BY <2>3, <2>5
    <2> HIDE DEF conts
    <2>9. /\ ses' \in SesType /\ ses'.conts = conts /\ ses'.slot = ses.slot
          /\ ses'.agent = ses.agent /\ ses'.fenced = ses.fenced
      BY <1>1, <2>2, <2>6 DEF SesType
    <2>10. Wake(ses') => Wake(ses)
      BY <2>9 DEF Wake
    <2> QED BY <2>1, <2>7, <2>8, <2>9, <2>10, AfterSessionStep
  <1> QED BY <1>2, <1>3

LEMMA CloseInv == ASSUME IInv, CloseEngine \/ CloseSession PROVE IInv'
  <1>1. /\ Section(Enter) /\ Safe(Enter) /\ Enter.e = eng /\ Enter.s = ses
        /\ eng \in EngType /\ ses \in SesType
    BY EnterInv
  <1>2. CASE CloseEngine
    <2> DEFINE w == [Enter EXCEPT !.e.closed = TRUE, !.e.activity = "closing", !.e.cur = NoTurn]
               e == [eng EXCEPT !.closed = TRUE, !.activity = "closing", !.cur = NoTurn]
               x == Raise(w)
               y == Disarm(x)
               ended == IF eng.cur.id = 0 THEN <<>> ELSE <<EndedEvent(eng.cur.id, 0, Len(eng.queue))>>
               z == Place(y, ended \o y.dis)
    <2>1. /\ NoTurn \in Turn /\ NoTurn.id = 0 /\ NoTurn.returned = FALSE /\ NoTurn.retry = FALSE
      BY DEF NoTurn, Turn
    <2>2. Commit(z)
      BY <1>2 DEF CloseEngine
    <2>3. e \in EngType
      BY <1>1, <2>1 DEF EngType, Activities
    <2>4. Section(w) /\ w.e = e /\ w.s = ses
      BY <1>1, <2>3 DEF Section
    <2>5. /\ e.closed = TRUE /\ e.cur = NoTurn /\ e.holds = eng.holds
          /\ e.turnSeq = eng.turnSeq /\ e.turnSeq \in Nat /\ e.fenced = eng.fenced
      BY <1>1 DEF EngType
    <2> HIDE DEF w, e
    <2>6. FencesAgree(w) /\ \A c \in w.s.conts : ContinuationOK(w, c)
      BY <1>1, <2>4, <2>5 DEF Safe, FencesAgree, ContinuationOK
    <2>7. Safe(w)
      BY <1>1, <2>1, <2>4, <2>5, <2>6 DEF Safe
    <2>8. Inside(x) /\ Keeps(x, w) /\ SameButFence(x, w)
      BY <2>4, <2>7, RaiseInside
    <2> HIDE DEF x
    <2>9. Inside(y) /\ Keeps(y, x) /\ Section(y) /\ Same(y, x)
      BY <2>8, DisarmInside, DisarmSection DEF Inside
    <2> HIDE DEF y, ended
    <2>10. Section(z) /\ z.e = y.e /\ z.s = y.s
      BY <2>9, PlaceSection
    <2> HIDE DEF z
    <2>11. eng' = y.e /\ ses' = y.s
      BY <2>2, <2>10 DEF Commit
    <2>12. Covered(y)
      BY <2>9 DEF Covered, Inside
    <2>13. Safe(Enter)' /\ Covered(Enter)'
      BY <2>9, <2>11, <2>12, CommitState DEF Inside
    <2>14. eng' \in EngType /\ ses' \in SesType /\ calls' = calls /\ hosts' = hosts /\ used' = used
      BY <1>2, <2>9, <2>11 DEF Section, CloseEngine
    <2>15. eng'.holds = eng.holds /\ ses'.slot = ses.slot /\ (Wake(ses') => Wake(ses))
      BY <2>4, <2>5, <2>8, <2>9, <2>11 DEF Same, SameButFence, Wake
    <2>16. TypeOK' /\ HoldsMatch' /\ CancelLandsOnItsTurn'
      BY <2>14, <2>15 DEF IInv, TypeOK, HoldsMatch, CancelLandsOnItsTurn
    <2> QED BY <2>13, <2>16 DEF IInv
  <1>3. CASE CloseSession
    <2>1. EngineRests
      BY <1>1, <1>3, UsedRests DEF CloseSession, EngineRests
    <2>2. /\ ses' \in SesType /\ ses'.fenced = ses.fenced /\ ses'.slot = ses.slot
          /\ ses'.conts = ses.conts /\ (Wake(ses') => Wake(ses))
      BY <1>1, <1>3 DEF CloseSession, SesType, Wake
    <2> QED BY <2>1, <2>2, AfterAgentMoves
  <1> QED BY <1>2, <1>3

LEMMA DisarmSendInv == ASSUME IInv, DisarmSend PROVE IInv'
  <1> DEFINE x == Disarm(Enter)
             z == Place(x, x.dis)
  <1>1. /\ Section(Enter) /\ Safe(Enter) /\ Covered(Enter) /\ Enter.e = eng /\ Enter.s = ses
    BY EnterInv DEF IInv
  <1>2. Section(x) /\ Same(x, Enter)
    BY <1>1, DisarmSection
  <1>3. Commit(z)
    BY DEF DisarmSend
  <1> HIDE DEF x
  <1>4. Section(z) /\ z.e = x.e /\ z.s = x.s
    BY <1>2, PlaceSection
  <1> HIDE DEF z
  <1>5. eng' = x.e /\ ses' = x.s
    BY <1>3, <1>4 DEF Commit
  <1>6. FencesAgree(x) /\ SameButFence(x, Enter)
    BY <1>1, <1>2, SameAgrees DEF Safe
  <1>7. Safe(x) /\ Covered(x)
    BY <1>1, <1>2, <1>6, SafeSame DEF Same, SameButFence, Covered
  <1>8. Safe(Enter)' /\ Covered(Enter)'
    BY <1>5, <1>7, CommitState
  <1>9. /\ eng' \in EngType /\ ses' \in SesType /\ calls' = calls /\ hosts' = hosts /\ used' = used
        /\ eng'.holds = eng.holds /\ ses'.slot = ses.slot /\ (Wake(ses') => Wake(ses))
    BY <1>1, <1>2, <1>5 DEF Section, DisarmSend, Same, SameButFence, Wake
  <1>10. TypeOK' /\ HoldsMatch' /\ CancelLandsOnItsTurn'
    BY <1>9 DEF IInv, TypeOK, HoldsMatch, CancelLandsOnItsTurn
  <1> QED BY <1>8, <1>10 DEF IInv

-----------------------------------------------------------------------------
(* Hosts, and commands on the queue *)

LEMMA HostInv == ASSUME IInv, NEW h \in Hosts, FenceClose(h) \/ FenceVerdict(h) \/ ReleaseFence(h)
                 PROVE  IInv'
  <1>1. /\ Section(Enter) /\ Enter.e = eng /\ Enter.s = ses /\ eng \in EngType /\ ses \in SesType
        /\ hosts \in [Hosts -> Host] /\ used \in UsedType
    BY EnterInv, UsedRests
  <1>2. CASE FenceClose(h)
    <2> DEFINE r == Raise(Enter)
               fences == r.e.closeFences \cup {h}
               w == [r EXCEPT !.e.closeFences = fences]
               e == [r.e EXCEPT !.closeFences = fences]
               x == Look(w)
    <2>1. Leave(x)
      BY <1>2 DEF FenceClose
    <2>2. Inside(r) /\ Keeps(r, Enter) /\ Section(r) /\ r.e \in EngType
      BY RaisedInv
    <2> HIDE DEF r
    <2>3. fences \in SUBSET Hosts
      BY <2>2 DEF EngType
    <2> HIDE DEF fences
    <2>4. e \in EngType
      BY <2>2, <2>3 DEF EngType
    <2>5. Section(w) /\ w.e = e /\ w.s = r.s
      BY <2>2, <2>4 DEF Section
    <2> HIDE DEF w
    <2>6. Same(w, r)
      BY <2>2, <2>5 DEF Same, SameButFence, EngType
    <2>7. Inside(w) /\ Keeps(w, r)
      BY <2>2, <2>5, <2>6, InsideSame
    <2>8. Section(x) /\ Same(x, w)
      BY <2>5, LookSection
    <2> HIDE DEF x
    <2>9. Inside(x) /\ Keeps(x, Enter)
      BY <2>2, <2>7, <2>8, InsideSame, KeepsTransitive
    <2>10. used' \in UsedType
      BY <1>1, <1>2 DEF FenceClose, UsedType
    <2>11. hosts' \in [Hosts -> Host]
      <3> DEFINE busy == BusyFacts(eng) \/ ForeignTurn(ses)
                 nothing == ExitFenceEnded(eng)
      <3>1. busy \in BOOLEAN /\ nothing \in BOOLEAN
        BY <1>1, ForeignTurnBoolean DEF BusyFacts, ExitFenceEnded, EngType, ExitFence
      <3>2. hosts' = [hosts EXCEPT ![h] = [phase |-> "raised", busy |-> busy, nothingStarts |-> nothing]]
        BY <1>2 DEF FenceClose
      <3> HIDE DEF busy, nothing
      <3> QED BY <1>1, <3>1, <3>2 DEF Host
    <2> QED BY <1>2, <2>1, <2>9, <2>10, <2>11, SectionInv DEF FenceClose
  <1>3. CASE FenceVerdict(h)
    <2>1. PICK phase \in {"busy", "idle"} : hosts' = [hosts EXCEPT ![h].phase = phase]
      BY <1>3 DEF FenceVerdict
    <2>2. hosts' \in [Hosts -> Host]
      BY <1>1, <2>1 DEF Host
    <2>3. EngineRests /\ ses' = ses
      BY <1>1, <1>3, <2>2 DEF FenceVerdict, EngineRests
    <2> QED BY <1>1, <2>3, AfterAgentMoves
  <1>4. CASE ReleaseFence(h)
    <2> DEFINE left == eng.closeFences \ {h}
               held == eng.passHeld /\ ~(left = {} /\ eng.passHeld)
               kick == eng.kick \/ (left = {} /\ eng.passHeld)
               x == [Enter EXCEPT !.e.closeFences = left, !.e.passHeld = held, !.e.kick = kick]
               e == [eng EXCEPT !.closeFences = left, !.passHeld = held, !.kick = kick]
    <2>1. Leave(x)
      <3>1. Leave([Enter EXCEPT !.e.closeFences = left,
                                !.e.passHeld = @ /\ ~(left = {} /\ eng.passHeld),
                                !.e.kick = @ \/ (left = {} /\ eng.passHeld)])
        BY <1>4 DEF ReleaseFence
      <3>2. [Enter EXCEPT !.e.closeFences = left,
                          !.e.passHeld = @ /\ ~(left = {} /\ eng.passHeld),
                          !.e.kick = @ \/ (left = {} /\ eng.passHeld)] = x
        BY <1>1 DEF Section, EngType
      <3> QED BY <3>1, <3>2
    <2>2. left \in SUBSET Hosts /\ held \in BOOLEAN /\ kick \in BOOLEAN
      BY <1>1 DEF EngType
    <2> HIDE DEF left, held, kick
    <2>3. e \in EngType
      BY <1>1, <2>2, FencesType
    <2>4. Section(x) /\ x.e = e /\ x.s = ses
      BY <1>1, <2>3 DEF Section
    <2> HIDE DEF x
    <2>5. Same(x, Enter)
      BY <1>1, <2>4 DEF Same, SameButFence, EngType
    <2>6. hosts' \in [Hosts -> Host] /\ calls' = calls /\ used' = used
      <3>1. NoHost \in Host
        BY DEF NoHost, Host
      <3> QED BY <1>1, <1>4, <3>1 DEF ReleaseFence
    <2> QED BY <1>1, <2>1, <2>4, <2>5, <2>6, PlainInv
  <1> QED BY <1>2, <1>3, <1>4

\* A section that changes the queue and places what that changed.
LEMMA QueueInv ==
  ASSUME IInv, NEW q \in Seq(Row), NEW log, Leave([Enter EXCEPT !.e.queue = q, !.log = log]),
         calls' = calls, hosts' = hosts, used' \in UsedType
  PROVE  IInv'
  <1> DEFINE e == [eng EXCEPT !.queue = q]
             x == [Enter EXCEPT !.e.queue = q, !.log = log]
  <1>1. Section(Enter) /\ Enter.e = eng /\ Enter.s = ses /\ eng \in EngType
    BY EnterInv
  <1>2. e \in EngType
    BY <1>1 DEF EngType
  <1>3. Section(x) /\ x.e = e /\ x.s = ses
    BY <1>1, <1>2 DEF Section
  <1> HIDE DEF x
  <1>4. Same(x, Enter)
    BY <1>1, <1>3 DEF Same, SameButFence, EngType
  <1> QED BY <1>3, <1>4, UsedRests, PlainInv DEF x

LEMMA QueueVerbInv == ASSUME IInv, QueueVerb PROVE IInv'
  <1>1. /\ Section(Enter) /\ Enter.e = eng /\ eng.queue \in Seq(Row)
        /\ hosts \in [Hosts -> Host] /\ used \in UsedType
    BY EnterInv, UsedRests DEF EngType
  <1>2. CASE QueueRow
    <2>1. Section(AddRow(Enter)) /\ Same(AddRow(Enter), Enter)
      BY <1>1, AddRowSection
    <2>2. used' \in UsedType
      BY <1>2, CountPromptType DEF QueueRow
    <2> QED BY <1>1, <1>2, <2>1, <2>2, PlainInv DEF QueueRow
  <1>3. CASE ClearRows
    <2> DEFINE x == ClearQueue(Enter)
               z == Place(x, x.qev)
    <2>1. Section(x) /\ Same(x, Enter)
      BY <1>1, ClearQueueSection
    <2>2. Leave(z) /\ calls' = calls /\ hosts' = hosts /\ used' = used
      BY <1>3 DEF ClearRows
    <2> HIDE DEF x
    <2>3. Section(z) /\ z.e = x.e /\ z.s = x.s
      BY <2>1, PlaceSection
    <2> HIDE DEF z
    <2>4. Same(z, Enter)
      BY <2>1, <2>3 DEF Same, SameButFence
    <2> QED BY <1>1, <2>2, <2>3, <2>4, PlainInv
  <1>4. ASSUME NEW id, EditQueued(id) PROVE IInv'
    <2> DEFINE q == Edit(eng.queue, id)
               log == <<EditedEvent(Lookup(q, id), Position(q, id) - 1)>>
    <2>1. Leave([Enter EXCEPT !.e.queue = q, !.log = log])
      BY <1>4 DEF EditQueued
    <2>2. q \in Seq(Row)
      BY <1>1, <1>4, EditType DEF EditQueued
    <2>3. used' \in UsedType /\ calls' = calls /\ hosts' = hosts
      BY <1>1, <1>4 DEF EditQueued, UsedType
    <2> HIDE DEF q, log
    <2> QED BY <2>1, <2>2, <2>3, QueueInv
  <1>5. ASSUME NEW id, Unqueue(id) PROVE IInv'
    <2> DEFINE q == Take(eng.queue, id)
               log == <<RemovedEvent(Lookup(eng.queue, id), Position(eng.queue, id) - 1)>>
    <2>1. Leave([Enter EXCEPT !.e.queue = q, !.log = log])
      BY <1>1, <1>5 DEF Unqueue
    <2>2. q \in Seq(Row)
      BY <1>1, TakeType
    <2>3. used' \in UsedType /\ calls' = calls /\ hosts' = hosts
      BY <1>1, <1>5 DEF Unqueue
    <2> HIDE DEF q, log
    <2> QED BY <2>1, <2>2, <2>3, QueueInv
  <1> QED BY <1>2, <1>3, <1>4, <1>5 DEF QueueVerb

-----------------------------------------------------------------------------
(* Commands that admit a prompt *)

LEMMA AdmissionInv ==
  ASSUME IInv, NEW mode
  PROVE  /\ Inside(Admission(mode)) /\ Keeps(Admission(mode), Enter) /\ Section(Admission(mode))
         /\ Admission(mode).s.slot = ses.slot /\ Admission(mode).s.agent = ses.agent
         /\ Admission(mode).e.closed = eng.closed /\ Admission(mode).e.holds = eng.holds
         /\ Admission(mode).e.cur.id = eng.cur.id
  <1> DEFINE r == Raise(Enter)
             reads == ~Refuses(eng) /\ (mode = "send_now" \/ (~RetryForeignTurn /\ Free(eng)))
  <1>1. Admission(mode) = LookIf(r, reads)
    BY DEF Admission
  <1>2. /\ Inside(r) /\ Keeps(r, Enter) /\ Section(r)
        /\ r.s.slot = ses.slot /\ r.s.agent = ses.agent /\ r.e.closed = eng.closed
        /\ r.e.holds = eng.holds /\ r.e.cur.id = eng.cur.id
    BY RaisedInv
  <1> HIDE DEF r, reads
  <1>3. /\ Inside(LookIf(r, reads)) /\ Keeps(LookIf(r, reads), r)
        /\ Section(LookIf(r, reads)) /\ Same(LookIf(r, reads), r)
    BY <1>2, LookIfInside, LookIfSection
  <1>4. Keeps(LookIf(r, reads), Enter)
    BY <1>2, <1>3, KeepsTransitive
  <1> QED BY <1>1, <1>2, <1>3, <1>4 DEF Same, SameButFence

\* The exit fence is set over what the section made.
LEMMA FenceSetInside ==
  ASSUME NEW x, Inside(x), NEW exit \in ExitFence
  PROVE  /\ Inside([x EXCEPT !.e.exit = exit]) /\ Keeps([x EXCEPT !.e.exit = exit], x)
  <1> DEFINE y == [x EXCEPT !.e.exit = exit]
             e == [x.e EXCEPT !.exit = exit]
  <1>1. x.e \in EngType
    BY DEF Inside, Section
  <1>2. e \in EngType
    BY <1>1 DEF EngType
  <1>3. Section(y) /\ y.e = e /\ y.s = x.s
    BY <1>2 DEF Inside, Section
  <1> HIDE DEF y
  <1>4. Same(y, x)
    BY <1>1, <1>3 DEF Same, SameButFence, EngType
  <1> QED BY <1>3, <1>4, InsideSame DEF y

LEMMA SubmitStartsInv ==
  ASSUME IInv, NEW mode, NEW from \in Nat, NEW fence \in BOOLEAN, SubmitStarts(mode, from, fence)
  PROVE  IInv'
  <1> DEFINE x == Admission(mode)
             row == Lookup(eng.queue, from)
             origin == IF mode = "send_now" THEN "send_now" ELSE "submit"
             y == Claim(x, row, origin)
             z == IF from = 0 THEN y ELSE SendRow(y, from)
             exit == [NoFence EXCEPT !.up = TRUE, !.turn = z.e.cur.id]
             w == IF fence THEN [z EXCEPT !.e.exit = exit] ELSE z
             v == Place(w, w.qev \o w.st)
  <1>1. Inside(x) /\ Keeps(x, Enter)
    BY AdmissionInv
  <1>2. row \in Row \cup {NoRow}
    <2>1. eng.queue \in Seq(Row)
      BY EnterInv DEF EngType
    <2> QED BY <2>1, LookupType
  <1>3. Leave(v) /\ SubmitOutcome(x, mode, from) = "start"
    BY DEF SubmitStarts
  <1> HIDE DEF x, row, origin
  <1>4. CanSubmit(x)
    BY <1>3 DEF SubmitOutcome
  <1>5. MayClaim(x)
    BY <1>1, <1>4 DEF CanSubmit, CanStart, Free, Refuses, MayClaim, Inside
  <1>6. Inside(y) /\ Keeps(y, x)
    BY <1>1, <1>2, <1>5, ClaimInside
  <1> HIDE DEF y
  <1>7. Inside(z) /\ Keeps(z, y)
    BY <1>6, SendRowInside DEF Keeps
  <1> HIDE DEF z
  <1>8. exit \in ExitFence
    BY <1>7 DEF NoFence, ExitFence, Inside, Section, EngType, Turn
  <1> HIDE DEF exit
  <1>9. Inside(w) /\ Keeps(w, z)
    <2>1. Keeps(z, z)
      BY DEF Keeps
    <2>2. CASE fence
      <3>1. w = [z EXCEPT !.e.exit = exit]
        BY <2>2
      <3> QED BY <1>7, <1>8, <3>1, FenceSetInside
    <2>3. CASE ~fence
      BY <1>7, <2>1, <2>3
    <2> QED BY <2>2, <2>3
  <1> HIDE DEF w
  <1>10. Inside(v) /\ Keeps(v, w)
    BY <1>9, PlaceInside
  <1> HIDE DEF v
  <1>11. Keeps(v, Enter)
    BY <1>1, <1>6, <1>7, <1>9, <1>10, KeepsTransitive
  <1>12. used' \in UsedType
    BY CountPromptType DEF SubmitStarts
  <1> QED BY <1>3, <1>10, <1>11, <1>12, UsedRests, SectionInv DEF SubmitStarts

LEMMA SubmitQueuesInv ==
  ASSUME IInv, NEW fence \in BOOLEAN, SubmitQueues(fence)
  PROVE  IInv'
  <1> DEFINE x == Admission("queue")
             y == AddRow(x)
             exit == [NoFence EXCEPT !.up = TRUE, !.row = y.e.rowSeq]
             z == [y EXCEPT !.e.exit = exit]
             w == IF fence THEN z ELSE y
  <1>1. Inside(x) /\ Keeps(x, Enter) /\ Section(x)
    BY AdmissionInv
  <1>2. Leave(w)
    BY DEF SubmitQueues
  <1> HIDE DEF x
  <1>3. Section(y) /\ Same(y, x)
    BY <1>1, AddRowSection
  <1>4. Inside(y) /\ Keeps(y, x)
    BY <1>1, <1>3, InsideSame
  <1> HIDE DEF y
  <1>5. exit \in ExitFence
    BY <1>3 DEF NoFence, ExitFence, Section, EngType
  <1> HIDE DEF exit
  <1>6. Inside(z) /\ Keeps(z, y)
    BY <1>4, <1>5, FenceSetInside
  <1> HIDE DEF z
  <1>7. Inside(w) /\ Keeps(w, Enter)
    BY <1>1, <1>4, <1>6, KeepsTransitive
  <1>8. used' \in UsedType
    BY CountPromptType DEF SubmitQueues
  <1> QED BY <1>2, <1>7, <1>8, UsedRests, SectionInv DEF SubmitQueues

-----------------------------------------------------------------------------
(* Cancels *)

LEMMA HoldInside ==
  ASSUME NEW x, Inside(x), NEW c \in Calls
  PROVE  /\ Inside(Hold(x, c)) /\ Hold(x, c).s = x.s
         /\ Hold(x, c).e.holds = x.e.holds \cup {c}
         /\ Hold(x, c).e.closed = x.e.closed /\ Hold(x, c).e.cur.id = x.e.cur.id
  <1> DEFINE holds == x.e.holds \cup {c}
             asked == x.e.cur.cancelAsked \/ x.e.cur.id # 0
             cur == [x.e.cur EXCEPT !.cancelAsked = asked]
             y == [x EXCEPT !.e.holds = holds, !.e.cur.cancelAsked = asked]
             e == [x.e EXCEPT !.holds = holds, !.cur = cur]
  <1>1. x.e \in EngType /\ x.e.cur \in Turn /\ holds \in SUBSET Calls
    BY DEF Inside, Section, EngType
  <1>2. asked \in BOOLEAN
    BY <1>1 DEF Turn
  <1>3. Hold(x, c) = y
    BY <1>1 DEF Hold, Inside, Section, EngType
  <1> HIDE DEF holds, asked
  <1>4. /\ cur \in Turn /\ cur.id = x.e.cur.id /\ cur.returned = x.e.cur.returned
        /\ cur.retry = x.e.cur.retry
    BY <1>1, <1>2 DEF Turn
  <1>5. e \in EngType
    BY <1>1, <1>4 DEF EngType
  <1>6. Section(y) /\ y.e = e /\ y.s = x.s
    BY <1>1, <1>5 DEF Inside, Section, EngType
  <1> HIDE DEF cur
  <1>7. /\ e.cur = cur /\ e.closed = x.e.closed /\ e.holds = holds
        /\ e.turnSeq = x.e.turnSeq /\ e.fenced = x.e.fenced
    BY <1>1 DEF EngType
  <1> HIDE DEF y, e
  <1>8. FencesAgree(y) /\ \A d \in y.s.conts : ContinuationOK(y, d)
    BY <1>6, <1>7 DEF Inside, Safe, FencesAgree, ContinuationOK
  <1>9. Safe(y)
    BY <1>4, <1>6, <1>7, <1>8 DEF Inside, Safe
  <1> QED BY <1>3, <1>4, <1>6, <1>7, <1>9 DEF Inside, holds

\* A cancel of the current turn is held.
LEMMA HeldInv ==
  ASSUME IInv, ~eng.closed, NEW c \in Calls, NEW x, Inside(x),
         x.s.slot = ses.slot, x.s.agent = ses.agent, x.e.holds = eng.holds \cup {c},
         Leave(x),
         NEW call \in Call, call.phase = "held", call.turn = eng.cur.id,
         calls' = [calls EXCEPT ![c] = call], hosts' = hosts, used' \in UsedType
  PROVE  IInv'
  <1>1. Safe(Enter) /\ Enter.e = eng /\ Enter.s = ses
    BY EnterInv
  <1>2. /\ x.s.slot \in {0, call.turn}
        /\ ~RetryForeignTurn /\ call.turn # 0 => ~Wake(x.s)
    BY <1>1 DEF Safe, Wake
  <1> QED BY <1>2, UsedRests, AfterCall DEF Inside

LEMMA HeldCall ==
  ASSUME IInv, NEW stop \in BOOLEAN
  PROVE  /\ [NoCall EXCEPT !.phase = "held", !.turn = eng.cur.id] \in Call
         /\ [NoCall EXCEPT !.phase = "held", !.turn = eng.cur.id, !.stop = stop] \in Call
  <1>1. eng.cur.id \in Nat
    BY EnterInv DEF EngType, Turn
  <1> QED BY <1>1 DEF NoCall, Call

LEMMA CancelHeldInv == ASSUME IInv, NEW c \in Calls, CancelHeld(c) PROVE IInv'
  <1> DEFINE r == Raise(Enter)
             x == LookIf(r, eng.cur.id = 0)
             y == Hold(x, c)
             call == [NoCall EXCEPT !.phase = "held", !.turn = eng.cur.id]
  <1>1. Inside(r) /\ r.s.slot = ses.slot /\ r.s.agent = ses.agent /\ r.e.holds = eng.holds
    BY RaisedInv
  <1>2. Leave(y) /\ ~eng.closed /\ calls' = [calls EXCEPT ![c] = call] /\ hosts' = hosts
    BY DEF CancelHeld
  <1>3. call \in Call /\ call.phase = "held" /\ call.turn = eng.cur.id
    <2>1. call \in Call
      BY HeldCall
    <2> QED BY <2>1 DEF NoCall
  <1>4. used' \in UsedType
    BY UsedRests DEF CancelHeld, UsedType
  <1> HIDE DEF r, call
  <1>5. /\ Inside(x) /\ x.s.slot = ses.slot /\ x.s.agent = ses.agent /\ x.e.holds = eng.holds
    BY <1>1, LookIfInside, LookIfSection DEF Inside, Same, SameButFence
  <1> HIDE DEF x
  <1>6. Inside(y) /\ y.s = x.s /\ y.e.holds = eng.holds \cup {c}
    BY <1>5, HoldInside
  <1> HIDE DEF y
  <1> QED BY <1>2, <1>3, <1>4, <1>5, <1>6, HeldInv

LEMMA StoppedInside ==
  ASSUME NEW x, Inside(x)
  PROVE  Inside([x EXCEPT !.e.stopped = TRUE]) /\ Same([x EXCEPT !.e.stopped = TRUE], x)
  <1> DEFINE y == [x EXCEPT !.e.stopped = TRUE]
             e == [x.e EXCEPT !.stopped = TRUE]
  <1>1. x.e \in EngType
    BY DEF Inside, Section
  <1>2. e \in EngType
    BY <1>1 DEF EngType
  <1>3. Section(y) /\ y.e = e /\ y.s = x.s
    BY <1>2 DEF Inside, Section
  <1> HIDE DEF y
  <1>4. Same(y, x)
    BY <1>1, <1>3 DEF Same, SameButFence, EngType
  <1> QED BY <1>3, <1>4, InsideSame DEF y

LEMMA StopHeldInv == ASSUME IInv, NEW c \in Calls, StopHeld(c) PROVE IInv'
  <1> DEFINE x == Raise(Enter)
             s == [x EXCEPT !.e.stopped = TRUE]
             q == ClearQueue(s)
             d == Disarm(q)
             y == IF eng.stopped THEN x ELSE d
             evs == y.qev \o y.dis
             p == Place(y, evs)
             z == Hold(p, c)
             call == [NoCall EXCEPT !.phase = "held", !.turn = eng.cur.id, !.stop = TRUE]
  <1>1. Inside(x) /\ x.s.slot = ses.slot /\ x.s.agent = ses.agent /\ x.e.holds = eng.holds
    BY RaisedInv
  <1>2. Leave(z) /\ ~eng.closed /\ calls' = [calls EXCEPT ![c] = call] /\ hosts' = hosts
    BY DEF StopHeld
  <1>3. call \in Call /\ call.phase = "held" /\ call.turn = eng.cur.id
    <2>1. call \in Call
      BY HeldCall
    <2> QED BY <2>1 DEF NoCall
  <1>4. used' \in UsedType
    BY UsedRests DEF StopHeld, UsedType
  <1> HIDE DEF x, call
  <1>5. Inside(s) /\ Same(s, x)
    BY <1>1, StoppedInside
  <1> HIDE DEF s
  <1>6. Inside(q) /\ Same(q, s)
    BY <1>5, ClearQueueInside, ClearQueueSection DEF Inside
  <1> HIDE DEF q
  <1>7. Inside(d) /\ Same(d, q)
    BY <1>6, DisarmInside, DisarmSection DEF Inside
  <1> HIDE DEF d
  <1>8. /\ Inside(y) /\ y.s.slot = ses.slot /\ y.s.agent = ses.agent /\ y.e.holds = eng.holds
    BY <1>1, <1>5, <1>6, <1>7 DEF Same, SameButFence
  <1> HIDE DEF y, evs
  <1>9. Inside(p) /\ p.s = y.s /\ p.e = y.e
    BY <1>8, PlaceInside, PlaceSection DEF Inside
  <1> HIDE DEF p
  <1>10. Inside(z) /\ z.s = p.s /\ z.e.holds = p.e.holds \cup {c}
    BY <1>9, HoldInside
  <1> HIDE DEF z
  <1> QED BY <1>2, <1>3, <1>4, <1>8, <1>9, <1>10, HeldInv

LEMMA SubmitArmsInv ==
  ASSUME IInv, NEW from \in Nat, NEW c \in Calls, SubmitArms(from, c)
  PROVE  IInv'
  <1> DEFINE x == Admission("send_now")
             h == Hold(x, c)
             armed == [turn |-> eng.cur.id, from |-> from]
             log == Append(h.log, ArmedEvent)
             y == [h EXCEPT !.e.armed = armed, !.log = log]
             e == [h.e EXCEPT !.armed = armed]
             call == [NoCall EXCEPT !.phase = "held", !.turn = eng.cur.id]
  <1>1. /\ Inside(x) /\ x.s.slot = ses.slot /\ x.s.agent = ses.agent /\ x.e.holds = eng.holds
        /\ x.e.closed = eng.closed
    BY AdmissionInv
  <1>2. Leave(y) /\ calls' = [calls EXCEPT ![c] = call] /\ hosts' = hosts
    BY DEF SubmitArms
  <1>3. ~eng.closed
    BY <1>1 DEF SubmitArms, SubmitOutcome, Refuses
  <1>4. call \in Call /\ call.phase = "held" /\ call.turn = eng.cur.id
    <2>1. call \in Call
      BY HeldCall
    <2> QED BY <2>1 DEF NoCall
  <1>5. used' \in UsedType
    <2> DEFINE n == IF from = 0 THEN used.prompts + 1 ELSE used.prompts
    <2>1. n \in Nat /\ used.cancels + 1 \in Nat
      BY UsedRests DEF UsedType
    <2>2. used' = [used EXCEPT !.prompts = n, !.cancels = used.cancels + 1]
      BY UsedRests DEF SubmitArms, UsedType
    <2> HIDE DEF n
    <2> QED BY <2>1, <2>2, UsedRests DEF UsedType
  <1>6. armed \in Send
    BY EnterInv DEF Send, EngType, Turn
  <1> HIDE DEF x, call, armed
  <1>7. Inside(h) /\ h.s = x.s /\ h.e.holds = eng.holds \cup {c}
    BY <1>1, HoldInside
  <1> HIDE DEF h, log
  <1>8. h.e \in EngType
    BY <1>7 DEF Inside, Section
  <1>9. e \in EngType
    BY <1>6, <1>8 DEF EngType
  <1>10. Section(y) /\ y.e = e /\ y.s = h.s
    BY <1>7, <1>9 DEF Inside, Section
  <1> HIDE DEF y
  <1>11. Same(y, h)
    BY <1>8, <1>10 DEF Same, SameButFence, EngType
  <1>12. Inside(y) /\ y.s = x.s /\ y.e.holds = eng.holds \cup {c}
    BY <1>7, <1>10, <1>11, InsideSame DEF Same, SameButFence
  <1> QED BY <1>1, <1>2, <1>3, <1>4, <1>5, <1>12, HeldInv

LEMMA SubmitInv == ASSUME IInv, Submit PROVE IInv'
  <1> DEFINE rows == {0} \cup {eng.queue[i].id : i \in DOMAIN eng.queue}
  <1>1. rows \subseteq Nat
    <2>1. eng.queue \in Seq(Row)
      BY EnterInv DEF EngType
    <2>2. \A i \in DOMAIN eng.queue : eng.queue[i] \in Row
      BY <2>1
    <2> QED BY <2>2 DEF Row
  <1>2. ASSUME NEW mode, NEW from, SubmitRefused(mode, from) PROVE IInv'
    BY <1>2, AdmissionInv, UsedRests, SectionInv DEF SubmitRefused
  <1>3. ASSUME NEW from \in rows, NEW mode, SubmitStarts(mode, from, FALSE) PROVE IInv'
    BY <1>1, <1>3, SubmitStartsInv
  <1>4. ASSUME NEW from \in rows, NEW c \in Calls, SubmitArms(from, c) PROVE IInv'
    BY <1>1, <1>4, SubmitArmsInv
  <1>5. ASSUME NEW fence \in BOOLEAN, SubmitQueues(fence) PROVE IInv'
    BY <1>5, SubmitQueuesInv
  <1>6. ASSUME SubmitStarts("queue", 0, TRUE) PROVE IInv'
    BY <1>6, SubmitStartsInv
  <1> HIDE DEF rows
  <1> QED BY <1>2, <1>3, <1>4, <1>5, <1>6 DEF Submit, rows

LEMMA CancelMarksInv == ASSUME IInv, NEW c \in Calls, CancelMarks(c) PROVE IInv'
  <1> DEFINE s == CancelMark(ses)
             z == [Enter EXCEPT !.s = s]
  <1>1. /\ Section(Enter) /\ Safe(Enter) /\ Covered(Enter) /\ Enter.e = eng /\ Enter.s = ses
        /\ eng \in EngType /\ ses \in SesType /\ calls \in [Calls -> Call]
    BY EnterInv DEF IInv, TypeOK
  <1>2. /\ s \in SesType /\ s.slot = ses.slot /\ s.conts = ses.conts /\ s.agent = ses.agent
        /\ s.fenced = ses.fenced
    BY <1>1 DEF CancelMark, SesType
  <1>3. eng' = eng /\ ses' = s /\ hosts' = hosts /\ used' = used
    BY DEF CancelMarks
  <1> HIDE DEF s
  <1>4. z.e = eng /\ z.s = s
    BY <1>1 DEF Section
  <1> HIDE DEF z
  <1>5. Safe(z) /\ Covered(z)
    BY <1>1, <1>2, <1>4 DEF Safe, Covered, FencesAgree, ContinuationOK, Wake
  <1>6. Safe(Enter)' /\ Covered(Enter)'
    BY <1>3, <1>4, <1>5, CommitState
  <1>7. /\ calls' \in [Calls -> Call] /\ calls[c].phase = "held" /\ calls'[c].phase = "marked"
        /\ \A d \in Calls \ {c} : calls'[d] = calls[d]
    <2> DEFINE call == [calls[c] EXCEPT !.phase = "marked", !.slot = ses.slot, !.wake = Wake(ses)]
    <2>1. calls[c] \in Call /\ Wake(ses) \in BOOLEAN /\ ses.slot \in Nat
      BY <1>1 DEF Wake, SesType
    <2>2. call \in Call /\ call.phase = "marked"
      BY <2>1 DEF Call
    <2>3. calls' = [calls EXCEPT ![c] = call] /\ calls[c].phase = "held"
      BY DEF CancelMarks
    <2> HIDE DEF call
    <2> QED BY <1>1, <2>2, <2>3
  <1>8. TypeOK'
    BY <1>1, <1>2, <1>3, <1>7 DEF IInv, TypeOK
  <1>9. HoldsMatch'
    <2> SUFFICES ASSUME NEW d \in Calls PROVE d \in eng.holds <=> calls'[d].phase # "idle"
      BY <1>3 DEF HoldsMatch
    <2> QED BY <1>7 DEF IInv, HoldsMatch
  <1>10. CancelLandsOnItsTurn'
    <2>1. Wake(s) <=> Wake(ses)
      BY <1>2 DEF Wake
    <2> QED BY <1>2, <1>3, <1>7, <2>1 DEF IInv, CancelLandsOnItsTurn
  <1> QED BY <1>6, <1>8, <1>9, <1>10 DEF IInv

LEMMA ReleaseInv == ASSUME IInv, NEW c \in Calls, NEW failed \in BOOLEAN, Release(c, failed) PROVE IInv'
  <1> DEFINE r == Raise(Enter)
             holds == r.e.holds \ {c}
             x == [r EXCEPT !.e.holds = holds]
             e == [r.e EXCEPT !.holds = holds]
             d == Disarm(x)
             p == Place(d, d.dis)
             lost == failed /\ eng.armed # NoSend /\ eng.armed.turn = calls[c].turn
             y == IF lost THEN p ELSE x
  <1>1. /\ Inside(r) /\ Section(r) /\ r.e \in EngType
        /\ r.s.slot = ses.slot /\ r.s.agent = ses.agent /\ r.e.holds = eng.holds
    BY RaisedInv
  <1>2. Leave(Pass(y)) /\ calls' = [calls EXCEPT ![c] = NoCall] /\ hosts' = hosts /\ used' = used
    BY DEF Release
  <1> HIDE DEF r, lost
  <1>3. holds \in SUBSET Calls /\ holds = eng.holds \ {c}
    BY <1>1 DEF EngType
  <1> HIDE DEF holds
  <1>4. e \in EngType
    BY <1>1, <1>3 DEF EngType
  <1>5. Section(x) /\ x.e = e /\ x.s = r.s
    BY <1>1, <1>4 DEF Section
  <1>6. /\ e.cur = r.e.cur /\ e.closed = r.e.closed /\ e.holds = holds
        /\ e.turnSeq = r.e.turnSeq /\ e.fenced = r.e.fenced
    BY <1>1 DEF EngType
  <1> HIDE DEF x, e
  <1>7. FencesAgree(x) /\ \A f \in x.s.conts : ContinuationOK(x, f)
    BY <1>1, <1>5, <1>6 DEF Inside, Safe, FencesAgree, ContinuationOK
  <1>8. Safe(x)
    BY <1>1, <1>5, <1>6, <1>7 DEF Inside, Safe
  <1>9. Inside(x)
    BY <1>1, <1>5, <1>8 DEF Inside
  <1>10. Inside(d) /\ Keeps(d, x)
    BY <1>9, DisarmInside
  <1> HIDE DEF d
  <1>11. Inside(p) /\ Keeps(p, d)
    BY <1>10, PlaceInside
  <1> HIDE DEF p
  <1>12. Inside(y) /\ Keeps(y, x)
    BY <1>9, <1>10, <1>11, KeepsTransitive DEF Keeps
  <1> HIDE DEF y
  <1>13. Inside(Pass(y)) /\ Keeps(Pass(y), x)
    BY <1>12, PassInside, KeepsTransitive
  <1> DEFINE z == Pass(y)
  <1> HIDE DEF z
  <1>14. /\ Section(z) /\ Safe(z) /\ Leave(z) /\ z.e.holds = eng.holds \ {c} /\ z.s.agent = ses.agent
         /\ eng.holds \ {c} # {} => z.s.slot = ses.slot
    BY <1>1, <1>2, <1>3, <1>5, <1>6, <1>13 DEF Inside, Keeps, z
  <1>15. NoCall \in Call /\ NoCall.phase = "idle"
    BY DEF NoCall, Call
  <1> QED BY <1>2, <1>14, <1>15, UsedRests, AfterCall

LEMMA CancelInv == ASSUME IInv, CancelNext PROVE IInv'
  <1> SUFFICES ASSUME NEW c \in Calls,
                      CancelHeld(c) \/ StopHeld(c) \/ CancelMarks(c) \/ CancelReturns(c) \/ StopAbandoned(c)
               PROVE  IInv'
    BY DEF CancelNext
  <1>1. CancelReturns(c) \/ StopAbandoned(c) => Release(c, FALSE) \/ Release(c, TRUE)
    BY DEF CancelReturns, StopAbandoned
  <1> QED BY <1>1, CancelHeldInv, StopHeldInv, CancelMarksInv, ReleaseInv

LEMMA CancelRefusedInv == ASSUME IInv, CancelRefused PROVE IInv'
  BY RaisedInv, UsedRests, SectionInv DEF CancelRefused

-----------------------------------------------------------------------------
(* Giving up *)

LEMMA GiveUpInv == ASSUME IInv, GiveUp PROVE IInv'
  <1> DEFINE r == Raise(Enter)
             cur == [r.e.cur EXCEPT !.givenUp = TRUE, !.retry = FALSE, !.retryDue = FALSE]
             x == [r EXCEPT !.e.cur = cur]
             e == [r.e EXCEPT !.cur = cur]
             y == IF eng.holds = {} THEN Settle(x) ELSE x
  <1>1. /\ Inside(r) /\ Keeps(r, Enter) /\ Section(r) /\ r.e \in EngType /\ r.e.cur \in Turn
        /\ r.e.closed = eng.closed /\ r.e.cur.retry = eng.cur.retry
        /\ r.e.cur.retry => r.e.cur.returned
    BY RaisedInv DEF EngType, Inside, Safe
  <1>2. Leave(y) /\ ~eng.closed /\ eng.cur.retry
    BY DEF GiveUp
  <1> HIDE DEF r
  <1>3. cur \in Turn /\ cur.id = r.e.cur.id /\ cur.returned = r.e.cur.returned /\ cur.retry = FALSE
    BY <1>1 DEF Turn
  <1> HIDE DEF cur
  <1>4. e \in EngType
    BY <1>1, <1>3 DEF EngType
  <1>5. Section(x) /\ x.e = e /\ x.s = r.s
    BY <1>1, <1>4 DEF Section
  <1>6. /\ e.cur = cur /\ e.closed = r.e.closed /\ e.holds = r.e.holds
        /\ e.turnSeq = r.e.turnSeq /\ e.fenced = r.e.fenced
    BY <1>1 DEF EngType
  <1> HIDE DEF x, e
  <1>7. Inside(x) /\ Keeps(x, r)
    BY <1>1, <1>3, <1>5, <1>6, TurnChanges
  <1>8. x.e.cur.returned /\ ~x.e.closed
    BY <1>1, <1>2, <1>3, <1>5, <1>6
  <1>9. Inside(Settle(x)) /\ Keeps(Settle(x), x)
    BY <1>7, <1>8, SettleInside
  <1>10. Inside(y) /\ Keeps(y, Enter)
    BY <1>1, <1>7, <1>9, KeepsTransitive
  <1> QED BY <1>2, <1>10, UsedRests, SectionInv DEF GiveUp

LEMMA GiveUpDrainInv == ASSUME IInv, GiveUpDrain PROVE IInv'
  <1> DEFINE x == Raise(Enter)
             y == IF eng.cur.id = 0 THEN Pass(x) ELSE x
             s == [y EXCEPT !.e.stopped = TRUE]
             z == Disarm(s)
             p == Place(z, z.dis)
             w == IF y.e.cur.id # 0 THEN y ELSE p
  <1>1. Inside(x) /\ Keeps(x, Enter)
    BY RaisedInv
  <1>2. Leave(w)
    BY DEF GiveUpDrain
  <1> HIDE DEF x
  <1>3. Inside(y) /\ Keeps(y, Enter)
    BY <1>1, PassInside, KeepsTransitive
  <1> HIDE DEF y
  <1>4. Inside(s) /\ Keeps(s, y)
    BY <1>3, StoppedInside, InsideSame DEF Inside
  <1> HIDE DEF s
  <1>5. Inside(z) /\ Keeps(z, s)
    BY <1>4, DisarmInside
  <1> HIDE DEF z
  <1>6. Inside(p) /\ Keeps(p, z)
    BY <1>5, PlaceInside
  <1> HIDE DEF p
  <1>7. Inside(w) /\ Keeps(w, Enter)
    BY <1>3, <1>4, <1>5, <1>6, KeepsTransitive
  <1> QED BY <1>2, <1>7, UsedRests, SectionInv DEF GiveUpDrain

-----------------------------------------------------------------------------
(* The theorems *)

LEMMA InitInv == Init => IInv
  <1> SUFFICES ASSUME Init PROVE IInv
    OBVIOUS
  <1>1. PICK loads \in BOOLEAN : eng = EngInit(loads)
    BY DEF Init
  <1>2. /\ NoTurn \in Turn /\ NoSend \in Send /\ NoFence \in ExitFence /\ NoCall \in Call /\ NoHost \in Host
        /\ NoTurn.id = 0 /\ NoTurn.returned = FALSE /\ NoTurn.retry = FALSE /\ NoCall.phase = "idle"
    BY DEF NoTurn, Turn, NoSend, Send, NoFence, ExitFence, NoCall, Call, NoHost, Host
  <1>3. eng \in EngType
    BY <1>1, <1>2 DEF EngInit, EngType, Activities
  <1>4. ses \in SesType
    BY SessionAssumption DEF Init, SesInit, SesType, AgentPhases, SessionAssumption
  <1>5. calls \in [Calls -> Call] /\ hosts \in [Hosts -> Host]
        /\ used \in [{"prompts", "cancels", "edits", "steers", "fences"} -> Nat]
    BY <1>2 DEF Init
  <1>6. /\ ses.slot = 0 /\ ses.conts = {} /\ ses.fenced = FALSE /\ ses.agent = "none"
        /\ eng.fenced = FALSE /\ eng.cur = NoTurn /\ eng.turnSeq = 0 /\ eng.holds = {} /\ eng.closed = FALSE
    BY <1>1 DEF Init, SesInit, EngInit
  <1>7. Enter.e = eng /\ Enter.s = ses /\ ~Wake(ses)
    BY <1>6 DEF Enter, Wake
  <1>8. Safe(Enter) /\ Covered(Enter)
    <2>1. FencesAgree(Enter) /\ Covered(Enter)
      BY <1>2, <1>6, <1>7 DEF Covered, FencesAgree
    <2>2. /\ Enter.e.cur.id = 0 /\ Enter.e.turnSeq = 0 /\ Enter.s.slot = 0 /\ Enter.s.conts = {}
          /\ Enter.e.cur.returned = FALSE /\ Enter.e.cur.retry = FALSE /\ ~Wake(Enter.s)
      BY <1>2, <1>6, <1>7
    <2> QED BY <2>1, <2>2 DEF Safe
  <1>9. HoldsMatch /\ CancelLandsOnItsTurn
    BY <1>2, <1>6 DEF Init, HoldsMatch, CancelLandsOnItsTurn
  <1> QED BY <1>3, <1>4, <1>5, <1>8, <1>9 DEF IInv, TypeOK

LEMMA NextInv == IInv /\ [Next]_vars => IInv'
  <1> SUFFICES ASSUME IInv, [Next]_vars PROVE IInv'
    OBVIOUS
  <1>1. CASE UNCHANGED vars
    BY <1>1 DEF vars, IInv, TypeOK, HoldsMatch, CancelLandsOnItsTurn, Safe, Covered, Enter,
                FencesAgree, ContinuationOK, Wake
  <1>2. CASE SessionStep
    BY <1>2, SessionStepInv
  <1>3. CASE DriverNext
    BY <1>3, DriverInv
  <1>4. CASE \E c \in ses.conts : Return(c)
    BY <1>4, ReturnInv
  <1>5. CASE \E ok \in BOOLEAN : Started(ok)
    BY <1>5, StartedInv
  <1>6. CASE Submit
    BY <1>6, SubmitInv
  <1>7. CASE InterjectAdmitted \/ InterjectMade
    BY <1>7, InterjectInv
  <1>8. CASE QueueVerb
    BY <1>8, QueueVerbInv
  <1>9. CASE DisarmSend
    BY <1>9, DisarmSendInv
  <1>10. CASE CancelNext \/ CancelRefused
    BY <1>10, CancelInv, CancelRefusedInv
  <1>11. CASE GiveUp \/ GiveUpDrain
    BY <1>11, GiveUpInv, GiveUpDrainInv
  <1>12. CASE HostNext
    BY <1>12, HostInv DEF HostNext
  <1>13. CASE CloseEngine \/ CloseSession
    BY <1>13, CloseInv
  <1> QED BY <1>1, <1>2, <1>3, <1>4, <1>5, <1>6, <1>7, <1>8, <1>9, <1>10, <1>11, <1>12, <1>13 DEF Next

LEMMA Invariance == Spec => []IInv
  BY InitInv, NextInv, PTL DEF Spec

\* The engine's and the session's state stay within their types, for every
\* session, policy, set of clients and bound: no section (a claim, a
\* settlement, a restored row) leaves a field that its type does not allow.
THEOREM TypeCorrect == Spec => []TypeOK
  <1>1. IInv => TypeOK
    BY DEF IInv
  <1> QED BY <1>1, Invariance, PTL

\* A cancel never lands on a turn it was not validated against: holdCancelLocked
\* keeps every claim out (cancelsInFlight), and the admission fence every wake,
\* until releaseHold.
THEOREM CancelLands == Spec => []CancelLandsOnItsTurn
  <1>1. IInv => CancelLandsOnItsTurn
    BY DEF IInv
  <1> QED BY <1>1, Invariance, PTL

\* Every claim the engine makes is granted: Begin is called with the slot free,
\* and on a native session with no wake in it.
THEOREM ClaimsGranted == Spec => []ClaimsAreGranted
  <1>1. IInv => ClaimsAreGranted
    BY DEF IInv, Safe, Enter, ContinuationOK, ClaimsAreGranted
  <1> QED BY <1>1, Invariance, PTL
=============================================================================
