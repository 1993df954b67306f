--------------------------- MODULE EventLogProofs ---------------------------
(***************************************************************************)
(* The event log keeps what Feed promises its readers, for any number of   *)
(* publishers and subscriptions and any capacities.                        *)
(*                                                                         *)
(* The argument is one window per subscription: the record being sent, the *)
(* rest of the pin or batch and the live buffer are consecutive seqs that  *)
(* follow what the reader has, and while nothing has ended it they reach   *)
(* the last one committed (Window).  It stands on a running subscription   *)
(* being registered until Close's last section (SubOK), on the ring being  *)
(* a suffix of the log (RingIsSuffix), and on nothing being committed      *)
(* after that section, because Close has joined the drainer and seen the   *)
(* last publisher out (Cutoffs).  Accounts adds what each subscription is  *)
(* charged for: the records it holds, and nothing its reader was sent.     *)
(*                                                                         *)
(* The second part is about the outbox's promises to those who enqueue and *)
(* those who flush, and has an invariant of its own that counts batches:   *)
(* Taken have left the outbox, Whole of them are committed to their end,   *)
(* and the one in the drainer's hand owns the log's last places, because   *)
(* the boundary is held until its last record (Boundary, Recorded).  The   *)
(* totals a Flush compares are partial sums of the sizes, which some       *)
(* function t gives (Totals); so an empty outbox and a drainer with        *)
(* nothing in hand mean that all that was enqueued is drained, and no      *)
(* flush is parked past it (Flushes).                                      *)
(***************************************************************************)
EXTENDS EventLog, SequenceTheorems, FiniteSetTheorems, TLAPS

-----------------------------------------------------------------------------
(* The invariant *)

SubType ==
  [st : {"none", "running", "finished"}, prev : Nat, hto : Nat,
   leg : {"head", "pin", "live", "parked"}, local : Seq(Nat), live : Seq(Nat),
   sending : Nat, items : Int, bytes : Int, notify : BOOLEAN,
   cause : {"none", "closed", "slow", "cursor", "hole"}, byLog : BOOLEAN,
   tail : Seq(Nat), tailErr : {"no_rest", "none", "unavailable", "hole"}]

\* What the owner's pin or batch follows.
Base(x) == IF x.leg = "head" THEN x.hto ELSE IF x.sending = 0 THEN x.prev ELSE x.sending

Reach(x) == Base(x) + Len(x.local) + Len(x.live)

\* What a subscription holds is consecutive, and follows what its reader has.
Window(x, n) ==
  /\ x.sending # 0 => x.sending = x.prev + 1
  /\ x.leg = "head" => x.prev < x.hto
  /\ x.leg = "parked" => x.local = <<>> /\ x.sending = 0
  /\ \A i \in 1..Len(x.local) : x.local[i] = Base(x) + i
  /\ \A i \in 1..Len(x.live) : x.live[i] = Base(x) + Len(x.local) + i
  /\ Reach(x) <= n
  /\ x.cause = "none" \/ x.byLog => Reach(x) = n

Subscription(x, n) ==
  /\ x.st = "none" => x = NotOpened
  /\ x.st = "running" => /\ Window(x, n) /\ x.cause # "hole"
                          /\ x.tail = <<>> /\ x.tailErr = "no_rest"
  /\ x.st = "finished" => x.cause \notin {"none", "hole"} /\ x.tailErr # "hole" /\ x.sending = 0
  /\ x.byLog => x.cause # "none"

SubOK(s) ==
  /\ Subscription(sub[s], Last)
  /\ sub[s].st = "running" /\ sub[s].cause = "none" => s \in registered \/ Shut
  /\ sub[s].byLog => Shut
  /\ s \in registered \cup ending => sub[s].st # "none"

RingIsSuffix ==
  /\ ring \in Seq(Nat) /\ Len(ring) <= Last
  /\ ring = <<>> => Last = 0
  /\ \A i \in 1..Len(ring) : ring[i] = Last - Len(ring) + i

Cutoffs ==
  /\ drainer = [at |-> drainer.at, batch |-> drainer.batch, left |-> drainer.left,
                first |-> drainer.first]
  /\ drainer.batch \in Nat /\ outbox \in Seq(Nat) /\ sizes \in Seq(Nat)
  /\ Closing => drainer.at \in {"none", "exited"}
  /\ pc \in [Publishers -> {"out", "waiting", "inside"}]
  /\ Shut => \A p \in Publishers : pc[p] = "out"

IInv ==
  /\ log \in Seq(Nat)
  /\ sub \in [Subs -> SubType] /\ registered \subseteq Subs /\ ending \subseteq Subs
  /\ RingIsSuffix /\ Cutoffs
  /\ \A s \in Subs : SubOK(s)

-----------------------------------------------------------------------------
(* What a commit does to a subscription *)

LEMMA NotOpenedIsOne == NotOpened \in SubType /\ \A n \in Nat : Subscription(NotOpened, n)
  BY DEF NotOpened, SubType, Subscription

LEMMA OfferType ==
  ASSUME NEW x \in SubType, NEW seq \in Nat
  PROVE  Offer(x, seq) \in SubType
  <1>1. Append(x.live, seq) \in Seq(Nat)
    BY AppendProperties DEF SubType
  <1>2. CASE x.cause # "none"
    BY <1>2 DEF Offer
  <1>3. CASE x.cause = "none" /\ (x.items >= MaxItems \/ x.bytes + 1 > MaxBytes)
    <2>1. Offer(x, seq) = [x EXCEPT !.cause = "slow"]
      BY <1>3 DEF Offer, Ended
    <2>2. QED
      BY <2>1 DEF SubType
  <1>4. CASE x.cause = "none" /\ ~(x.items >= MaxItems \/ x.bytes + 1 > MaxBytes)
    <2> DEFINE l == Append(x.live, seq)
    <2>1. Offer(x, seq) = [x EXCEPT !.live = l, !.items = @ + 1, !.bytes = @ + 1, !.notify = TRUE]
      BY <1>4 DEF Offer
    <2>2. l \in Seq(Nat)
      BY <1>1
    <2>3. x.items + 1 \in Int /\ x.bytes + 1 \in Int
      BY DEF SubType
    <2> DEFINE i == x.items + 1
               b == x.bytes + 1
    <2>4. Offer(x, seq) = [x EXCEPT !.live = l, !.items = i, !.bytes = b, !.notify = TRUE]
      BY <2>1 DEF SubType
    <2>5. i \in Int /\ b \in Int
      BY <2>3
    <2> HIDE DEF l, i, b
    <2>6. [x EXCEPT !.live = l, !.items = i, !.bytes = b, !.notify = TRUE] \in SubType
      BY <2>2, <2>5 DEF SubType
    <2>7. QED
      BY <2>4, <2>6
  <1>5. QED
    BY <1>2, <1>3, <1>4

LEMMA LaterWindow ==
  ASSUME NEW x \in SubType, NEW n \in Nat, Subscription(x, n),
         x.st = "running" => x.cause # "none" /\ ~x.byLog
  PROVE  Subscription(x, n + 1)
  BY DEF Subscription, Window, Reach, Base, SubType

LEMMA OfferKeeps ==
  ASSUME NEW x \in SubType, NEW n \in Nat, Subscription(x, n), x.st # "none",
         x.st = "running" => ~x.byLog
  PROVE  Subscription(Offer(x, n + 1), n + 1)
  <1>1. CASE x.cause # "none"
    <2>1. Offer(x, n + 1) = x
      BY <1>1 DEF Offer
    <2>2. QED
      BY <1>1, <2>1, LaterWindow
  <1>2. CASE x.cause = "none"
    <2>1. x.st = "running" /\ Window(x, n)
      BY <1>2 DEF Subscription, SubType
    <2>2. CASE x.items >= MaxItems \/ x.bytes + 1 > MaxBytes
      <3> DEFINE y == [x EXCEPT !.cause = "slow"]
      <3>1. Offer(x, n + 1) = y
        BY <1>2, <2>2 DEF Offer, Ended
      <3>2. y \in SubType /\ Subscription(y, n)
        <4>1. /\ y.st = x.st /\ y.cause = "slow" /\ y.byLog = x.byLog
              /\ y.tail = x.tail /\ y.tailErr = x.tailErr /\ y.sending = x.sending
          BY DEF SubType
        <4>2. /\ y.prev = x.prev /\ y.leg = x.leg /\ y.hto = x.hto
              /\ y.local = x.local /\ y.live = x.live
          BY DEF SubType
        <4>3. y \in SubType
          BY DEF SubType
        <4> HIDE DEF y
        <4>4. Base(y) = Base(x) /\ Reach(y) = Reach(x)
          BY <4>1, <4>2 DEF Base, Reach
        <4>5. Window(y, n)
          BY <2>1, <4>1, <4>2, <4>4 DEF Window
        <4>6. QED
          BY <2>1, <4>1, <4>3, <4>5 DEF Subscription
      <3>3. y.cause = "slow" /\ y.byLog = x.byLog
        BY DEF SubType
      <3>4. Subscription(y, n + 1)
        BY <2>1, <3>2, <3>3, LaterWindow
      <3>5. QED
        BY <3>1, <3>4
    <2>3. CASE ~(x.items >= MaxItems \/ x.bytes + 1 > MaxBytes)
      <3> DEFINE l == Append(x.live, n + 1)
                 y == [x EXCEPT !.live = l, !.items = @ + 1, !.bytes = @ + 1, !.notify = TRUE]
      <3>1. Offer(x, n + 1) = y
        BY <1>2, <2>3 DEF Offer
      <3>2. /\ l \in Seq(Nat) /\ Len(l) = Len(x.live) + 1
            /\ \A i \in 1..Len(x.live) : l[i] = x.live[i]
            /\ l[Len(x.live) + 1] = n + 1
        BY AppendProperties DEF SubType
      <3> HIDE DEF l
      <3>3. /\ y.st = "running" /\ y.cause = "none" /\ y.live = l /\ y.local = x.local
            /\ y.leg = x.leg /\ y.hto = x.hto /\ y.prev = x.prev /\ y.sending = x.sending
            /\ y.byLog = x.byLog /\ y.tail = x.tail /\ y.tailErr = x.tailErr
        BY <1>2, <2>1 DEF SubType
      <3> HIDE DEF y
      <3>4. /\ Base(y) = Base(x) /\ Base(x) \in Nat
            /\ Len(x.local) \in Nat /\ Len(x.live) \in Nat
            /\ Base(x) + Len(x.local) + Len(x.live) = n
        BY <1>2, <2>1, <3>3 DEF Base, SubType, Window, Reach
      <3>9. Base(x) + Len(x.local) + (Len(x.live) + 1) = n + 1
        <4>1. PICK a \in Nat, b \in Nat, c \in Nat :
                a = Base(x) /\ b = Len(x.local) /\ c = Len(x.live) /\ a + b + c = n
          BY <3>4
        <4>2. a + b + c = n
          BY <4>1, Zenon
        <4>3. a + b + (c + 1) = n + 1
          BY <4>2
        <4>4. QED
          BY <4>1, <4>3, Zenon
      <3>5. ASSUME NEW i \in 1..Len(l)
            PROVE  l[i] = Base(y) + Len(y.local) + i
        <4>1. i \in 1..Len(x.live) \/ i = Len(x.live) + 1
          BY <3>2, <3>4
        <4>2. \A j \in 1..Len(x.live) : x.live[j] = Base(x) + Len(x.local) + j
          BY <2>1 DEF Window
        <4>3. Len(y.local) = Len(x.local)
          BY <3>3
        <4>4. CASE i \in 1..Len(x.live)
          BY <3>2, <3>4, <4>2, <4>3, <4>4
        <4>5. CASE i = Len(x.live) + 1
          <5>1. l[i] = n + 1
            BY <3>2, <4>5
          <5>2. Base(y) + Len(y.local) + i = Base(x) + Len(x.local) + (Len(x.live) + 1)
            BY <3>4, <4>3, <4>5
          <5>3. Base(x) + Len(x.local) + (Len(x.live) + 1) = n + 1
            BY <3>9
          <5>4. QED
            BY <5>1, <5>2, <5>3
        <4>6. QED
          BY <4>1, <4>4, <4>5
      <3>6. Reach(y) = n + 1
        <4>1. Len(y.local) = Len(x.local) /\ Len(y.live) = Len(x.live) + 1
          BY <3>2, <3>3
        <4>2. Reach(y) = Base(x) + Len(x.local) + (Len(x.live) + 1)
          BY <3>4, <4>1 DEF Reach
        <4>3. Base(x) + Len(x.local) + (Len(x.live) + 1) = n + 1
          BY <3>9
        <4>4. QED
          BY <4>2, <4>3
      <3>7. Window(y, n + 1)
        BY <2>1, <3>3, <3>4, <3>5, <3>6 DEF Window
      <3>8. QED
        BY <1>2, <2>1, <3>1, <3>3, <3>7 DEF Subscription
    <2>4. QED
      BY <2>2, <2>3
  <1>3. QED
    BY <1>1, <1>2

-----------------------------------------------------------------------------
(* What a reader of the sequence sees of a step *)

\* The steps Feed allows a reader that stands at a, of n records.
Moves(a, b, n, shut) ==
  \/ b = a
  \/ /\ a.st \in {"catching_up", "following"} /\ a.at < n
     /\ \E st \in {a.st, "following"} : b = [st |-> st, at |-> a.at + 1, owed |-> {}]
  \/ a.st \in {"catching_up", "following"} /\ b = [st |-> "left", at |-> a.at, owed |-> {}]
  \/ /\ shut /\ a.st = "following"
     /\ b = [st |-> "closed", at |-> a.at, owed |-> (a.at + 1)..n]
  \/ shut /\ a.st = "catching_up" /\ b = [st |-> "unavailable", at |-> a.at, owed |-> {}]

LEMMA SameReader ==
  ASSUME NEW x, NEW y, FeedStatus(y) = FeedStatus(x), y.prev = x.prev, y.tail = x.tail
  PROVE  FeedReader(y) = FeedReader(x)
  BY DEF FeedReader

LEMMA OfferUnseen ==
  ASSUME NEW x \in SubType, NEW n \in Nat, Subscription(x, n), NEW seq \in Nat
  PROVE  FeedReader(Offer(x, seq)) = FeedReader(x)
  <1> DEFINE y == Offer(x, seq)
  <1>1. /\ y.st = x.st /\ y.prev = x.prev /\ y.leg = x.leg /\ y.byLog = x.byLog
        /\ y.tail = x.tail /\ y.tailErr = x.tailErr
    BY DEF Offer, Ended, SubType
  <1>2. x.st = "finished" => y.cause = x.cause
    BY DEF Offer, Subscription
  <1> HIDE DEF y
  <1>3. FeedStatus(y) = FeedStatus(x)
    BY <1>1, <1>2 DEF FeedStatus, SubType
  <1>4. FeedReader(y) = FeedReader(x)
    BY <1>1, <1>3, SameReader
  <1>5. QED
    BY <1>4 DEF y

-----------------------------------------------------------------------------
(* What an owner, its reader or the log does to a subscription *)

\* A step of a running subscription that keeps the invariant, and that Feed
\* allows its reader.
GoodStep(x, y, n, shut) ==
  /\ y \in SubType /\ Subscription(y, n)
  /\ y.st \in {"running", "finished"} /\ y.byLog = x.byLog
  /\ y.st = "running" /\ y.cause = "none" => x.cause = "none"
  /\ Moves(FeedReader(x), FeedReader(y), n, shut)

Following(x) == IF x.leg = "head" THEN "catching_up" ELSE "following"

LEMMA RunningReader ==
  ASSUME NEW x \in SubType, x.st = "running", x.tail = <<>>
  PROVE  FeedReader(x) = [st |-> Following(x), at |-> x.prev, owed |-> {}]
  <1>1. FeedStatus(x) = Following(x)
    BY DEF FeedStatus, Following
  <1>2. {x.tail[i] : i \in DOMAIN x.tail} = {}
    OBVIOUS
  <1>3. QED
    BY <1>1, <1>2 DEF FeedReader

LEMMA SendHeadGood ==
  ASSUME NEW x \in SubType, NEW n \in Nat, NEW shut \in BOOLEAN, Subscription(x, n),
         x.st = "running", x.leg = "head", x.sending = 0, x.cause = "none"
  PROVE  GoodStep(x, [x EXCEPT !.sending = x.prev + 1], n, shut)
  <1> DEFINE h == x.prev + 1
             y == [x EXCEPT !.sending = h]
  <1>1. y \in SubType
    <2>1. h \in Nat
      BY DEF SubType
    <2> HIDE DEF h
    <2>2. QED
      BY <2>1 DEF SubType
  <1>2. /\ y.st = x.st /\ y.prev = x.prev /\ y.leg = x.leg /\ y.hto = x.hto /\ y.tail = x.tail
        /\ y.byLog = x.byLog /\ y.cause = x.cause /\ y.local = x.local /\ y.live = x.live
        /\ y.tailErr = x.tailErr /\ y.sending = x.prev + 1
    BY DEF SubType
  <1> HIDE DEF y
  <1>3. Subscription(y, n)
    BY <1>2 DEF Subscription, Window, Reach, Base
  <1>4. FeedReader(y) = FeedReader(x)
    <2>1. FeedStatus(y) = FeedStatus(x)
      BY <1>2 DEF FeedStatus
    <2>2. QED
      BY <1>2, <2>1, SameReader
  <1>5. GoodStep(x, y, n, shut)
    BY <1>1, <1>2, <1>3, <1>4 DEF GoodStep, Moves
  <1>6. QED
    BY <1>5 DEF y

LEMMA NotifiedGood ==
  ASSUME NEW x \in SubType, NEW n \in Nat, NEW shut \in BOOLEAN, Subscription(x, n),
         x.st = "running", x.leg = "parked"
  PROVE  GoodStep(x, [x EXCEPT !.leg = "live", !.notify = FALSE], n, shut)
  <1> DEFINE y == [x EXCEPT !.leg = "live", !.notify = FALSE]
  <1>1. y \in SubType
    BY DEF SubType
  <1>2. /\ y.st = x.st /\ y.prev = x.prev /\ y.leg = "live" /\ y.hto = x.hto /\ y.tail = x.tail
        /\ y.byLog = x.byLog /\ y.cause = x.cause /\ y.local = x.local /\ y.live = x.live
        /\ y.tailErr = x.tailErr /\ y.sending = x.sending
    BY DEF SubType
  <1> HIDE DEF y
  <1>3. Subscription(y, n)
    BY <1>2 DEF Subscription, Window, Reach, Base
  <1>4. FeedReader(y) = FeedReader(x)
    <2>1. Following(y) = Following(x)
      BY <1>2 DEF Following
    <2>2. x.tail = <<>> /\ y.tail = <<>>
      BY <1>2 DEF Subscription
    <2>3. QED
      BY <1>1, <1>2, <2>1, <2>2, RunningReader
  <1>5. GoodStep(x, y, n, shut)
    BY <1>1, <1>2, <1>3, <1>4 DEF GoodStep, Moves
  <1>6. QED
    BY <1>5 DEF y

LEMMA EndedKeeps ==
  ASSUME NEW x \in SubType, NEW n \in Nat, Subscription(x, n),
         x.st = "running", x.cause = "none", NEW cause \in {"closed", "cursor"}
  PROVE  LET y == Ended(x, cause)
         IN /\ y \in SubType /\ Subscription(y, n) /\ FeedReader(y) = FeedReader(x)
            /\ y.st = "running" /\ y.cause = cause /\ y.byLog = x.byLog
  <1> DEFINE y == Ended(x, cause)
  <1>1. y \in SubType
    BY DEF Ended, SubType
  <1>2. /\ y.st = x.st /\ y.prev = x.prev /\ y.leg = x.leg /\ y.hto = x.hto /\ y.tail = x.tail
        /\ y.byLog = x.byLog /\ y.cause = cause /\ y.local = x.local /\ y.live = x.live
        /\ y.tailErr = x.tailErr /\ y.sending = x.sending
    BY DEF Ended, SubType
  <1> HIDE DEF y
  <1>3. Subscription(y, n)
    BY <1>2 DEF Subscription, Window, Reach, Base
  <1>4. FeedReader(y) = FeedReader(x)
    <2>1. FeedStatus(y) = FeedStatus(x)
      BY <1>2 DEF FeedStatus
    <2>2. QED
      BY <1>2, <2>1, SameReader
  <1>5. QED
    BY <1>1, <1>2, <1>3, <1>4 DEF y

LEMMA DetachGood ==
  ASSUME NEW x \in SubType, NEW n \in Nat, NEW shut \in BOOLEAN, Subscription(x, n),
         x.st = "running", x.cause = "none"
  PROVE  GoodStep(x, Ended(x, "closed"), n, shut)
  BY EndedKeeps DEF GoodStep, Moves

LEMMA HandOverGood ==
  ASSUME NEW x \in SubType, NEW n \in Nat, NEW shut \in BOOLEAN, Subscription(x, n),
         x.st = "running", x.leg # "head", x.local # <<>>, x.sending = 0, x.cause = "none"
  PROVE  Head(x.local) = x.prev + 1 /\ GoodStep(x, HandOver(x), n, shut)
  <1> DEFINE y == HandOver(x)
             l == Tail(x.local)
             h == Head(x.local)
  <1>1. /\ l \in Seq(Nat) /\ h \in Nat /\ Len(x.local) \in Nat \ {0}
        /\ Len(l) = Len(x.local) - 1
        /\ \A i \in 1..Len(l) : l[i] = x.local[i + 1]
        /\ h = x.local[1]
    BY HeadTailProperties DEF SubType
  <1> DEFINE it == IF x.leg = "live" THEN x.items - 1 ELSE x.items
             by == x.bytes - 1
  <1>2. it \in Int /\ by \in Int
    BY DEF SubType
  <1>3. y = [x EXCEPT !.local = l, !.sending = h, !.bytes = by, !.items = it]
    BY DEF HandOver, SubType
  <1> HIDE DEF y, l, h, it, by
  <1>4. y \in SubType
    BY <1>1, <1>2, <1>3 DEF SubType
  <1>5. /\ y.st = x.st /\ y.prev = x.prev /\ y.leg = x.leg /\ y.hto = x.hto /\ y.tail = x.tail
        /\ y.byLog = x.byLog /\ y.cause = x.cause /\ y.local = l /\ y.live = x.live
        /\ y.tailErr = x.tailErr /\ y.sending = h
    BY <1>3 DEF SubType
  <1>6. Window(x, n) /\ Base(x) = x.prev /\ x.prev \in Nat /\ Len(x.live) \in Nat
    BY DEF Subscription, Base, SubType
  <1>7. h = x.prev + 1
    BY <1>1, <1>6 DEF Window
  <1>8. Base(y) = x.prev + 1
    BY <1>5, <1>6, <1>7 DEF Base
  <1>9. Reach(y) = Reach(x)
    <2>1. Reach(y) = x.prev + 1 + (Len(x.local) - 1) + Len(x.live)
      BY <1>1, <1>5, <1>8 DEF Reach
    <2>2. Reach(x) = x.prev + Len(x.local) + Len(x.live)
      BY <1>6 DEF Reach
    <2>3. QED
      BY <1>1, <1>6, <2>1, <2>2
  <1>10. ASSUME NEW i \in 1..Len(l)
         PROVE  l[i] = Base(y) + i
    <2>1. i + 1 \in 1..Len(x.local)
      BY <1>1
    <2>2. x.local[i + 1] = x.prev + (i + 1)
      BY <1>6, <2>1 DEF Window
    <2>3. l[i] = x.local[i + 1]
      BY <1>1
    <2>4. x.prev + (i + 1) = x.prev + 1 + i
      BY <1>6
    <2>5. QED
      BY <1>8, <2>2, <2>3, <2>4
  <1>11. ASSUME NEW i \in 1..Len(x.live)
         PROVE  x.live[i] = Base(y) + Len(l) + i
    <2>1. x.live[i] = x.prev + Len(x.local) + i
      BY <1>6 DEF Window
    <2>2. QED
      BY <1>1, <1>6, <1>8, <2>1
  <1>12. Window(y, n)
    BY <1>1, <1>5, <1>6, <1>7, <1>9, <1>10, <1>11 DEF Window
  <1>13. Subscription(y, n)
    BY <1>5, <1>12 DEF Subscription
  <1>14. FeedReader(y) = FeedReader(x)
    <2>1. FeedStatus(y) = FeedStatus(x)
      BY <1>5 DEF FeedStatus
    <2>2. QED
      BY <1>5, <2>1, SameReader
  <1>15. GoodStep(x, y, n, shut)
    BY <1>4, <1>5, <1>13, <1>14 DEF GoodStep, Moves
  <1>16. QED
    BY <1>7, <1>15 DEF y, h

LEMMA TakeLiveGood ==
  ASSUME NEW x \in SubType, NEW n \in Nat, NEW shut \in BOOLEAN, Subscription(x, n),
         x.st = "running", x.leg \in {"pin", "live"}, x.local = <<>>, x.sending = 0,
         x.cause = "none"
  PROVE  /\ GoodStep(x, [x EXCEPT !.leg = "live", !.local = x.live, !.live = <<>>], n, shut)
         /\ x.live = <<>> => GoodStep(x, [x EXCEPT !.leg = "parked"], n, shut)
  <1>1. Window(x, n) /\ Base(x) = x.prev /\ x.prev \in Nat /\ Len(x.live) \in Nat
        /\ Len(x.local) = 0 /\ x.live \in Seq(Nat) /\ x.tail = <<>>
    BY DEF Subscription, Base, SubType
  <1>2. GoodStep(x, [x EXCEPT !.leg = "live", !.local = x.live, !.live = <<>>], n, shut)
    <2> DEFINE y == [x EXCEPT !.leg = "live", !.local = x.live, !.live = <<>>]
    <2>1. y \in SubType
      BY DEF SubType
    <2>2. /\ y.st = x.st /\ y.prev = x.prev /\ y.leg = "live" /\ y.hto = x.hto /\ y.tail = x.tail
          /\ y.byLog = x.byLog /\ y.cause = x.cause /\ y.local = x.live /\ y.live = <<>>
          /\ y.tailErr = x.tailErr /\ y.sending = 0
      BY DEF SubType
    <2> HIDE DEF y
    <2>3. Base(y) = x.prev
      BY <1>1, <2>2 DEF Base
    <2>4. Len(y.live) = 0
      BY <2>2
    <2>5. Reach(y) = Reach(x)
      BY <1>1, <2>2, <2>3, <2>4 DEF Reach
    <2>6. \A i \in 1..Len(y.local) : y.local[i] = Base(y) + i
      BY <1>1, <2>2, <2>3 DEF Window
    <2>7. Window(y, n)
      BY <1>1, <2>2, <2>4, <2>5, <2>6 DEF Window
    <2>8. Subscription(y, n)
      BY <2>2, <2>7 DEF Subscription
    <2>9. Following(y) = Following(x)
      BY <2>2 DEF Following
    <2>10. FeedReader(y) = FeedReader(x)
      BY <1>1, <2>1, <2>2, <2>9, RunningReader
    <2>11. GoodStep(x, y, n, shut)
      BY <2>1, <2>2, <2>8, <2>10 DEF GoodStep, Moves
    <2>12. QED
      BY <2>11 DEF y
  <1>3. ASSUME x.live = <<>>
        PROVE  GoodStep(x, [x EXCEPT !.leg = "parked"], n, shut)
    <2> DEFINE y == [x EXCEPT !.leg = "parked"]
    <2>1. y \in SubType
      BY DEF SubType
    <2>2. /\ y.st = x.st /\ y.prev = x.prev /\ y.leg = "parked" /\ y.hto = x.hto /\ y.tail = x.tail
          /\ y.byLog = x.byLog /\ y.cause = x.cause /\ y.local = x.local /\ y.live = x.live
          /\ y.tailErr = x.tailErr /\ y.sending = x.sending
      BY DEF SubType
    <2> HIDE DEF y
    <2>3. Base(y) = x.prev /\ Reach(y) = Reach(x)
      BY <1>1, <2>2 DEF Base, Reach
    <2>4. Window(y, n)
      BY <1>1, <2>2, <2>3 DEF Window
    <2>5. Subscription(y, n)
      BY <2>2, <2>4 DEF Subscription
    <2>6. Following(y) = Following(x)
      BY <2>2 DEF Following
    <2>7. FeedReader(y) = FeedReader(x)
      BY <1>1, <2>1, <2>2, <2>6, RunningReader
    <2>8. GoodStep(x, y, n, shut)
      BY <2>1, <2>2, <2>5, <2>7 DEF GoodStep, Moves
    <2>9. QED
      BY <2>8 DEF y
  <1>4. QED
    BY <1>2, <1>3

LEMMA DeliverGood ==
  ASSUME NEW x \in SubType, NEW n \in Nat, NEW shut \in BOOLEAN, Subscription(x, n),
         x.st = "running", x.sending # 0, NEW g, g = IF x.leg = "head" /\ x.sending = x.hto
                                                     THEN "pin" ELSE x.leg
  PROVE  GoodStep(x, [x EXCEPT !.prev = x.sending, !.sending = 0, !.leg = g], n, shut)
  <1> DEFINE y == [x EXCEPT !.prev = x.sending, !.sending = 0, !.leg = g]
  <1>1. g \in {"head", "pin", "live", "parked"}
    BY DEF SubType
  <1>2. y \in SubType
    BY <1>1 DEF SubType
  <1>3. /\ y.st = x.st /\ y.prev = x.sending /\ y.leg = g /\ y.hto = x.hto /\ y.tail = x.tail
        /\ y.byLog = x.byLog /\ y.cause = x.cause /\ y.local = x.local /\ y.live = x.live
        /\ y.tailErr = x.tailErr /\ y.sending = 0
    BY DEF SubType
  <1> HIDE DEF y
  <1>4. Window(x, n) /\ x.sending = x.prev + 1 /\ x.leg # "parked" /\ x.tail = <<>>
    BY DEF Subscription, Window
  <1>5. /\ x.prev \in Nat /\ x.hto \in Nat /\ x.sending \in Nat
        /\ Len(x.local) \in Nat /\ Len(x.live) \in Nat
    BY DEF SubType
  <1>6. Base(y) = Base(x) /\ Base(x) \in Nat
    BY <1>3, <1>5 DEF Base
  <1>7. Reach(y) = Reach(x)
    BY <1>3, <1>6 DEF Reach
  <1>8. y.leg = "head" => y.prev < y.hto
    BY <1>3, <1>4, <1>5 DEF Window
  <1>9. Window(y, n)
    BY <1>3, <1>4, <1>6, <1>7, <1>8 DEF Window
  <1>10. Subscription(y, n)
    BY <1>3, <1>9 DEF Subscription
  <1>11. x.prev < n
    <2>1. Reach(x) <= n /\ Reach(x) = Base(x) + Len(x.local) + Len(x.live)
      BY <1>4 DEF Window, Reach
    <2>2. x.prev < Base(x)
      BY <1>4, <1>5 DEF Base, Window
    <2>3. QED
      BY <1>5, <1>6, <2>1, <2>2
  <1>12. Moves(FeedReader(x), FeedReader(y), n, shut)
    <2> DEFINE a == FeedReader(x)
    <2>1. a = [st |-> Following(x), at |-> x.prev, owed |-> {}]
      BY <1>4, RunningReader
    <2>2. FeedReader(y) = [st |-> Following(y), at |-> x.prev + 1, owed |-> {}]
      BY <1>2, <1>3, <1>4, RunningReader
    <2>3. Following(y) \in {Following(x), "following"}
      BY <1>3 DEF Following
    <2> HIDE DEF a
    <2>4. a.st = Following(x) /\ a.at = x.prev /\ a.owed = {}
      BY <2>1
    <2>5. a.st \in {"catching_up", "following"}
      BY <2>4 DEF Following
    <2>6. QED
      BY <1>11, <2>2, <2>3, <2>4, <2>5 DEF Moves, a
  <1>13. GoodStep(x, y, n, shut)
    BY <1>2, <1>3, <1>10, <1>12 DEF GoodStep
  <1>14. QED
    BY <1>13 DEF y

\* What the owner still held follows the reader, up to the last record.
LEMMA UndeliveredFollows ==
  ASSUME NEW x \in SubType, NEW n \in Nat, Subscription(x, n),
         x.st = "running", x.leg # "head"
  PROVE  /\ Undelivered(x) \in Seq(Nat) /\ x.prev + Len(Undelivered(x)) = Reach(x)
         /\ Follows(x.prev, Undelivered(x))
  <1> DEFINE h == IF x.sending = 0 THEN <<>> ELSE <<x.sending>>
             u == h \o x.local
             t == u \o x.live
  <1>1. Window(x, n)
    BY DEF Subscription
  <1>2. /\ x.prev \in Nat /\ x.sending \in Nat /\ x.local \in Seq(Nat) /\ x.live \in Seq(Nat)
        /\ Len(x.local) \in Nat /\ Len(x.live) \in Nat
    BY DEF SubType
  <1>3. /\ h \in Seq(Nat) /\ Len(h) \in Nat /\ Base(x) = x.prev + Len(h)
        /\ \A i \in 1..Len(h) : h[i] = x.prev + i
    <2>1. CASE x.sending = 0
      BY <1>2, <2>1 DEF Base
    <2>2. CASE x.sending # 0
      <3>1. x.sending = x.prev + 1
        BY <1>1, <2>2 DEF Window
      <3>2. h = <<x.sending>> /\ Len(h) = 1 /\ h[1] = x.sending
        BY <2>2
      <3>3. QED
        BY <1>2, <2>2, <3>1, <3>2 DEF Base
    <2>3. QED
      BY <2>1, <2>2
  <1> HIDE DEF h
  <1>4. /\ u \in Seq(Nat) /\ Len(u) = Len(h) + Len(x.local)
        /\ \A i \in 1..Len(u) : u[i] = IF i <= Len(h) THEN h[i] ELSE x.local[i - Len(h)]
    BY <1>2, <1>3, ConcatProperties
  <1> HIDE DEF u
  <1>5. /\ t \in Seq(Nat) /\ Len(t) = Len(u) + Len(x.live)
        /\ \A i \in 1..Len(t) : t[i] = IF i <= Len(u) THEN u[i] ELSE x.live[i - Len(u)]
    <2>1. u \in Seq(Nat) /\ x.live \in Seq(Nat)
      BY <1>2, <1>4
    <2>2. QED
      BY <2>1, ConcatProperties
  <1> HIDE DEF t
  <1>6. Len(u) \in Nat /\ Len(t) \in Nat
    BY <1>4, <1>5, LenProperties
  <1>7. ASSUME NEW i \in 1..Len(u)
        PROVE  u[i] = x.prev + i
    <2>1. CASE i <= Len(h)
      BY <1>3, <1>4, <1>6, <2>1
    <2>2. CASE ~(i <= Len(h))
      <3>1. i - Len(h) \in 1..Len(x.local)
        <4>1. PICK a \in Nat, b \in Nat : a = Len(h) /\ b = Len(x.local)
          BY <1>2, <1>3, LenProperties
        <4>2. i \in 1..(a + b) /\ ~(i <= a)
          BY <1>4, <2>2, <4>1, Zenon
        <4>3. i - a \in 1..b
          BY <4>2
        <4>4. QED
          BY <4>1, <4>3, Zenon
      <3>2. x.local[i - Len(h)] = Base(x) + (i - Len(h))
        BY <1>1, <3>1 DEF Window
      <3>3. u[i] = x.local[i - Len(h)]
        BY <1>4, <2>2
      <3>4. Base(x) + (i - Len(h)) = x.prev + i
        BY <1>2, <1>3, <1>6
      <3>5. QED
        BY <3>2, <3>3, <3>4
    <2>3. QED
      BY <2>1, <2>2
  <1>8. ASSUME NEW i \in 1..Len(t)
        PROVE  t[i] = x.prev + i
    <2>1. CASE i <= Len(u)
      BY <1>5, <1>6, <1>7, <2>1
    <2>2. CASE ~(i <= Len(u))
      <3>1. i - Len(u) \in 1..Len(x.live)
        BY <1>2, <1>5, <1>6, <2>2
      <3>2. x.live[i - Len(u)] = Base(x) + Len(x.local) + (i - Len(u))
        BY <1>1, <3>1 DEF Window
      <3>3. t[i] = x.live[i - Len(u)]
        BY <1>5, <2>2
      <3>4. Base(x) + Len(x.local) + (i - Len(u)) = x.prev + i
        BY <1>2, <1>3, <1>4, <1>6
      <3>5. QED
        BY <3>2, <3>3, <3>4
    <2>3. QED
      BY <2>1, <2>2
  <1>9. t = Undelivered(x)
    BY DEF t, u, h, Undelivered
  <1>10. x.prev + Len(t) = Reach(x)
    <2>1. Reach(x) = x.prev + Len(h) + Len(x.local) + Len(x.live)
      BY <1>3 DEF Reach
    <2>2. Len(t) = Len(h) + Len(x.local) + Len(x.live)
      BY <1>4, <1>5
    <2> DEFINE p == x.prev
               i == Len(h)
               j == Len(x.local)
               k == Len(x.live)
    <2>3. p \in Nat /\ i \in Nat /\ j \in Nat /\ k \in Nat
      BY <1>2, <1>3
    <2>4. Len(t) = i + j + k /\ Reach(x) = p + i + j + k
      BY <2>1, <2>2
    <2> HIDE DEF p, i, j, k
    <2>5. p + (i + j + k) = p + i + j + k
      BY <2>3
    <2>6. p + Len(t) = Reach(x)
      BY <2>4, <2>5
    <2>7. QED
      BY <2>6 DEF p
  <1>11. DOMAIN t = 1..Len(t)
    BY <1>5
  <1>12. QED
    BY <1>5, <1>8, <1>9, <1>10, <1>11 DEF Follows

\* The owner's last act: the records it held are the rest of the log.
LEMMA FinishedGood ==
  ASSUME NEW x \in SubType, NEW n \in Nat, NEW shut \in BOOLEAN, Subscription(x, n),
         x.st = "running", x.cause # "none", x.byLog => shut
  PROVE  GoodStep(x, Finished(x), n, shut)
  <1> DEFINE stopped == [x EXCEPT !.st = "finished", !.live = <<>>, !.local = <<>>, !.sending = 0]
             y == Finished(x)
  <1>1. /\ Window(x, n) /\ x.cause # "hole" /\ x.tail = <<>> /\ x.tailErr = "no_rest"
        /\ x.prev \in Nat /\ FeedReader(x) = [st |-> Following(x), at |-> x.prev, owed |-> {}]
    BY RunningReader DEF Subscription, SubType
  <1>2. /\ stopped \in SubType
        /\ stopped.st = "finished" /\ stopped.byLog = x.byLog /\ stopped.cause = x.cause
        /\ stopped.prev = x.prev /\ stopped.tail = x.tail /\ stopped.tailErr = x.tailErr
        /\ stopped.sending = 0
    <2> DEFINE e == <<>>
    <2>1. e \in Seq(Nat)
      OBVIOUS
    <2>2. stopped = [x EXCEPT !.st = "finished", !.live = e, !.local = e, !.sending = 0]
      OBVIOUS
    <2> HIDE DEF e, stopped
    <2>3. QED
      BY <2>1, <2>2 DEF SubType
  <1> DEFINE left == [st |-> "left", at |-> x.prev, owed |-> {}]
             unavailable == [st |-> "unavailable", at |-> x.prev, owed |-> {}]
             closed == [st |-> "closed", at |-> x.prev, owed |-> (x.prev + 1)..n]
  <1>3. CASE ~x.byLog
    <2>1. y = stopped
      BY <1>3 DEF Finished
    <2> HIDE DEF stopped, y
    <2>2. Subscription(y, n)
      BY <1>1, <1>2, <1>3, <2>1 DEF Subscription
    <2>3. FeedStatus(y) = "left"
      BY <1>1, <1>2, <1>3, <2>1 DEF FeedStatus
    <2>4. {y.tail[i] : i \in DOMAIN y.tail} = {}
      BY <1>1, <1>2, <2>1
    <2>5. FeedReader(y) = left
      BY <1>2, <2>1, <2>3, <2>4 DEF FeedReader
    <2>6. Moves(FeedReader(x), FeedReader(y), n, shut)
      BY <1>1, <2>5 DEF Moves, Following
    <2>7. GoodStep(x, y, n, shut)
      BY <1>2, <2>1, <2>2, <2>6 DEF GoodStep
    <2>8. QED
      BY <2>7 DEF y
  <1>4. CASE x.byLog /\ x.leg = "head"
    <2> DEFINE z == [stopped EXCEPT !.tailErr = "unavailable"]
    <2>1. y = z
      BY <1>4 DEF Finished
    <2> HIDE DEF stopped, y
    <2>2. /\ z \in SubType /\ z.st = "finished" /\ z.byLog = x.byLog /\ z.cause = x.cause
          /\ z.prev = x.prev /\ z.tail = x.tail /\ z.tailErr = "unavailable" /\ z.sending = 0
      BY <1>2 DEF SubType
    <2> HIDE DEF z
    <2>3. Subscription(y, n)
      BY <1>1, <2>1, <2>2 DEF Subscription
    <2>4. FeedStatus(y) = "unavailable"
      BY <1>4, <2>1, <2>2 DEF FeedStatus
    <2>5. {y.tail[i] : i \in DOMAIN y.tail} = {}
      BY <1>1, <2>1, <2>2
    <2>6. FeedReader(y) = unavailable
      BY <2>1, <2>2, <2>4, <2>5 DEF FeedReader
    <2>7. Moves(FeedReader(x), FeedReader(y), n, shut)
      BY <1>1, <1>4, <2>6 DEF Moves, Following
    <2>8. GoodStep(x, y, n, shut)
      BY <1>1, <2>1, <2>2, <2>3, <2>7 DEF GoodStep
    <2>9. QED
      BY <2>8 DEF y
  <1>5. CASE x.byLog /\ x.leg # "head"
    <2> DEFINE u == Undelivered(x)
               z == [stopped EXCEPT !.tailErr = "none", !.tail = u]
    <2>1. u \in Seq(Nat) /\ x.prev + Len(u) = n /\ Follows(x.prev, u)
      BY <1>1, <1>5, UndeliveredFollows DEF Window
    <2>2. y = z
      BY <1>5, <2>1 DEF Finished
    <2> HIDE DEF stopped, y, u
    <2>3. /\ z \in SubType /\ z.st = "finished" /\ z.byLog = x.byLog /\ z.cause = x.cause
          /\ z.prev = x.prev /\ z.tail = u /\ z.tailErr = "none" /\ z.sending = 0
      BY <1>2, <2>1 DEF SubType
    <2> HIDE DEF z
    <2>4. Subscription(y, n)
      BY <1>1, <2>2, <2>3 DEF Subscription
    <2>5. FeedStatus(y) = "closed"
      BY <1>5, <2>2, <2>3 DEF FeedStatus
    <2>6. {u[i] : i \in DOMAIN u} = (x.prev + 1)..n
      <3>1. DOMAIN u = 1..Len(u) /\ Len(u) \in Nat
        BY <2>1
      <3>2. \A i \in 1..Len(u) : u[i] = x.prev + i
        BY <2>1, <3>1 DEF Follows
      <3>3. ASSUME NEW i \in 1..Len(u)
            PROVE  u[i] \in (x.prev + 1)..n
        BY <1>1, <2>1, <3>1, <3>2
      <3>4. ASSUME NEW v \in (x.prev + 1)..n
            PROVE  \E i \in 1..Len(u) : u[i] = v
        <4>1. v - x.prev \in 1..Len(u)
          BY <1>1, <2>1, <3>1
        <4>2. u[v - x.prev] = x.prev + (v - x.prev)
          BY <3>2, <4>1
        <4>3. x.prev + (v - x.prev) = v
          BY <1>1
        <4>4. QED
          BY <4>1, <4>2, <4>3
      <3>5. QED
        BY <3>1, <3>3, <3>4
    <2>7. FeedReader(y) = closed
      <3>1. y.prev = x.prev /\ y.tail = u
        BY <2>2, <2>3
      <3>2. {y.tail[i] : i \in DOMAIN y.tail} = (x.prev + 1)..n
        BY <2>6, <3>1
      <3>3. QED
        BY <2>5, <3>1, <3>2 DEF FeedReader
    <2>8. Moves(FeedReader(x), FeedReader(y), n, shut)
      BY <1>1, <1>5, <2>7 DEF Moves, Following
    <2>9. GoodStep(x, y, n, shut)
      BY <1>1, <2>2, <2>3, <2>4, <2>8 DEF GoodStep
    <2>10. QED
      BY <2>9 DEF y
  <1>6. QED
    BY <1>3, <1>4, <1>5

LEMMA FailHeadGood ==
  ASSUME NEW x \in SubType, NEW n \in Nat, NEW shut \in BOOLEAN, Subscription(x, n),
         x.st = "running", x.cause = "none"
  PROVE  GoodStep(x, Finished(Ended(x, "cursor")), n, shut)
  <1> DEFINE y == Ended(x, "cursor")
  <1>1. /\ y \in SubType /\ Subscription(y, n) /\ FeedReader(y) = FeedReader(x)
        /\ y.st = "running" /\ y.cause = "cursor" /\ y.byLog = x.byLog
    BY EndedKeeps
  <1>2. ~x.byLog
    BY DEF Subscription
  <1> HIDE DEF y
  <1>3. GoodStep(y, Finished(y), n, shut)
    BY <1>1, <1>2, FinishedGood
  <1>4. GoodStep(x, Finished(y), n, shut)
    BY <1>1, <1>3 DEF GoodStep
  <1>5. QED
    BY <1>4 DEF y

LEMMA ClosedByLogGood ==
  ASSUME NEW x \in SubType, NEW n \in Nat, Subscription(x, n), x.st # "none"
  PROVE  LET y == ClosedByLog(x)
         IN /\ y \in SubType /\ Subscription(y, n) /\ FeedReader(y) = FeedReader(x)
            /\ y.st # "none" /\ y.cause # "none"
  <1>1. CASE x.cause # "none"
    BY <1>1 DEF ClosedByLog
  <1>2. CASE x.cause = "none"
    <2> DEFINE y == [x EXCEPT !.cause = "closed", !.byLog = TRUE]
    <2>1. x.st = "running" /\ Window(x, n)
      BY <1>2 DEF Subscription, SubType
    <2>2. y \in SubType
      BY DEF SubType
    <2>3. /\ y.st = x.st /\ y.prev = x.prev /\ y.leg = x.leg /\ y.hto = x.hto /\ y.tail = x.tail
          /\ y.byLog = TRUE /\ y.cause = "closed" /\ y.local = x.local /\ y.live = x.live
          /\ y.tailErr = x.tailErr /\ y.sending = x.sending
      BY DEF SubType
    <2>4. ClosedByLog(x) = y
      BY <1>2 DEF ClosedByLog
    <2> HIDE DEF y
    <2>5. Subscription(y, n)
      BY <1>2, <2>1, <2>3 DEF Subscription, Window, Reach, Base
    <2>6. FeedReader(y) = FeedReader(x)
      <3>1. FeedStatus(y) = FeedStatus(x)
        BY <2>1, <2>3 DEF FeedStatus
      <3>2. QED
        BY <2>3, <3>1, SameReader
    <2>7. QED
      BY <2>1, <2>2, <2>3, <2>4, <2>5, <2>6
  <1>3. QED
    BY <1>1, <1>2

-----------------------------------------------------------------------------
(* The ring and what is read of it *)

LEMMA PushedKeeps ==
  ASSUME NEW l, log \in Seq(Nat), RingIsSuffix, log' = l, Len(l) = Last + 1,
         ring' = Pushed(Last + 1)
  PROVE  RingIsSuffix'
  <1> DEFINE k == Len(ring)
             n == Last
  <1>1. /\ ring \in Seq(Nat) /\ k \in Nat /\ n \in Nat /\ k <= n /\ n + 1 \in Nat
        /\ \A i \in 1..k : ring[i] = n - k + i
    BY DEF RingIsSuffix, Last
  <1>2. Last' = n + 1
    BY DEF Last
  <1>3. CASE k >= RingCap
    <2> DEFINE r == Tail(ring)
               q == Append(r, n + 1)
    <2>1. ring # <<>> /\ k > 0
      BY <1>1, <1>3, EventLogAssumption
    <2>2. r \in Seq(Nat) /\ Len(r) = k - 1 /\ \A i \in 1..Len(r) : r[i] = ring[i + 1]
      BY <1>1, <2>1, HeadTailProperties
    <2> HIDE DEF r
    <2>3. /\ q \in Seq(Nat) /\ Len(q) = Len(r) + 1
          /\ \A i \in 1..Len(r) : q[i] = r[i]
          /\ q[Len(r) + 1] = n + 1
      BY <1>1, <2>2, AppendProperties
    <2>4. ring' = q
      BY <1>3 DEF Pushed, r
    <2> HIDE DEF q, k, n
    <2>5. Len(q) = k
      BY <1>1, <2>1, <2>2, <2>3
    <2>6. ASSUME NEW i \in 1..k
          PROVE  q[i] = n + 1 - k + i
      <3>1. CASE i \in 1..Len(r)
        <4>1. i + 1 \in 1..k
          BY <1>1, <2>1, <2>2, <3>1
        <4>2. q[i] = n - k + (i + 1)
          BY <1>1, <2>2, <2>3, <3>1, <4>1
        <4>3. QED
          BY <1>1, <4>2
      <3>2. CASE i = k
        <4>1. q[i] = n + 1
          BY <1>1, <2>1, <2>2, <2>3, <3>2
        <4>2. QED
          BY <1>1, <3>2, <4>1
      <3>3. QED
        BY <1>1, <2>1, <2>2, <3>1, <3>2
    <2>7. QED
      <3>1. Len(q) <= n + 1 /\ q # <<>>
        BY <1>1, <2>1, <2>5
      <3>2. ring' \in Seq(Nat) /\ Len(ring') = k /\ Len(ring') <= Last' /\ ring' # <<>>
        BY <1>1, <1>2, <2>3, <2>4, <2>5, <3>1
      <3>3. \A i \in 1..k : ring'[i] = Last' - k + i
        <4>1. SUFFICES ASSUME NEW i \in 1..k PROVE ring'[i] = Last' - k + i
          OBVIOUS
        <4>2. ring'[i] = n + 1 - k + i
          BY <2>4, <2>6
        <4>3. QED
          BY <1>1, <1>2, <4>2
      <3>4. QED
        BY <3>2, <3>3 DEF RingIsSuffix
  <1>4. CASE ~(k >= RingCap)
    <2> DEFINE q == Append(ring, n + 1)
    <2>1. /\ q \in Seq(Nat) /\ Len(q) = k + 1
          /\ \A i \in 1..k : q[i] = ring[i]
          /\ q[k + 1] = n + 1
      BY <1>1, AppendProperties
    <2>2. ring' = q
      BY <1>4 DEF Pushed
    <2> HIDE DEF q, k, n
    <2>3. ASSUME NEW i \in 1..(k + 1)
          PROVE  q[i] = n + 1 - (k + 1) + i
      <3>1. CASE i \in 1..k
        <4>1. q[i] = n - k + i
          BY <1>1, <2>1, <3>1
        <4>2. QED
          BY <1>1, <4>1
      <3>2. CASE i = k + 1
        <4>1. q[i] = n + 1
          BY <2>1, <3>2
        <4>2. QED
          BY <1>1, <3>2, <4>1
      <3>3. QED
        BY <1>1, <3>1, <3>2
    <2>4. Len(q) <= n + 1 /\ q # <<>>
      BY <1>1, <2>1
    <2>5. ring' \in Seq(Nat) /\ Len(ring') = k + 1 /\ Len(ring') <= Last' /\ ring' # <<>>
      BY <1>2, <2>1, <2>2, <2>4
    <2>6. \A i \in 1..(k + 1) : ring'[i] = Last' - (k + 1) + i
      <3>1. SUFFICES ASSUME NEW i \in 1..(k + 1) PROVE ring'[i] = Last' - (k + 1) + i
        OBVIOUS
      <3>2. ring'[i] = n + 1 - (k + 1) + i
        BY <2>2, <2>3
      <3>3. QED
        BY <1>1, <1>2, <3>2
    <2>7. QED
      BY <2>5, <2>6 DEF RingIsSuffix
  <1>5. QED
    BY <1>3, <1>4

\* A pin is the end of the log, and no longer than what the reader lacks.
LEMMA PinIsTheEnd ==
  ASSUME log \in Seq(Nat), RingIsSuffix, NEW a \in 0..Last
  PROVE  LET pinned == RingAfter(a)
         IN /\ pinned \in Seq(Nat) /\ Len(pinned) \in Nat /\ Len(pinned) <= Last - a
            /\ \A i \in 1..Len(pinned) : pinned[i] = Last - Len(pinned) + i
  <1> DEFINE k == Len(ring)
             n == Last
             pinned == RingAfter(a)
  <1>1. /\ ring \in Seq(Nat) /\ k \in Nat /\ n \in Nat /\ k <= n
        /\ \A i \in 1..k : ring[i] = n - k + i
        /\ ring = <<>> => n = 0
        /\ ring # <<>> => k > 0
    BY DEF RingIsSuffix, Last
  <1>2. CASE ring # <<>> /\ a >= ring[1]
    <2> DEFINE f == a - ring[1] + 2
    <2>1. ring[1] = n - k + 1
      BY <1>1, <1>2
    <2>2. f = a - n + k + 1 /\ f >= 2 /\ f \in Nat /\ f <= k + 1
      BY <1>1, <1>2, <2>1
    <2>3. pinned = SubSeq(ring, f, k)
      BY <1>2 DEF RingAfter
    <2> HIDE DEF f, pinned, k, n
    <2>4. /\ pinned \in Seq(Nat) /\ Len(pinned) = n - a
          /\ \A i \in 1..Len(pinned) : pinned[i] = ring[f + i - 1]
      <3>1. f \in Int /\ k \in Int /\ \A i \in f..k : ring[i] \in Nat
        <4>1. \A i \in f..k : i \in 1..Len(ring)
          BY <1>1, <2>2 DEF k
        <4>2. QED
          BY <1>1, <2>2, <4>1
      <3>2. /\ pinned \in Seq(Nat)
            /\ Len(pinned) = IF f <= k THEN k - f + 1 ELSE 0
            /\ \A i \in 1..(k - f + 1) : pinned[i] = ring[f + i - 1]
        BY <2>3, <3>1, SubSeqProperties
      <3>3. Len(pinned) = k - f + 1
        BY <1>1, <2>2, <3>2
      <3>4. k - f + 1 = n - a
        BY <1>1, <2>2 DEF n
      <3>5. QED
        BY <3>2, <3>3, <3>4
    <2>5. ASSUME NEW i \in 1..Len(pinned)
          PROVE  pinned[i] = n - Len(pinned) + i
      <3>1. f + i - 1 \in 1..k
        BY <1>1, <2>2, <2>4 DEF n
      <3>2. pinned[i] = n - k + (f + i - 1)
        BY <1>1, <2>4, <3>1
      <3>3. QED
        BY <1>1, <2>2, <2>4, <3>2 DEF n
    <2>6. Len(pinned) \in Nat /\ Len(pinned) <= n - a
      BY <1>1, <2>4 DEF n
    <2>7. QED
      BY <2>4, <2>5, <2>6 DEF n, pinned
  <1>3. CASE ~(ring # <<>> /\ a >= ring[1])
    <2>1. pinned = SubSeq(ring, 1, k)
      BY <1>3 DEF RingAfter
    <2>2. pinned = ring
      BY <1>1, <2>1, SubSeqProperties
    <2>3. k <= n - a
      <3>1. CASE ring = <<>>
        BY <1>1, <3>1
      <3>2. CASE ring # <<>>
        <4>1. ring[1] = n - k + 1
          BY <1>1, <3>2
        <4>2. QED
          BY <1>1, <1>3, <3>2, <4>1
      <3>3. QED
        BY <3>1, <3>2
    <2>4. QED
      BY <1>1, <2>2, <2>3
  <1>4. QED
    BY <1>2, <1>3

\* A subscription as it opens after prev, on a log of n entries.
FreshOne(y, prev, n) ==
  /\ y \in SubType /\ Subscription(y, n) /\ y.st = "running" /\ ~y.byLog
  /\ FeedReader(y) = [st |-> Following(y), at |-> prev, owed |-> {}]

LEMMA OpenedKeeps ==
  ASSUME NEW n \in Nat, NEW prev \in Nat, NEW hto \in Nat, NEW pinned \in Seq(Nat),
         prev <= hto, hto + Len(pinned) = n,
         \A i \in 1..Len(pinned) : pinned[i] = hto + i
  PROVE  FreshOne(Opened(prev, hto, pinned), prev, n)
  <1> DEFINE g == IF hto > prev THEN "head" ELSE "pin"
             b == Len(pinned)
             y == [NotOpened EXCEPT !.st = "running", !.prev = prev, !.hto = hto,
                                    !.leg = g, !.local = pinned, !.bytes = b]
  <1>1. g \in {"head", "pin"} /\ (g = "head" <=> prev < hto) /\ b \in Int
    OBVIOUS
  <1>2. y = Opened(prev, hto, pinned)
    BY DEF Opened
  <1> HIDE DEF g, b
  <1>3. y \in SubType
    <2> DEFINE z == [NotOpened EXCEPT !.st = "running", !.prev = prev, !.hto = hto]
    <2>1. z \in SubType
      BY NotOpenedIsOne DEF SubType
    <2>2. y = [z EXCEPT !.leg = g, !.local = pinned, !.bytes = b]
      OBVIOUS
    <2> HIDE DEF z, y
    <2>3. QED
      BY <1>1, <2>1, <2>2 DEF SubType
  <1>4. /\ y.st = "running" /\ y.prev = prev /\ y.leg = g /\ y.hto = hto /\ y.tail = <<>>
        /\ y.byLog = FALSE /\ y.cause = "none" /\ y.local = pinned /\ y.live = <<>>
        /\ y.tailErr = "no_rest" /\ y.sending = 0
    BY DEF NotOpened
  <1> HIDE DEF y
  <1>5. Base(y) = hto /\ Len(y.live) = 0
    BY <1>1, <1>4 DEF Base
  <1>6. Reach(y) = n
    BY <1>4, <1>5 DEF Reach
  <1>7. Window(y, n)
    BY <1>1, <1>4, <1>5, <1>6 DEF Window
  <1>8. Subscription(y, n)
    BY <1>4, <1>7 DEF Subscription
  <1>9. QED
    BY <1>2, <1>3, <1>4, <1>8, RunningReader DEF FreshOne

-----------------------------------------------------------------------------
(* The steps of the log, by what they do to the record *)

Implements == [Shared!Next]_(Shared!vars)

LEMMA QuietStep ==
  ASSUME IInv, UNCHANGED recordVars, UNCHANGED ending, Shut' = Shut, Cutoffs'
  PROVE  IInv' /\ Implements
  <1>1. log' = log /\ ring' = ring /\ sub' = sub /\ registered' = registered /\ ending' = ending
    BY DEF recordVars
  <1>2. Last' = Last
    BY <1>1 DEF Last
  <1>3. RingIsSuffix'
    BY <1>1, <1>2 DEF IInv, RingIsSuffix
  <1>4. \A s \in Subs : SubOK(s)'
    BY <1>1, <1>2 DEF IInv, SubOK
  <1>5. IInv'
    BY <1>1, <1>3, <1>4 DEF IInv
  <1>6. UNCHANGED Shared!vars
    BY <1>1, <1>2 DEF Shared!vars
  <1>7. QED
    BY <1>5, <1>6 DEF Implements

LEMMA CommitStep ==
  ASSUME IInv, NEW b \in Nat, Commit(b), UNCHANGED <<phase, ending>>, ~Shut, Cutoffs'
  PROVE  IInv' /\ Implements
  <1> DEFINE seq == Last + 1
             offered == [s \in Subs |-> IF s \in registered THEN Offer(sub[s], seq) ELSE sub[s]]
  <1>1. /\ log' = Append(log, b) /\ ring' = Pushed(seq) /\ sub' = offered
        /\ registered' = {s \in registered : offered[s].cause = "none"}
        /\ phase' = phase /\ ending' = ending
    BY DEF Commit
  <1>2. log \in Seq(Nat) /\ Last \in Nat /\ seq \in Nat /\ registered \subseteq Subs
        /\ ending \subseteq Subs /\ RingIsSuffix
    BY DEF IInv, Last
  <1>3. log' \in Seq(Nat) /\ Len(log') = Last + 1 /\ Last' = Last + 1
    BY <1>1, <1>2, AppendProperties DEF Last
  <1>4. RingIsSuffix'
    BY <1>1, <1>2, <1>3, PushedKeeps
  <1>5. Shut' = Shut
    BY <1>1 DEF Shut
  <1>6. ASSUME NEW s \in Subs
        PROVE  /\ sub'[s] \in SubType /\ SubOK(s)'
               /\ FeedReader(sub'[s]) = FeedReader(sub[s])
    <2>1. sub[s] \in SubType /\ SubOK(s) /\ sub'[s] = offered[s]
      BY <1>1 DEF IInv
    <2>2. Subscription(sub[s], Last) /\ ~sub[s].byLog
      BY <2>1 DEF SubOK
    <2>3. CASE s \in registered
      <3>1. sub'[s] = Offer(sub[s], seq)
        BY <2>1, <2>3
      <3>2. Offer(sub[s], seq) \in SubType /\ FeedReader(Offer(sub[s], seq)) = FeedReader(sub[s])
        BY <1>2, <2>1, <2>2, OfferType, OfferUnseen
      <3>3. sub[s].st # "none"
        BY <2>1, <2>3 DEF SubOK
      <3>4. Subscription(Offer(sub[s], seq), Last + 1)
        BY <1>2, <2>1, <2>2, <3>3, OfferKeeps
      <3>5. Offer(sub[s], seq).st = sub[s].st /\ Offer(sub[s], seq).byLog = sub[s].byLog
        BY <2>1 DEF Offer, Ended, SubType
      <3>6. sub'[s].cause = "none" => s \in registered'
        BY <1>1, <2>1, <2>3
      <3>7. Subscription(sub'[s], Last') /\ sub'[s].st # "none" /\ ~sub'[s].byLog
        BY <1>3, <2>2, <3>1, <3>3, <3>4, <3>5
      <3>8. SubOK(s)'
        BY <3>6, <3>7 DEF SubOK
      <3>9. QED
        BY <3>1, <3>2, <3>8
    <2>4. CASE s \notin registered
      <3>1. sub'[s] = sub[s]
        BY <2>1, <2>4
      <3>2. sub[s].st = "running" => sub[s].cause # "none"
        BY <2>1, <2>4 DEF SubOK
      <3>3. Subscription(sub[s], Last + 1)
        BY <1>2, <2>1, <2>2, <3>2, LaterWindow
      <3>4. s \in registered' \cup ending' => s \in registered \cup ending
        BY <1>1
      <3>5. Subscription(sub'[s], Last')
        BY <1>3, <3>1, <3>3
      <3>6. SubOK(s)'
        BY <2>1, <2>2, <3>1, <3>2, <3>4, <3>5 DEF SubOK
      <3>7. QED
        BY <2>1, <3>1, <3>6
    <2>5. QED
      BY <2>3, <2>4
  <1>7. sub' \in [Subs -> SubType]
    BY <1>1, <1>6
  <1>8. IInv'
    BY <1>1, <1>2, <1>3, <1>4, <1>6, <1>7 DEF IInv
  <1>9. Shared!Commit
    <2>1. [s \in Subs |-> FeedReader(sub'[s])] = [s \in Subs |-> FeedReader(sub[s])]
      BY <1>6
    <2>2. QED
      BY <1>3, <1>5, <2>1 DEF Shared!Commit
  <1>10. QED
    BY <1>8, <1>9 DEF Implements, Shared!Next

\* A step of one running subscription.
LEMMA OneSubStep ==
  ASSUME IInv, NEW s \in Subs, NEW y, sub[s].st = "running",
         GoodStep(sub[s], y, Last, Shut), sub' = [sub EXCEPT ![s] = y],
         UNCHANGED <<log, ring, registered, phase, ending>>, Cutoffs'
  PROVE  IInv' /\ Implements
  <1> DEFINE a == FeedReader(sub[s])
             b == FeedReader(y)
             rs == [r \in Subs |-> FeedReader(sub[r])]
  <1>1. /\ log' = log /\ ring' = ring /\ registered' = registered /\ phase' = phase
        /\ ending' = ending /\ Last' = Last /\ Shut' = Shut
    BY DEF Last, Shut
  <1>2. /\ sub \in [Subs -> SubType] /\ sub' \in [Subs -> SubType] /\ sub'[s] = y
        /\ \A r \in Subs \ {s} : sub'[r] = sub[r]
    BY DEF IInv, GoodStep
  <1>3. RingIsSuffix'
    BY <1>1 DEF IInv, RingIsSuffix
  <1>4. ASSUME NEW r \in Subs
        PROVE  SubOK(r)'
    <2>1. SubOK(r)
      BY DEF IInv
    <2>2. CASE r # s
      BY <1>1, <1>2, <2>1, <2>2 DEF SubOK
    <2>3. CASE r = s
      <3>1. /\ Subscription(y, Last) /\ y.st # "none" /\ y.byLog = sub[s].byLog
            /\ y.st = "running" /\ y.cause = "none" => sub[s].cause = "none"
        BY DEF GoodStep
      <3>2. QED
        BY <1>1, <1>2, <2>1, <2>3, <3>1 DEF SubOK
    <2>4. QED
      BY <2>2, <2>3
  <1>5. IInv'
    BY <1>1, <1>2, <1>3, <1>4 DEF IInv
  <1>6. [r \in Subs |-> FeedReader(sub'[r])] = [rs EXCEPT ![s] = b]
    BY <1>2
  <1>7. rs[s] = a
    OBVIOUS
  <1>8. Moves(a, b, Last, Shut)
    BY DEF GoodStep
  <1> HIDE DEF a, b
  <1>9. CASE b = a
    <2>1. [rs EXCEPT ![s] = b] = rs
      BY <1>7, <1>9
    <2>2. UNCHANGED Shared!vars
      BY <1>1, <1>6, <2>1 DEF Shared!vars
    <2>3. QED
      BY <1>5, <2>2 DEF Implements
  <1>10. CASE /\ a.st \in {"catching_up", "following"} /\ a.at < Last
              /\ \E st \in {a.st, "following"} : b = [st |-> st, at |-> a.at + 1, owed |-> {}]
    <2>1. Shared!Deliver(s)
      BY <1>1, <1>6, <1>7, <1>10 DEF Shared!Deliver, Shared!Stands, Shared!Reading
    <2>2. QED
      BY <1>5, <2>1 DEF Implements, Shared!Next, Shared!ReaderStep
  <1>11. CASE a.st \in {"catching_up", "following"}
              /\ b = [st |-> "left", at |-> a.at, owed |-> {}]
    <2>1. Shared!Leave(s)
      BY <1>1, <1>6, <1>7, <1>11 DEF Shared!Leave, Shared!Stands, Shared!Reading
    <2>2. QED
      BY <1>5, <2>1 DEF Implements, Shared!Next, Shared!ReaderStep
  <1>12. CASE /\ Shut /\ a.st = "following"
              /\ b = [st |-> "closed", at |-> a.at, owed |-> (a.at + 1)..Last]
    <2>1. Shared!LastWords(s)
      BY <1>1, <1>6, <1>7, <1>12 DEF Shared!LastWords, Shared!Stands
    <2>2. QED
      BY <1>5, <2>1 DEF Implements, Shared!Next, Shared!ReaderStep
  <1>13. CASE Shut /\ a.st = "catching_up"
              /\ b = [st |-> "unavailable", at |-> a.at, owed |-> {}]
    <2>1. Shared!NoLastWords(s)
      BY <1>1, <1>6, <1>7, <1>13 DEF Shared!NoLastWords, Shared!Stands
    <2>2. QED
      BY <1>5, <2>1 DEF Implements, Shared!Next, Shared!ReaderStep
  <1>14. QED
    BY <1>8, <1>9, <1>10, <1>11, <1>12, <1>13 DEF Moves

LEMMA OpenStep ==
  ASSUME IInv, NEW s \in Subs, NEW prev \in 0..Last, NEW hto \in Nat, NEW pinned \in Seq(Nat),
         prev <= hto, hto + Len(pinned) = Last,
         \A i \in 1..Len(pinned) : pinned[i] = hto + i,
         Register(s, Opened(prev, hto, pinned)), Cutoffs'
  PROVE  IInv' /\ Implements
  <1> DEFINE y == Opened(prev, hto, pinned)
             rs == [r \in Subs |-> FeedReader(sub[r])]
  <1>1. /\ log' = log /\ ring' = ring /\ phase' = phase /\ ending' = ending
        /\ Last' = Last /\ Shut' = Shut /\ ~Shut
        /\ sub' = [sub EXCEPT ![s] = y] /\ sub[s].st = "none"
        /\ registered' = {r \in registered : sub[r].cause = "none"} \cup {s}
    BY DEF Register, closeVars, Last, Shut, Closed
  <1>2. prev \in Nat /\ Last \in Nat
    BY DEF IInv, Last
  <1>3. /\ y \in SubType /\ Subscription(y, Last) /\ y.st = "running" /\ ~y.byLog
        /\ FeedReader(y) = [st |-> Following(y), at |-> prev, owed |-> {}]
    <2>1. prev \in Nat /\ Last \in Nat /\ prev <= hto /\ hto + Len(pinned) = Last
      BY <1>2
    <2>2. \A i \in 1..Len(pinned) : pinned[i] = hto + i
      OBVIOUS
    <2>3. FreshOne(Opened(prev, hto, pinned), prev, Last)
      BY <2>1, <2>2, OpenedKeeps, Zenon
    <2>4. QED
      BY <2>3 DEF FreshOne
  <1> HIDE DEF y
  <1>4. /\ sub \in [Subs -> SubType] /\ sub' \in [Subs -> SubType] /\ sub'[s] = y
        /\ \A r \in Subs \ {s} : sub'[r] = sub[r]
        /\ registered' \subseteq Subs
    BY <1>1, <1>3 DEF IInv
  <1>5. RingIsSuffix'
    BY <1>1 DEF IInv, RingIsSuffix
  <1>6. ASSUME NEW r \in Subs
        PROVE  SubOK(r)'
    <2>1. SubOK(r)
      BY DEF IInv
    <2>2. CASE r # s
      BY <1>1, <1>4, <2>1, <2>2 DEF SubOK
    <2>3. CASE r = s
      BY <1>1, <1>3, <1>4, <2>3 DEF SubOK
    <2>4. QED
      BY <2>2, <2>3
  <1>7. IInv'
    BY <1>1, <1>4, <1>5, <1>6 DEF IInv
  <1>8. sub[s] = NotOpened
    BY <1>1 DEF IInv, SubOK, Subscription
  <1>9. rs[s] = Shared!Idle
    <2>1. FeedStatus(NotOpened) = "idle"
      BY DEF FeedStatus, NotOpened
    <2>2. {NotOpened.tail[i] : i \in DOMAIN NotOpened.tail} = {} /\ NotOpened.prev = 0
      BY DEF NotOpened
    <2>3. QED
      BY <1>8, <2>1, <2>2 DEF FeedReader, Shared!Idle
  <1>10. [r \in Subs |-> FeedReader(sub'[r])]
           = [rs EXCEPT ![s] = [st |-> Following(y), at |-> prev, owed |-> {}]]
    BY <1>3, <1>4
  <1>11. Following(y) \in Shared!Reading
    BY DEF Following, Shared!Reading
  <1>12. Shared!Join(s, prev, Following(y))
    BY <1>1, <1>9, <1>10 DEF Shared!Join, Shared!Stands
  <1>13. QED
    BY <1>7, <1>11, <1>12 DEF Implements, Shared!Next, Shared!ReaderStep

LEMMA UnregisterStep ==
  ASSUME IInv, Unregister, Cutoffs'
  PROVE  IInv' /\ Implements
  <1>1. /\ log' = log /\ ring' = ring /\ sub' = sub /\ registered' = {} /\ ending' = registered
        /\ Last' = Last /\ ~Shut /\ Shut'
    BY DEF Unregister, CloseStep, Last, Shut
  <1>2. RingIsSuffix'
    BY <1>1 DEF IInv, RingIsSuffix
  <1>3. \A s \in Subs : SubOK(s)'
    BY <1>1 DEF IInv, SubOK
  <1>4. IInv'
    BY <1>1, <1>2, <1>3 DEF IInv
  <1>5. Shared!Shut
    BY <1>1 DEF Shared!Shut
  <1>6. QED
    BY <1>4, <1>5 DEF Implements, Shared!Next

LEMMA EndSubscriptionStep ==
  ASSUME IInv, NEW s \in Subs, EndSubscription(s), Cutoffs'
  PROVE  IInv' /\ Implements
  <1> DEFINE y == ClosedByLog(sub[s])
  <1>1. /\ log' = log /\ ring' = ring /\ registered' = registered /\ ending' = ending \ {s}
        /\ Last' = Last /\ Shut /\ Shut' /\ s \in ending /\ sub' = [sub EXCEPT ![s] = y]
    BY DEF EndSubscription, CloseStep, Last, Shut
  <1>2. sub[s] \in SubType /\ SubOK(s) /\ Last \in Nat
    BY DEF IInv, Last
  <1>3. Subscription(sub[s], Last) /\ sub[s].st # "none"
    BY <1>1, <1>2 DEF SubOK
  <1>4. /\ y \in SubType /\ Subscription(y, Last) /\ FeedReader(y) = FeedReader(sub[s])
        /\ y.st # "none" /\ y.cause # "none"
    BY <1>2, <1>3, ClosedByLogGood
  <1> HIDE DEF y
  <1>5. /\ sub' \in [Subs -> SubType] /\ sub'[s] = y
        /\ \A r \in Subs \ {s} : sub'[r] = sub[r]
    BY <1>1, <1>4 DEF IInv
  <1>6. RingIsSuffix'
    BY <1>1 DEF IInv, RingIsSuffix
  <1>7. ASSUME NEW r \in Subs
        PROVE  SubOK(r)'
    <2>1. SubOK(r)
      BY DEF IInv
    <2>2. CASE r # s
      BY <1>1, <1>5, <2>1, <2>2 DEF SubOK
    <2>3. CASE r = s
      BY <1>1, <1>4, <1>5, <2>3 DEF SubOK
    <2>4. QED
      BY <2>2, <2>3
  <1>8. IInv'
    BY <1>1, <1>5, <1>6, <1>7 DEF IInv
  <1>9. \A r \in Subs : FeedReader(sub'[r]) = FeedReader(sub[r])
    BY <1>4, <1>5
  <1>10. UNCHANGED Shared!vars
    BY <1>1, <1>9 DEF Shared!vars
  <1>11. QED
    BY <1>8, <1>10 DEF Implements

-----------------------------------------------------------------------------
(* The cutoffs, action by action *)

LEMMA CutoffsKept ==
  ASSUME IInv, Next
  PROVE  Cutoffs'
  <1>1. /\ drainer = [at |-> drainer.at, batch |-> drainer.batch, left |-> drainer.left,
                      first |-> drainer.first]
        /\ drainer.batch \in Nat /\ outbox \in Seq(Nat) /\ sizes \in Seq(Nat)
        /\ Closing => drainer.at \in {"none", "exited"}
        /\ pc \in [Publishers -> {"out", "waiting", "inside"}]
        /\ Shut => \A p \in Publishers : pc[p] = "out"
    BY DEF IInv, Cutoffs
  <1> USE DEF Cutoffs, Closing, Shut, publishVars, outboxVars, drainVars, closeVars
  <1>2. ASSUME ReadPrimary
        PROVE  Cutoffs'
    BY <1>1, <1>2 DEF ReadPrimary
  <1>3. ASSUME TryPublish
        PROVE  Cutoffs'
    BY <1>1, <1>3 DEF TryPublish
  <1>4. ASSUME CloseDone
        PROVE  Cutoffs'
    BY <1>1, <1>4 DEF CloseDone
  <1>5. ASSUME WriteFile
        PROVE  Cutoffs'
    BY <1>1, <1>5 DEF WriteFile
  <1>6. ASSUME NEW p \in Publishers, Publish(p)
        PROVE  Cutoffs'
    BY <1>1, <1>6 DEF Publish
  <1>7. ASSUME NEW p \in Publishers, Enter(p)
        PROVE  Cutoffs'
    BY <1>1, <1>7 DEF Enter
  <1>8. ASSUME NEW p \in Publishers, SendAndCommit(p)
        PROVE  Cutoffs'
    BY <1>1, <1>8 DEF SendAndCommit
  <1>9. ASSUME NEW p \in Publishers, Abandon(p)
        PROVE  Cutoffs'
    BY <1>1, <1>9 DEF Abandon
  <1>10. ASSUME NEW n \in BatchSizes, Enqueue(n)
        PROVE  Cutoffs'
    <2>1. Len(sizes) + 1 \in Nat /\ n \in Nat
      BY <1>1, EventLogAssumption
    <2>2. Append(outbox, Len(sizes) + 1) \in Seq(Nat) /\ Append(sizes, n) \in Seq(Nat)
      BY <1>1, <2>1, AppendProperties
    <2>3. sizes' \in Seq(Nat) /\ outbox' \in Seq(Nat)
      BY <1>10, <2>2 DEF Enqueue
    <2>4. ~Closing' /\ pc' = pc /\ phase' = phase /\ ~Shut'
      BY <1>10 DEF Enqueue, Cut
    <2>5. drainer' = drainer \/ drainer' = [drainer EXCEPT !.at = "ready"]
      BY <1>10 DEF Enqueue
    <2>6. QED
      BY <1>1, <2>3, <2>4, <2>5
  <1>11. ASSUME TakeBatch
        PROVE  Cutoffs'
    BY <1>1, <1>11 DEF TakeBatch
  <1>12. ASSUME Park
        PROVE  Cutoffs'
    BY <1>1, <1>12 DEF Park
  <1>13. ASSUME Unpark
        PROVE  Cutoffs'
    BY <1>1, <1>13 DEF Unpark
  <1>14. ASSUME EnterBatch
        PROVE  Cutoffs'
    BY <1>1, <1>14 DEF EnterBatch
  <1>15. ASSUME CommitNext
        PROVE  Cutoffs'
    BY <1>1, <1>15 DEF CommitNext
  <1>16. ASSUME CommitBatch
        PROVE  Cutoffs'
    BY <1>1, <1>16 DEF CommitBatch
  <1>17. ASSUME Exit
        PROVE  Cutoffs'
    BY <1>1, <1>17 DEF Exit
  <1>18. ASSUME NEW f \in Flushers, Flush(f)
        PROVE  Cutoffs'
    BY <1>1, <1>18 DEF Flush
  <1>19. ASSUME NEW f \in Flushers, GiveUpFlush(f)
        PROVE  Cutoffs'
    BY <1>1, <1>19 DEF GiveUpFlush
  <1>20. ASSUME NEW s \in Subs, SubStep(s)
        PROVE  Cutoffs'
    BY <1>1, <1>20 DEF SubStep, SubscribeLive, Resume, Register, OwnerStep, SendHead, FailHead,
       Send, Deliver, TakeLive, Notified, Stop, Detach, Step
  <1>21. ASSUME CutOutbox
        PROVE  Cutoffs'
    BY <1>1, <1>21 DEF CutOutbox, CloseStep
  <1>22. ASSUME CutAdmission
        PROVE  Cutoffs'
    BY <1>1, <1>22 DEF CutAdmission, CloseStep
  <1>23. ASSUME JoinDrainer
        PROVE  Cutoffs'
    BY <1>1, <1>23 DEF JoinDrainer, CloseStep
  <1>24. ASSUME Unregister
        PROVE  Cutoffs'
    BY <1>1, <1>24 DEF Unregister, CloseStep
  <1>25. ASSUME JoinOwners
        PROVE  Cutoffs'
    BY <1>1, <1>25 DEF JoinOwners, CloseStep
  <1>26. ASSUME NEW s \in Subs, EndSubscription(s)
        PROVE  Cutoffs'
    BY <1>1, <1>26 DEF EndSubscription, CloseStep
  <1>27. QED
    BY <1>2, <1>3, <1>4, <1>5, <1>6, <1>7, <1>8, <1>9, <1>10, <1>11, <1>12, <1>13, <1>14, <1>15,
       <1>16, <1>17, <1>18, <1>19, <1>20, <1>21, <1>22, <1>23, <1>24, <1>25, <1>26
       DEF Next, PublisherStep, DrainerStep, Close

LEMMA StartsRight == Init => IInv /\ Shared!Init
  <1> SUFFICES ASSUME Init PROVE IInv /\ Shared!Init
    OBVIOUS
  <1>1. NotOpened \in SubType /\ \A n \in Nat : Subscription(NotOpened, n)
    BY NotOpenedIsOne
  <1>2. /\ log = <<>> /\ ring = <<>> /\ registered = {} /\ ending = {}
        /\ sub = [s \in Subs |-> NotOpened] /\ Last = 0 /\ ~Shut /\ ~Closing
    BY DEF Init, Last, Shut, Closing
  <1>3. \A s \in Subs : SubOK(s)
    <2>1. NotOpened.st = "none" /\ NotOpened.byLog = FALSE
      BY DEF NotOpened
    <2>2. QED
      BY <1>1, <1>2, <2>1 DEF SubOK
  <1>4. Cutoffs
    BY <1>2 DEF Init, Cutoffs
  <1>5. RingIsSuffix
    BY <1>2 DEF RingIsSuffix
  <1>6. IInv
    BY <1>1, <1>2, <1>3, <1>4, <1>5 DEF IInv
  <1>7. FeedReader(NotOpened) = Shared!Idle
    <2>1. FeedStatus(NotOpened) = "idle"
      BY DEF FeedStatus, NotOpened
    <2>2. {NotOpened.tail[i] : i \in DOMAIN NotOpened.tail} = {} /\ NotOpened.prev = 0
      BY DEF NotOpened
    <2>3. QED
      BY <2>1, <2>2 DEF FeedReader, Shared!Idle
  <1>8. Shared!Init
    BY <1>2, <1>7 DEF Shared!Init
  <1>9. QED
    BY <1>6, <1>8

LEMMA SubStepKeeps ==
  ASSUME IInv, NEW s \in Subs, SubStep(s), Cutoffs'
  PROVE  IInv' /\ Implements
  <1> DEFINE x == sub[s]
             n == Last
  <1>1. x \in SubType /\ SubOK(s) /\ n \in Nat /\ Shut \in BOOLEAN
    BY DEF IInv, Last, Shut
  <1>2. Subscription(x, n) /\ (x.byLog => Shut)
    BY <1>1 DEF SubOK
  <1>3. ASSUME NEW y, Step(s, y), GoodStep(x, y, n, Shut)
        PROVE  IInv' /\ Implements
    <2>1. /\ x.st = "running" /\ sub' = [sub EXCEPT ![s] = y]
          /\ UNCHANGED <<log, ring, registered, phase, ending>>
      BY <1>3 DEF Step, closeVars
    <2>2. QED
      BY <1>3, <2>1, OneSubStep
  <1>4. CASE SubscribeLive(s)
    <2>1. Register(s, Opened(n, n, <<>>))
      BY <1>4 DEF SubscribeLive
    <2>2. n \in 0..Last /\ n \in Nat /\ <<>> \in Seq(Nat) /\ n <= n /\ n + Len(<<>>) = Last
          /\ \A i \in 1..Len(<<>>) : <<>>[i] = n + i
      BY <1>1
    <2>3. QED
      BY <2>1, <2>2, OpenStep
  <1>5. ASSUME NEW a \in 0..Last, Resume(s, a)
        PROVE  IInv' /\ Implements
    <2> DEFINE pinned == RingAfter(a)
               hto == n - Len(pinned)
    <2>1. /\ pinned \in Seq(Nat) /\ Len(pinned) \in Nat /\ Len(pinned) <= n - a
          /\ \A i \in 1..Len(pinned) : pinned[i] = n - Len(pinned) + i
      BY PinIsTheEnd DEF IInv
    <2>2. Register(s, Opened(a, hto, pinned))
      BY <1>5 DEF Resume
    <2> HIDE DEF pinned
    <2>3. hto \in Nat /\ a <= hto /\ hto + Len(pinned) = Last
      BY <1>1, <2>1
    <2>4. \A i \in 1..Len(pinned) : pinned[i] = hto + i
      BY <2>1
    <2> HIDE DEF hto
    <2>5. QED
      BY <2>1, <2>2, <2>3, <2>4, OpenStep
  <1>6. CASE SendHead(s)
    BY <1>1, <1>2, <1>3, <1>6, SendHeadGood DEF SendHead, Step
  <1>7. CASE FailHead(s)
    BY <1>1, <1>2, <1>3, <1>7, FailHeadGood DEF FailHead, Step
  <1>8. CASE Send(s)
    <2>1. /\ x.st = "running" /\ x.leg # "head" /\ x.local # <<>> /\ x.sending = 0
          /\ x.cause = "none"
      BY <1>8 DEF Send, Step
    <2>2. Head(x.local) = x.prev + 1 /\ GoodStep(x, HandOver(x), n, Shut)
      BY <1>1, <1>2, <2>1, HandOverGood
    <2>3. Step(s, HandOver(x))
      BY <1>8, <2>2 DEF Send
    <2>4. QED
      BY <1>3, <2>2, <2>3
  <1>9. CASE Deliver(s)
    <2> DEFINE g == IF x.leg = "head" /\ x.sending = x.hto THEN "pin" ELSE x.leg
               y == [x EXCEPT !.prev = x.sending, !.sending = 0, !.leg = g]
    <2>1. x.st = "running" /\ x.sending # 0 /\ Step(s, y)
      BY <1>9 DEF Deliver, Step
    <2>2. GoodStep(x, y, n, Shut)
      BY <1>1, <1>2, <2>1, DeliverGood
    <2>3. QED
      BY <1>3, <2>1, <2>2
  <1>10. CASE TakeLive(s)
    <2>1. /\ x.st = "running" /\ x.leg \in {"pin", "live"} /\ x.local = <<>> /\ x.sending = 0
          /\ x.cause = "none"
      BY <1>10 DEF TakeLive, Step
    <2>2. /\ GoodStep(x, [x EXCEPT !.leg = "live", !.local = x.live, !.live = <<>>], n, Shut)
          /\ x.live = <<>> => GoodStep(x, [x EXCEPT !.leg = "parked"], n, Shut)
      BY <1>1, <1>2, <2>1, TakeLiveGood
    <2>3. CASE x.live = <<>>
      BY <1>3, <1>10, <2>2, <2>3 DEF TakeLive
    <2>4. CASE x.live # <<>>
      BY <1>3, <1>10, <2>2, <2>4 DEF TakeLive
    <2>5. QED
      BY <2>3, <2>4
  <1>11. CASE Notified(s)
    BY <1>1, <1>2, <1>3, <1>11, NotifiedGood DEF Notified, Step
  <1>12. CASE Stop(s)
    BY <1>1, <1>2, <1>3, <1>12, FinishedGood DEF Stop, Step
  <1>13. CASE Detach(s)
    BY <1>1, <1>2, <1>3, <1>13, DetachGood DEF Detach, Step
  <1>14. QED
    BY <1>4, <1>5, <1>6, <1>7, <1>8, <1>9, <1>10, <1>11, <1>12, <1>13 DEF SubStep, OwnerStep

\* The steps that leave the record and its readers alone.
QuietAction ==
  \/ ReadPrimary \/ CloseDone \/ WriteFile
  \/ \E p \in Publishers : Publish(p) \/ Enter(p) \/ Abandon(p)
  \/ \E n \in BatchSizes : Enqueue(n)
  \/ TakeBatch \/ Park \/ Unpark \/ EnterBatch \/ CommitBatch \/ Exit
  \/ \E f \in Flushers : Flush(f) \/ GiveUpFlush(f)
  \/ CutOutbox \/ CutAdmission \/ JoinDrainer \/ JoinOwners

LEMMA QuietIsQuiet ==
  ASSUME QuietAction
  PROVE  UNCHANGED recordVars /\ UNCHANGED ending /\ Shut' = Shut
  <1> USE DEF Shut, recordVars, closeVars, CloseStep
  <1>1. CASE ReadPrimary \/ CloseDone \/ WriteFile
    BY <1>1 DEF ReadPrimary, CloseDone, WriteFile
  <1>2. ASSUME NEW p \in Publishers, Publish(p) \/ Enter(p) \/ Abandon(p)
        PROVE  UNCHANGED recordVars /\ UNCHANGED ending /\ Shut' = Shut
    BY <1>2 DEF Publish, Enter, Abandon
  <1>3. ASSUME NEW n \in BatchSizes, Enqueue(n)
        PROVE  UNCHANGED recordVars /\ UNCHANGED ending /\ Shut' = Shut
    BY <1>3 DEF Enqueue
  <1>4. CASE TakeBatch \/ Park \/ Unpark \/ EnterBatch \/ CommitBatch \/ Exit
    BY <1>4 DEF TakeBatch, Park, Unpark, EnterBatch, CommitBatch, Exit
  <1>5. ASSUME NEW f \in Flushers, Flush(f) \/ GiveUpFlush(f)
        PROVE  UNCHANGED recordVars /\ UNCHANGED ending /\ Shut' = Shut
    BY <1>5 DEF Flush, GiveUpFlush
  <1>6. CASE CutOutbox \/ CutAdmission \/ JoinDrainer
    BY <1>6 DEF CutOutbox, CutAdmission, JoinDrainer
  <1>7. CASE JoinOwners
    BY <1>7 DEF JoinOwners
  <1>8. QED
    BY <1>1, <1>2, <1>3, <1>4, <1>5, <1>6, <1>7 DEF QuietAction

LEMMA NextKeeps ==
  ASSUME IInv, Next
  PROVE  IInv' /\ Implements
  <1>1. Cutoffs'
    BY CutoffsKept
  <1>2. CASE QuietAction
    BY <1>1, <1>2, QuietIsQuiet, QuietStep
  <1>3. ASSUME NEW p \in Publishers, SendAndCommit(p)
        PROVE  IInv' /\ Implements
    <2>1. Commit(Direct) /\ UNCHANGED <<phase, ending>> /\ pc[p] = "inside"
      BY <1>3 DEF SendAndCommit, closeVars
    <2>2. ~Shut
      BY <2>1 DEF IInv, Cutoffs
    <2>3. QED
      BY <1>1, <2>1, <2>2, CommitStep DEF Direct
  <1>4. CASE TryPublish
    <2>1. Commit(Direct) /\ UNCHANGED <<phase, ending>> /\ ~Shut
      BY <1>4 DEF TryPublish, closeVars, Closed, Shut
    <2>2. QED
      BY <1>1, <2>1, CommitStep DEF Direct
  <1>5. CASE CommitNext
    <2>1. Commit(drainer.batch) /\ UNCHANGED <<phase, ending>> /\ drainer.at = "inside"
      BY <1>5 DEF CommitNext, closeVars
    <2>2. drainer.batch \in Nat /\ ~Closing
      BY <2>1 DEF IInv, Cutoffs
    <2>3. ~Shut
      BY <2>2 DEF Closing, Shut
    <2>4. QED
      BY <1>1, <2>1, <2>2, <2>3, CommitStep
  <1>6. ASSUME NEW s \in Subs, SubStep(s)
        PROVE  IInv' /\ Implements
    BY <1>1, <1>6, SubStepKeeps
  <1>7. CASE Unregister
    BY <1>1, <1>7, UnregisterStep
  <1>8. ASSUME NEW s \in Subs, EndSubscription(s)
        PROVE  IInv' /\ Implements
    BY <1>1, <1>8, EndSubscriptionStep
  <1>9. QED
    BY <1>2, <1>3, <1>4, <1>5, <1>6, <1>7, <1>8
       DEF Next, QuietAction, PublisherStep, DrainerStep, Close

LEMMA StutterKeeps ==
  ASSUME IInv, UNCHANGED vars
  PROVE  IInv' /\ Implements
  <1>1. UNCHANGED recordVars /\ UNCHANGED ending /\ phase' = phase /\ pc' = pc
        /\ drainer' = drainer /\ outbox' = outbox /\ sizes' = sizes
    BY DEF vars, closeVars, publishVars, drainVars, outboxVars
  <1>2. Shut' = Shut /\ Cutoffs'
    BY <1>1 DEF IInv, Cutoffs, Shut, Closing
  <1>3. QED
    BY <1>1, <1>2, QuietStep

-----------------------------------------------------------------------------
(* The theorems *)

\* What every state of the log has: each subscription holds exactly the
\* records between its reader and the end of the log, in order.
THEOREM Invariant == Spec => []IInv
  <1>1. Init => IInv
    BY StartsRight
  <1>2. IInv /\ [Next]_vars => IInv'
    BY NextKeeps, StutterKeeps
  <1>3. QED
    BY <1>1, <1>2, PTL DEF Spec

\* The log implements Feed: nothing is lost, repeated, reordered or skipped
\* on the way to a reader, and what Close leaves undelivered is handed over
\* whole (Subscribe, run, pump, send, finish, Rest, Close).
THEOREM LogImplementsFeed == Spec => ImplementsFeed
  <1>1. Init => IInv /\ Shared!Init
    BY StartsRight
  <1>2. IInv /\ [Next]_vars => IInv' /\ [Shared!Next]_(Shared!vars)
    BY NextKeeps, StutterKeeps DEF Implements
  <1>3. QED
    BY <1>1, <1>2, PTL DEF Spec, ImplementsFeed, Shared!Spec

-----------------------------------------------------------------------------
(* What a subscription is charged *)

\* A running subscription is charged an item for each live record it holds,
\* and a byte for each record.
Accounted(x) ==
  x.st = "running" =>
    /\ x.items = Len(x.live) + IF x.leg = "live" THEN Len(x.local) ELSE 0
    /\ x.bytes = Len(x.live) + Len(x.local)

Full(x) ==
  \/ Len(x.live) + (IF x.leg = "live" THEN Len(x.local) ELSE 0) >= MaxItems
  \/ Len(x.live) + Len(x.local) >= MaxBytes

\* A step keeps the account, and drops for slowness only what is full.
FairStep(x, y) ==
  /\ Accounted(x) => Accounted(y)
  /\ x.st = "running" /\ Accounted(x) /\ x.cause = "none" /\ y.cause = "slow" => Full(x)

LEMMA SameCharge ==
  ASSUME NEW x, NEW y, y.st = x.st, y.leg = x.leg, y.local = x.local, y.live = x.live,
         y.items = x.items, y.bytes = x.bytes, y.cause # "slow" \/ y.cause = x.cause
  PROVE  FairStep(x, y)
  BY DEF FairStep, Accounted

LEMMA EndedIsFair ==
  ASSUME NEW x \in SubType, NEW cause \in {"closed", "cursor", "hole"}
  PROVE  FairStep(x, Ended(x, cause)) /\ FairStep(x, ClosedByLog(x))
  <1> DEFINE y == Ended(x, cause)
             z == ClosedByLog(x)
  <1>1. /\ y.st = x.st /\ y.leg = x.leg /\ y.local = x.local /\ y.live = x.live
        /\ y.items = x.items /\ y.bytes = x.bytes /\ (y.cause # "slow" \/ y.cause = x.cause)
    BY DEF Ended, SubType
  <1>2. /\ z.st = x.st /\ z.leg = x.leg /\ z.local = x.local /\ z.live = x.live
        /\ z.items = x.items /\ z.bytes = x.bytes /\ (z.cause # "slow" \/ z.cause = x.cause)
    BY DEF ClosedByLog, SubType
  <1> HIDE DEF y, z
  <1>3. FairStep(x, y) /\ FairStep(x, z)
    BY <1>1, <1>2, SameCharge
  <1>4. QED
    BY <1>3 DEF y, z

LEMMA FinishedIsFair ==
  ASSUME NEW x \in SubType, x.cause # "none"
  PROVE  FairStep(x, Finished(x)) /\ Finished(x).cause = x.cause
  <1>1. Finished(x).st = "finished" /\ Finished(x).cause = x.cause
    BY DEF Finished, SubType
  <1>2. QED
    BY <1>1 DEF FairStep, Accounted

LEMMA EndedAndFinished ==
  ASSUME NEW x \in SubType, NEW cause \in {"cursor", "hole"}, x.cause = "none"
  PROVE  FairStep(x, Finished(Ended(x, cause)))
  <1> DEFINE y == Ended(x, cause)
  <1>1. y \in SubType /\ y.cause = cause
    BY DEF Ended, SubType
  <1> HIDE DEF y
  <1>2. Finished(y).st = "finished" /\ Finished(y).cause = cause
    BY <1>1 DEF Finished, SubType
  <1>3. FairStep(x, Finished(y))
    BY <1>2 DEF FairStep, Accounted
  <1>4. QED
    BY <1>3 DEF y

LEMMA OfferIsFair ==
  ASSUME NEW x \in SubType, NEW seq \in Nat, x.cause = "none" => x.st = "running"
  PROVE  FairStep(x, Offer(x, seq))
  <1> DEFINE y == Offer(x, seq)
             a == Len(x.live)
             b == Len(x.local)
  <1>1. a \in Nat /\ b \in Nat /\ x.items \in Int /\ x.bytes \in Int
        /\ MaxItems \in Nat /\ MaxBytes \in Nat
    BY EventLogAssumption DEF SubType
  <1>2. CASE x.cause # "none"
    BY <1>2 DEF Offer, FairStep
  <1>3. CASE x.cause = "none" /\ (x.items >= MaxItems \/ x.bytes + 1 > MaxBytes)
    <2>1. y = [x EXCEPT !.cause = "slow"]
      BY <1>3 DEF Offer, Ended
    <2>2. /\ y.st = x.st /\ y.leg = x.leg /\ y.local = x.local /\ y.live = x.live
          /\ y.items = x.items /\ y.bytes = x.bytes
      BY <2>1 DEF SubType
    <2> HIDE DEF y
    <2>3. Accounted(x) => Accounted(y)
      BY <2>2 DEF Accounted
    <2>4. ASSUME Accounted(x)
          PROVE  Full(x)
      <3>1. x.items = a + (IF x.leg = "live" THEN b ELSE 0) /\ x.bytes = a + b
        BY <1>3, <2>4 DEF Accounted
      <3> HIDE DEF a, b
      <3>2. a + (IF x.leg = "live" THEN b ELSE 0) >= MaxItems \/ a + b >= MaxBytes
        BY <1>1, <1>3, <3>1
      <3>3. QED
        BY <3>2 DEF Full, a, b
    <2>5. QED
      BY <2>3, <2>4 DEF FairStep, y
  <1>4. CASE x.cause = "none" /\ ~(x.items >= MaxItems \/ x.bytes + 1 > MaxBytes)
    <2> DEFINE l == Append(x.live, seq)
    <2>1. y = [x EXCEPT !.live = l, !.items = @ + 1, !.bytes = @ + 1, !.notify = TRUE]
      BY <1>4 DEF Offer
    <2>2. Len(l) = a + 1
      BY AppendProperties DEF SubType
    <2> HIDE DEF l
    <2>3. /\ y.st = x.st /\ y.leg = x.leg /\ y.local = x.local /\ y.live = l
          /\ y.items = x.items + 1 /\ y.bytes = x.bytes + 1 /\ y.cause = x.cause
      BY <2>1 DEF SubType
    <2> HIDE DEF y
    <2>4. ASSUME Accounted(x)
          PROVE  Accounted(y)
      <3>1. x.items = a + (IF x.leg = "live" THEN b ELSE 0) /\ x.bytes = a + b
        BY <1>4, <2>4 DEF Accounted
      <3>2. Len(y.live) = a + 1 /\ Len(y.local) = b
        BY <2>2, <2>3
      <3> HIDE DEF a, b
      <3>3. /\ y.items = (a + 1) + (IF y.leg = "live" THEN b ELSE 0)
            /\ y.bytes = (a + 1) + b
        BY <1>1, <2>3, <3>1
      <3>4. QED
        BY <3>2, <3>3 DEF Accounted
    <2>5. QED
      BY <1>4, <2>3, <2>4 DEF FairStep, y
  <1>5. QED
    BY <1>2, <1>3, <1>4

LEMMA HandOverIsFair ==
  ASSUME NEW x \in SubType, x.local # <<>>, x.cause = "none"
  PROVE  FairStep(x, HandOver(x))
  <1> DEFINE y == HandOver(x)
             l == Tail(x.local)
             h == Head(x.local)
             a == Len(x.live)
             b == Len(x.local)
  <1>1. Len(l) = b - 1
    BY HeadTailProperties DEF SubType
  <1>2. a \in Nat /\ b \in Nat /\ x.items \in Int /\ x.bytes \in Int
    BY DEF SubType
  <1>3. y = [x EXCEPT !.local = l, !.sending = h, !.bytes = @ - 1,
                      !.items = IF x.leg = "live" THEN @ - 1 ELSE @]
    BY DEF HandOver
  <1> HIDE DEF l, h
  <1>4. /\ y.st = x.st /\ y.leg = x.leg /\ y.local = l /\ y.live = x.live /\ y.cause = x.cause
        /\ y.items = (IF x.leg = "live" THEN x.items - 1 ELSE x.items) /\ y.bytes = x.bytes - 1
    BY <1>3 DEF SubType
  <1> HIDE DEF y
  <1>5. ASSUME Accounted(x)
        PROVE  Accounted(y)
    <2>1. SUFFICES ASSUME y.st = "running"
                   PROVE  /\ y.items = Len(y.live) + IF y.leg = "live" THEN Len(y.local) ELSE 0
                          /\ y.bytes = Len(y.live) + Len(y.local)
      BY DEF Accounted
    <2>2. x.items = a + (IF x.leg = "live" THEN b ELSE 0) /\ x.bytes = a + b
      BY <1>4, <1>5, <2>1 DEF Accounted
    <2>3. Len(y.live) = a /\ Len(y.local) = b - 1
      BY <1>1, <1>4
    <2> HIDE DEF a, b
    <2>4. y.items = a + (IF y.leg = "live" THEN b - 1 ELSE 0) /\ y.bytes = a + (b - 1)
      BY <1>2, <1>4, <2>2
    <2>5. QED
      BY <2>3, <2>4
  <1>6. QED
    BY <1>4, <1>5 DEF FairStep, y

LEMMA TakeLiveIsFair ==
  ASSUME NEW x \in SubType, x.local = <<>>, x.cause = "none"
  PROVE  /\ FairStep(x, [x EXCEPT !.leg = "live", !.local = x.live, !.live = <<>>])
         /\ x.live = <<>> => FairStep(x, [x EXCEPT !.leg = "parked"])
         /\ FairStep(x, [x EXCEPT !.leg = "live", !.notify = FALSE])
  <1> DEFINE y == [x EXCEPT !.leg = "live", !.local = x.live, !.live = <<>>]
             z == [x EXCEPT !.leg = "parked"]
             w == [x EXCEPT !.leg = "live", !.notify = FALSE]
  <1>1. Len(x.local) = 0 /\ Len(x.live) \in Nat /\ Len(<<>>) = 0
    BY DEF SubType
  <1>2. /\ y.st = x.st /\ y.leg = "live" /\ y.local = x.live /\ y.live = <<>>
        /\ y.items = x.items /\ y.bytes = x.bytes /\ y.cause = "none"
    BY DEF SubType
  <1>3. /\ z.st = x.st /\ z.leg = "parked" /\ z.local = x.local /\ z.live = x.live
        /\ z.items = x.items /\ z.bytes = x.bytes /\ z.cause = "none"
    BY DEF SubType
  <1>4. /\ w.st = x.st /\ w.leg = "live" /\ w.local = x.local /\ w.live = x.live
        /\ w.items = x.items /\ w.bytes = x.bytes /\ w.cause = "none"
    BY DEF SubType
  <1> HIDE DEF y, z, w
  <1>5. ASSUME Accounted(x), x.st = "running"
        PROVE  x.items = Len(x.live) /\ x.bytes = Len(x.live)
    BY <1>1, <1>5 DEF Accounted
  <1>6. FairStep(x, y)
    BY <1>1, <1>2, <1>5 DEF FairStep, Accounted
  <1>7. FairStep(x, z)
    BY <1>1, <1>3, <1>5 DEF FairStep, Accounted
  <1>8. FairStep(x, w)
    BY <1>1, <1>4, <1>5 DEF FairStep, Accounted
  <1>9. QED
    BY <1>6, <1>7, <1>8 DEF y, z, w

LEMMA OpenedIsFair ==
  ASSUME NEW prev \in Nat, NEW hto \in Nat, NEW pinned \in Seq(Nat)
  PROVE  Accounted(Opened(prev, hto, pinned)) /\ Opened(prev, hto, pinned).cause = "none"
  <1> DEFINE y == Opened(prev, hto, pinned)
  <1>1. y.items = 0 /\ y.bytes = Len(pinned) /\ y.leg \in {"head", "pin"} /\ y.local = pinned
        /\ y.live = <<>> /\ y.cause = "none"
    BY DEF Opened, NotOpened
  <1>2. Len(<<>>) = 0 /\ Len(pinned) \in Nat
    OBVIOUS
  <1> HIDE DEF y
  <1>3. Accounted(y)
    BY <1>1, <1>2 DEF Accounted
  <1>4. QED
    BY <1>1, <1>3 DEF y

Accounts == \A s \in Subs : Accounted(sub[s])

SlowMeansFull ==
  \A s \in Subs : sub[s].cause = "none" /\ sub'[s].cause = "slow" => Full(sub[s])

\* A subscription's own step.
LEMMA OwnStepIsFair ==
  ASSUME IInv, NEW s \in Subs, SubStep(s)
  PROVE  /\ sub' = [sub EXCEPT ![s] = sub'[s]]
         /\ FairStep(sub[s], sub'[s])
         /\ sub[s].cause = "none" /\ sub'[s].cause = "slow" => sub[s].st = "running"
  <1> DEFINE x == sub[s]
  <1>1. x \in SubType /\ Last \in Nat /\ sub \in [Subs -> SubType]
    BY DEF IInv, Last
  <1>2. ASSUME NEW y, Step(s, y), FairStep(x, y)
        PROVE  /\ sub' = [sub EXCEPT ![s] = sub'[s]]
               /\ FairStep(x, sub'[s])
               /\ x.cause = "none" /\ sub'[s].cause = "slow" => x.st = "running"
    BY <1>1, <1>2 DEF Step
  <1>3. ASSUME NEW prev \in Nat, NEW hto \in Nat, NEW pinned \in Seq(Nat),
               Register(s, Opened(prev, hto, pinned))
        PROVE  /\ sub' = [sub EXCEPT ![s] = sub'[s]]
               /\ FairStep(x, sub'[s])
               /\ x.cause = "none" /\ sub'[s].cause = "slow" => x.st = "running"
    <2> DEFINE y == Opened(prev, hto, pinned)
    <2>1. Accounted(y) /\ y.cause = "none"
      BY OpenedIsFair
    <2>2. sub' = [sub EXCEPT ![s] = y]
      BY <1>3 DEF Register
    <2> HIDE DEF y
    <2>3. QED
      BY <1>1, <2>1, <2>2 DEF FairStep
  <1>4. CASE SubscribeLive(s)
    <2>1. Register(s, Opened(Last, Last, <<>>)) /\ <<>> \in Seq(Nat)
      BY <1>4 DEF SubscribeLive
    <2>2. QED
      BY <1>1, <1>3, <2>1
  <1>5. ASSUME NEW a \in 0..Last, Resume(s, a)
        PROVE  /\ sub' = [sub EXCEPT ![s] = sub'[s]]
               /\ FairStep(x, sub'[s])
               /\ x.cause = "none" /\ sub'[s].cause = "slow" => x.st = "running"
    <2> DEFINE pinned == RingAfter(a)
               hto == Last - Len(pinned)
    <2>1. pinned \in Seq(Nat) /\ Len(pinned) \in Nat /\ Len(pinned) <= Last - a
      BY PinIsTheEnd DEF IInv
    <2>2. Register(s, Opened(a, hto, pinned))
      BY <1>5 DEF Resume
    <2> HIDE DEF pinned
    <2>3. hto \in Nat /\ a \in Nat
      BY <1>1, <2>1
    <2> HIDE DEF hto
    <2>4. QED
      BY <1>3, <2>1, <2>2, <2>3
  <1>6. CASE SendHead(s)
    <2> DEFINE h == x.prev + 1
               y == [x EXCEPT !.sending = h]
    <2>1. Step(s, y)
      BY <1>6 DEF SendHead
    <2>2. FairStep(x, y)
      <3>1. /\ y.st = x.st /\ y.leg = x.leg /\ y.local = x.local /\ y.live = x.live
            /\ y.items = x.items /\ y.bytes = x.bytes /\ y.cause = x.cause
        BY <1>1 DEF SubType
      <3> HIDE DEF y
      <3>2. QED
        BY <3>1, SameCharge
    <2>3. QED
      BY <1>2, <2>1, <2>2
  <1>7. CASE FailHead(s)
    BY <1>1, <1>2, <1>7, EndedAndFinished DEF FailHead
  <1>8. CASE Send(s)
    <2>1. x.local # <<>> /\ x.cause = "none"
          /\ (Step(s, HandOver(x)) \/ Step(s, Finished(Ended(x, "hole"))))
      BY <1>8 DEF Send
    <2>2. FairStep(x, HandOver(x)) /\ FairStep(x, Finished(Ended(x, "hole")))
      BY <1>1, <2>1, HandOverIsFair, EndedAndFinished
    <2>3. QED
      BY <1>2, <2>1, <2>2
  <1>9. CASE Deliver(s)
    <2> DEFINE g == IF x.leg = "head" /\ x.sending = x.hto THEN "pin" ELSE x.leg
               y == [x EXCEPT !.prev = x.sending, !.sending = 0, !.leg = g]
    <2>1. Step(s, y)
      BY <1>9 DEF Deliver
    <2>2. y.leg = "live" <=> x.leg = "live"
      BY <1>1 DEF SubType
    <2>3. /\ y.st = x.st /\ y.local = x.local /\ y.live = x.live /\ y.cause = x.cause
          /\ y.items = x.items /\ y.bytes = x.bytes
      BY <1>1 DEF SubType
    <2> HIDE DEF y
    <2>4. FairStep(x, y)
      BY <2>2, <2>3 DEF FairStep, Accounted
    <2>5. QED
      BY <1>2, <2>1, <2>4
  <1>10. CASE TakeLive(s)
    <2>1. x.local = <<>> /\ x.cause = "none"
      BY <1>10 DEF TakeLive
    <2>2. /\ FairStep(x, [x EXCEPT !.leg = "live", !.local = x.live, !.live = <<>>])
          /\ x.live = <<>> => FairStep(x, [x EXCEPT !.leg = "parked"])
      <3>1. x \in SubType /\ x.local = <<>> /\ x.cause = "none"
        BY <1>1, <2>1
      <3> HIDE DEF x
      <3>2. QED
        BY <3>1, TakeLiveIsFair, Zenon
    <2>3. CASE x.live = <<>>
      BY <1>2, <1>10, <2>2, <2>3 DEF TakeLive
    <2>4. CASE x.live # <<>>
      BY <1>2, <1>10, <2>2, <2>4 DEF TakeLive
    <2>5. QED
      BY <2>3, <2>4
  <1>11. CASE Notified(s)
    <2> DEFINE y == [x EXCEPT !.leg = "live", !.notify = FALSE]
    <2>1. x.leg = "parked" /\ x.st = "running" /\ Step(s, y)
      BY <1>11 DEF Notified, Step
    <2>2. x.local = <<>>
      BY <2>1 DEF IInv, SubOK, Subscription, Window
    <2>3. FairStep(x, y)
      <3>1. Len(x.local) = 0 /\ Len(x.live) \in Nat
        BY <1>1, <2>2 DEF SubType
      <3>2. /\ y.st = x.st /\ y.leg = "live" /\ y.local = x.local /\ y.live = x.live
            /\ y.items = x.items /\ y.bytes = x.bytes /\ y.cause = x.cause
        BY <1>1 DEF SubType
      <3> HIDE DEF y
      <3>3. QED
        BY <2>1, <3>1, <3>2 DEF FairStep, Accounted
    <2>4. QED
      BY <1>2, <2>1, <2>3
  <1>12. CASE Stop(s)
    BY <1>1, <1>2, <1>12, FinishedIsFair DEF Stop
  <1>13. CASE Detach(s)
    BY <1>1, <1>2, <1>13, EndedIsFair DEF Detach
  <1>14. QED
    BY <1>4, <1>5, <1>6, <1>7, <1>8, <1>9, <1>10, <1>11, <1>12, <1>13 DEF SubStep, OwnerStep

LEMMA CommitIsFair ==
  ASSUME IInv, Accounts, NEW b, Commit(b)
  PROVE  Accounts' /\ SlowMeansFull
  <1>1. Last + 1 \in Nat
    BY DEF IInv, Last
  <1>2. ASSUME NEW s \in Subs
        PROVE  Accounted(sub'[s]) /\ (sub[s].cause = "none" /\ sub'[s].cause = "slow" => Full(sub[s]))
    <2>1. sub[s] \in SubType /\ SubOK(s) /\ Accounted(sub[s])
      BY DEF IInv, Accounts
    <2>2. sub'[s] = IF s \in registered THEN Offer(sub[s], Last + 1) ELSE sub[s]
      BY DEF Commit
    <2>3. CASE s \notin registered
      BY <2>1, <2>2, <2>3
    <2>4. CASE s \in registered
      <3>1. sub[s].cause = "none" => sub[s].st = "running"
        BY <2>1, <2>4 DEF SubOK, Subscription, SubType
      <3>2. FairStep(sub[s], Offer(sub[s], Last + 1))
        BY <1>1, <2>1, <3>1, OfferIsFair
      <3>3. QED
        BY <2>1, <2>2, <2>4, <3>1, <3>2 DEF FairStep
    <2>5. QED
      BY <2>3, <2>4
  <1>3. QED
    BY <1>2 DEF Accounts, SlowMeansFull

LEMMA AccountsKept ==
  ASSUME IInv, Accounts, Next
  PROVE  Accounts' /\ SlowMeansFull
  <1>1. ASSUME sub' = sub
        PROVE  Accounts' /\ SlowMeansFull
    BY <1>1 DEF Accounts, SlowMeansFull
  <1>2. ASSUME NEW s \in Subs, NEW y, sub' = [sub EXCEPT ![s] = y], FairStep(sub[s], y),
               sub[s].cause = "none" /\ y.cause = "slow" => sub[s].st = "running"
        PROVE  Accounts' /\ SlowMeansFull
    <2>1. sub \in [Subs -> SubType] /\ Accounted(sub[s])
      BY DEF IInv, Accounts
    <2>2. sub'[s] = y /\ \A r \in Subs \ {s} : sub'[r] = sub[r]
      BY <1>2, <2>1
    <2>3. Accounted(y) /\ (sub[s].cause = "none" /\ y.cause = "slow" => Full(sub[s]))
      BY <1>2, <2>1 DEF FairStep
    <2>4. ASSUME NEW r \in Subs
          PROVE  Accounted(sub'[r]) /\ (sub[r].cause = "none" /\ sub'[r].cause = "slow" => Full(sub[r]))
      BY <2>2, <2>3 DEF Accounts
    <2>5. QED
      BY <2>4 DEF Accounts, SlowMeansFull
  <1>3. CASE QuietAction
    BY <1>1, <1>3, QuietIsQuiet DEF recordVars
  <1>4. CASE (\E p \in Publishers : SendAndCommit(p)) \/ TryPublish \/ CommitNext
    BY <1>4, CommitIsFair DEF SendAndCommit, TryPublish, CommitNext
  <1>5. ASSUME NEW s \in Subs, SubStep(s)
        PROVE  Accounts' /\ SlowMeansFull
    BY <1>2, <1>5, OwnStepIsFair
  <1>6. CASE Unregister
    BY <1>1, <1>6 DEF Unregister
  <1>7. ASSUME NEW s \in Subs, EndSubscription(s)
        PROVE  Accounts' /\ SlowMeansFull
    <2> DEFINE y == ClosedByLog(sub[s])
    <2>1. sub[s] \in SubType /\ sub' = [sub EXCEPT ![s] = y]
      BY <1>7 DEF EndSubscription, IInv
    <2>2. FairStep(sub[s], y)
      BY <2>1, EndedIsFair
    <2>3. sub[s].cause = "none" => y.cause = "closed"
      BY <2>1 DEF ClosedByLog, SubType
    <2> HIDE DEF y
    <2>4. QED
      BY <1>2, <2>1, <2>2, <2>3
  <1>8. QED
    BY <1>3, <1>4, <1>5, <1>6, <1>7 DEF Next, QuietAction, PublisherStep, DrainerStep, Close

\* A subscription is ended for slowness only when what it is charged for fills
\* its budget: no charge outlives its record, so a reader that keeps up is
\* never dropped (offer, handOver, pump).
THEOREM SlowMeansBudgetFull == Spec => SlowOnlyWhenFull
  <1>1. Init => IInv /\ Accounts
    <2>1. Init => IInv
      BY StartsRight
    <2>2. Init => Accounts
      BY DEF Init, Accounts, Accounted, NotOpened
    <2>3. QED
      BY <2>1, <2>2
  <1>2. IInv /\ [Next]_vars => IInv'
    BY NextKeeps, StutterKeeps
  <1>3. IInv /\ Accounts /\ [Next]_vars => Accounts' /\ SlowMeansFull
    <2>1. ASSUME UNCHANGED vars, Accounts
          PROVE  Accounts' /\ SlowMeansFull
      BY <2>1 DEF vars, recordVars, Accounts, SlowMeansFull
    <2>2. QED
      BY <2>1, AccountsKept
  <1>4. SlowMeansFull => [\A s \in Subs :
          sub[s].cause = "none" /\ sub'[s].cause = "slow" =>
            \/ Len(sub[s].live) + (IF sub[s].leg = "live" THEN Len(sub[s].local) ELSE 0) >= MaxItems
            \/ Len(sub[s].live) + Len(sub[s].local) >= MaxBytes]_vars
    BY DEF SlowMeansFull, Full
  <1>5. QED
    BY <1>1, <1>2, <1>3, <1>4, PTL DEF Spec, SlowOnlyWhenFull


-----------------------------------------------------------------------------
(* The outbox's invariant *)

Taken == Len(sizes) - Len(outbox)

Busy == drainer.at \in {"waiting", "inside", "accounting"}

\* The batches committed whole.
Whole == IF drainer.at \in {"waiting", "inside"} THEN Taken - 1 ELSE Taken

\* The last batch that has a record.
Reached == IF drainer.at = "inside" THEN Taken ELSE Whole

Places(b) == {i \in 1..Last : log[i] = b}

Boundary ==
  /\ drainer.at \in {"none", "ready", "parked", "waiting", "inside", "accounting", "exited"}
  /\ pc \in [Publishers -> {"out", "waiting", "inside"}]
  /\ drainer.at = "inside" <=> sem = "drainer"
  /\ \A p \in Publishers : pc[p] = "inside" <=> sem = p
  /\ drainer.at = "none" => sizes = <<>>
  /\ drainer.at = "exited" => Cut /\ outbox = <<>>
  /\ Closing => drainer.at \in {"none", "exited"}

Numbered ==
  /\ outbox \in Seq(Nat) /\ sizes \in Seq(Nat \ {0}) /\ ticket \in Seq(Nat)
  /\ Len(ticket) = Len(sizes) /\ Len(outbox) <= Len(sizes)
  /\ \A i \in 1..Len(outbox) : outbox[i] = Taken + i
  /\ drainer = [at |-> drainer.at, batch |-> drainer.batch, left |-> drainer.left,
                first |-> drainer.first]
  /\ Busy => Taken >= 1 /\ drainer.batch = Taken
  /\ drainer.at = "waiting" => drainer.left = sizes[Taken]

Recorded ==
  /\ log \in Seq(Nat)
  /\ \A i \in 1..Last : log[i] <= Reached
  /\ \A b \in 1..Whole :
       ticket[b] # 0 /\ Places(b) = ticket[b]..(ticket[b] + sizes[b] - 1)
  /\ \A b \in (Whole + 1)..Len(sizes) : ticket[b] = 0
  /\ drainer.at = "inside" =>
       /\ drainer.left \in 1..sizes[Taken]
       /\ drainer.first \in Nat \ {0}
       /\ drainer.first + sizes[Taken] = Last + 1 + drainer.left
       /\ Places(Taken) = drainer.first..Last

Ordered ==
  \A i, j \in 1..Last : i < j /\ log[i] # Direct /\ log[j] # Direct => log[i] <= log[j]

Settled == IF Busy THEN Taken - 1 ELSE Taken

Totals ==
  \E t \in [0..Len(sizes) -> Nat] :
    /\ t[0] = 0
    /\ \A b \in 1..Len(sizes) : t[b] = t[b - 1] + sizes[b]
    /\ enqueued = t[Len(sizes)] /\ drained = t[Settled]

Unsettled ==
  IF drainer.at = "accounting" THEN sizes[Taken]
  ELSE IF drainer.at = "inside" THEN sizes[Taken] - drainer.left ELSE 0

Counted == Cardinality({i \in 1..Last : log[i] # Direct}) = drained + Unsettled

Flushes ==
  /\ flush \in [Flushers -> [target : Nat, st : {"idle", "parked", "flushed", "refused", "gave_up"}]]
  /\ \A f \in Flushers :
       /\ flush[f].st = "flushed" => flush[f].target <= drained
       /\ flush[f].st = "parked" => flush[f].target <= enqueued

-----------------------------------------------------------------------------
(* The boundary, action by action *)

LEMMA BoundaryKept ==
  ASSUME Boundary, Next, outbox \in Seq(Nat), sizes \in Seq(Nat \ {0}),
         drainer = [at |-> drainer.at, batch |-> drainer.batch, left |-> drainer.left,
                    first |-> drainer.first]
  PROVE  Boundary'
  <1>1. /\ drainer.at \in {"none", "ready", "parked", "waiting", "inside", "accounting", "exited"}
        /\ pc \in [Publishers -> {"out", "waiting", "inside"}]
        /\ drainer.at = "inside" <=> sem = "drainer"
        /\ \A p \in Publishers : pc[p] = "inside" <=> sem = p
        /\ drainer.at = "none" => sizes = <<>>
        /\ drainer.at = "exited" => Cut /\ outbox = <<>>
        /\ Closing => drainer.at \in {"none", "exited"}
    BY DEF Boundary
  <1>2. "free" \notin Publishers /\ "drainer" \notin Publishers
    BY EventLogAssumption
  <1> USE DEF Boundary, Closing, Cut, publishVars, outboxVars, drainVars, closeVars
  <1>3. ASSUME UNCHANGED <<drainer, sem, pc, sizes, outbox, phase>>
        PROVE  Boundary'
    BY <1>1, <1>3
  <1>4. CASE ReadPrimary \/ TryPublish \/ CloseDone \/ WriteFile
    BY <1>3, <1>4 DEF ReadPrimary, TryPublish, CloseDone, WriteFile
  <1>5. ASSUME NEW p \in Publishers, Publish(p)
        PROVE  Boundary'
    BY <1>1, <1>2, <1>5 DEF Publish
  <1>6. ASSUME NEW p \in Publishers, Enter(p)
        PROVE  Boundary'
    <2>1. /\ UNCHANGED <<drainer, sizes, outbox, phase>> /\ sem = "free" /\ pc[p] = "waiting"
          /\ \/ pc' = [pc EXCEPT ![p] = "out"] /\ sem' = sem
             \/ pc' = [pc EXCEPT ![p] = "inside"] /\ sem' = p
      BY <1>6 DEF Enter
    <2>2. p # "drainer" /\ p # "free" /\ drainer.at # "inside"
          /\ \A q \in Publishers : pc[q] # "inside" /\ q # "free"
      BY <1>1, <1>2, <2>1
    <2>3. CASE pc' = [pc EXCEPT ![p] = "out"] /\ sem' = sem
      BY <1>1, <2>1, <2>2, <2>3
    <2>4. CASE pc' = [pc EXCEPT ![p] = "inside"] /\ sem' = p
      BY <1>1, <2>1, <2>2, <2>4
    <2>5. QED
      BY <2>1, <2>3, <2>4
  <1>7. ASSUME NEW p \in Publishers, SendAndCommit(p)
        PROVE  Boundary'
    BY <1>1, <1>2, <1>7 DEF SendAndCommit
  <1>8. ASSUME NEW p \in Publishers, Abandon(p)
        PROVE  Boundary'
    BY <1>1, <1>2, <1>8 DEF Abandon, GivesUp
  <1>9. ASSUME NEW n \in BatchSizes, Enqueue(n)
        PROVE  Boundary'
    <2>1. /\ UNCHANGED <<sem, pc, phase>> /\ ~Cut
          /\ drainer' = IF drainer.at = "none" THEN [drainer EXCEPT !.at = "ready"] ELSE drainer
      BY <1>9 DEF Enqueue
    <2>2. drainer.at # "exited" /\ drainer'.at # "none" /\ drainer'.at # "exited"
      BY <1>1, <2>1
    <2>3. QED
      BY <1>1, <2>1, <2>2
  <1>10. CASE TakeBatch
    BY <1>1, <1>10 DEF TakeBatch
  <1>11. CASE Park
    BY <1>1, <1>11 DEF Park
  <1>12. CASE Unpark
    BY <1>1, <1>12 DEF Unpark
  <1>13. CASE EnterBatch
    BY <1>1, <1>2, <1>13 DEF EnterBatch
  <1>14. CASE CommitNext
    <2>1. /\ drainer.at = "inside" /\ UNCHANGED <<pc, sizes, outbox, phase>>
          /\ \/ drainer' = [drainer EXCEPT !.at = "accounting", !.left = 0] /\ sem' = "free"
             \/ drainer' = [drainer EXCEPT !.left = @ - 1] /\ sem' = sem
      BY <1>14 DEF CommitNext
    <2>2. sem = "drainer" /\ \A p \in Publishers : pc[p] # "inside"
      BY <1>1, <1>2, <2>1
    <2>3. CASE drainer' = [drainer EXCEPT !.at = "accounting", !.left = 0] /\ sem' = "free"
      <3>1. drainer'.at = "accounting"
        BY <1>1, <2>3
      <3>2. QED
        BY <1>1, <1>2, <2>1, <2>2, <2>3, <3>1
    <2>4. CASE drainer' = [drainer EXCEPT !.left = @ - 1] /\ sem' = sem
      <3>1. drainer'.at = "inside"
        BY <1>1, <2>1, <2>4
      <3>2. QED
        BY <1>1, <1>2, <2>1, <2>2, <2>4, <3>1
    <2>5. QED
      BY <2>1, <2>3, <2>4
  <1>15. CASE CommitBatch
    BY <1>1, <1>15 DEF CommitBatch
  <1>16. CASE Exit
    BY <1>1, <1>16 DEF Exit
  <1>17. ASSUME NEW f \in Flushers, Flush(f) \/ GiveUpFlush(f)
         PROVE  Boundary'
    BY <1>3, <1>17 DEF Flush, GiveUpFlush
  <1>18. ASSUME NEW s \in Subs, SubStep(s)
         PROVE  Boundary'
    BY <1>3, <1>18 DEF SubStep, SubscribeLive, Resume, Register, OwnerStep, SendHead, FailHead,
       Send, Deliver, TakeLive, Notified, Stop, Detach, Step
  <1>19. CASE CutOutbox
    BY <1>1, <1>19 DEF CutOutbox, CloseStep
  <1>20. CASE CutAdmission
    BY <1>1, <1>20 DEF CutAdmission, CloseStep
  <1>21. CASE JoinDrainer
    BY <1>1, <1>21 DEF JoinDrainer, CloseStep
  <1>22. CASE Unregister
    BY <1>1, <1>22 DEF Unregister, CloseStep
  <1>23. CASE JoinOwners
    BY <1>1, <1>23 DEF JoinOwners, CloseStep
  <1>24. ASSUME NEW s \in Subs, EndSubscription(s)
         PROVE  Boundary'
    BY <1>1, <1>24 DEF EndSubscription, CloseStep
  <1>25. QED
    BY <1>4, <1>5, <1>6, <1>7, <1>8, <1>9, <1>10, <1>11, <1>12, <1>13, <1>14, <1>15, <1>16, <1>17,
       <1>18, <1>19, <1>20, <1>21, <1>22, <1>23, <1>24
       DEF Next, PublisherStep, DrainerStep, Close

-----------------------------------------------------------------------------
(* What a record more does to the log *)

LEMMA OneMore ==
  ASSUME log \in Seq(Nat), NEW b \in Nat, log' = Append(log, b)
  PROVE  /\ Last \in Nat /\ log' \in Seq(Nat) /\ Last' = Last + 1
         /\ \A i \in 1..Last : log'[i] = log[i]
         /\ log'[Last + 1] = b
         /\ \A c \in Nat : Places(c)' = IF c = b THEN Places(c) \cup {Last + 1} ELSE Places(c)
  <1>1. /\ Last \in Nat /\ log' \in Seq(Nat) /\ Last' = Last + 1
        /\ \A i \in 1..Last : log'[i] = log[i]
        /\ log'[Last + 1] = b
    BY AppendProperties DEF Last
  <1>2. ASSUME NEW c \in Nat
        PROVE  Places(c)' = IF c = b THEN Places(c) \cup {Last + 1} ELSE Places(c)
    <2>1. Places(c)' = {i \in 1..(Last + 1) : log'[i] = c}
      BY <1>1 DEF Places
    <2>2. Places(c) = {i \in 1..Last : log[i] = c}
      BY DEF Places
    <2>3. 1..(Last + 1) = (1..Last) \cup {Last + 1}
      BY <1>1
    <2>4. \A i : i \in Places(c)' <=> (i \in 1..Last /\ log[i] = c) \/ (i = Last + 1 /\ b = c)
      BY <1>1, <2>1, <2>3
    <2>5. QED
      BY <2>2, <2>4
  <1>3. QED
    BY <1>1, <1>2

LEMMA OneMoreOrdered ==
  ASSUME log \in Seq(Nat), NEW b \in Nat, log' = Append(log, b), Ordered,
         b = Direct \/ \A i \in 1..Last : log[i] <= b
  PROVE  Ordered'
  <1>1. /\ Last \in Nat /\ log' \in Seq(Nat) /\ Last' = Last + 1
        /\ \A i \in 1..Last : log'[i] = log[i]
        /\ log'[Last + 1] = b
    BY OneMore
  <1>2. SUFFICES ASSUME NEW i \in 1..Last', NEW j \in 1..Last', i < j, log'[i] # Direct, log'[j] # Direct
                 PROVE  log'[i] <= log'[j]
    BY DEF Ordered, Direct
  <1>3. i \in 1..Last /\ (j \in 1..Last \/ j = Last + 1)
    BY <1>1, <1>2
  <1>4. CASE j \in 1..Last
    BY <1>1, <1>2, <1>3, <1>4 DEF Ordered
  <1>5. CASE j = Last + 1
    BY <1>1, <1>2, <1>3, <1>5
  <1>6. QED
    BY <1>3, <1>4, <1>5

HeldByBatches == {i \in 1..Last : log[i] # Direct}

LEMMA OneMoreCounted ==
  ASSUME log \in Seq(Nat), NEW b \in Nat, log' = Append(log, b)
  PROVE  /\ IsFiniteSet(HeldByBatches)
         /\ Cardinality(HeldByBatches)' =
              Cardinality(HeldByBatches) + IF b = Direct THEN 0 ELSE 1
  <1>1. /\ Last \in Nat /\ log' \in Seq(Nat) /\ Last' = Last + 1
        /\ \A i \in 1..Last : log'[i] = log[i]
        /\ log'[Last + 1] = b
    BY OneMore
  <1>2. IsFiniteSet(1..Last) /\ HeldByBatches \subseteq 1..Last
    <2>1. 1 \in Int /\ Last \in Int
      BY <1>1
    <2>2. IsFiniteSet(1..Last)
      BY <2>1, FS_Interval
    <2>3. QED
      BY <2>2 DEF HeldByBatches
  <1>3. IsFiniteSet(HeldByBatches)
    BY <1>2, FS_Subset
  <1>6. 1..(Last + 1) = (1..Last) \cup {Last + 1}
    BY <1>1
  <1>7. HeldByBatches' = {i \in 1..(Last + 1) : log'[i] # Direct}
    BY <1>1 DEF HeldByBatches, Direct
  <1>8. \A i : i \in HeldByBatches' <=> i \in HeldByBatches \/ (i = Last + 1 /\ b # Direct)
    BY <1>1, <1>6, <1>7 DEF HeldByBatches
  <1>4. CASE b = Direct
    <2>1. HeldByBatches' = HeldByBatches
      BY <1>4, <1>8
    <2>2. Cardinality(HeldByBatches) \in Nat
      BY <1>3, FS_CardinalityType
    <2>3. QED
      BY <1>3, <1>4, <2>1, <2>2
  <1>5. CASE b # Direct
    <2>1. HeldByBatches' = HeldByBatches \cup {Last + 1}
      BY <1>5, <1>8
    <2>2. Last + 1 \notin HeldByBatches
      BY <1>1 DEF HeldByBatches
    <2>3. Cardinality(HeldByBatches \cup {Last + 1}) = Cardinality(HeldByBatches) + 1
      BY <1>3, <2>2, FS_AddElement
    <2>4. QED
      BY <1>3, <1>5, <2>1, <2>3
  <1>9. QED
    BY <1>4, <1>5

-----------------------------------------------------------------------------
(* The batches, action by action *)

Core == Numbered /\ Recorded /\ Ordered /\ Totals /\ Counted

LEMMA Counts ==
  ASSUME Numbered
  PROVE  /\ Len(sizes) \in Nat /\ Len(outbox) \in Nat /\ Taken \in 0..Len(sizes)
         /\ Whole \in 0..Len(sizes) /\ Settled \in 0..Len(sizes) /\ Whole <= Taken
         /\ Reached \in 0..Len(sizes) /\ Whole <= Reached /\ Reached <= Taken
  <1>1. /\ Len(sizes) \in Nat /\ Len(outbox) \in Nat /\ Len(outbox) <= Len(sizes)
        /\ Taken = Len(sizes) - Len(outbox)
        /\ Busy => Taken >= 1
    BY DEF Numbered, Taken
  <1> HIDE DEF Taken
  <1>2. QED
    BY <1>1 DEF Whole, Settled, Reached, Busy

LEMMA SameCore ==
  ASSUME Core, UNCHANGED <<log, drainer, outbox, sizes, ticket, enqueued, drained>>
  PROVE  Core'
  <1>1. Taken' = Taken /\ Last' = Last
    BY DEF Taken, Last
  <1>2. Whole' = Whole /\ Busy' = Busy /\ Reached' = Reached /\ Settled' = Settled /\ Unsettled' = Unsettled
    BY <1>1 DEF Whole, Busy, Reached, Settled, Unsettled
  <1>3. Numbered'
    BY <1>1, <1>2 DEF Core, Numbered
  <1>4. \A b \in Nat : Places(b)' = Places(b)
    BY <1>1 DEF Places
  <1>5. Recorded'
    <2>1. Numbered /\ Recorded
      BY DEF Core
    <2>2. Taken \in Nat /\ \A b \in 1..Whole : b \in Nat
      BY <2>1, Counts
    <2>3. Places(Taken)' = Places(Taken) /\ \A b \in 1..Whole : Places(b)' = Places(b)
      BY <1>1, <1>4, <2>2 DEF Places
    <2>4. QED
      BY <1>1, <1>2, <2>1, <2>3 DEF Recorded
  <1>6. Ordered' /\ Totals' /\ Counted'
    BY <1>1, <1>2 DEF Core, Ordered, Totals, Counted
  <1>7. QED
    BY <1>3, <1>5, <1>6 DEF Core

\* A step of the drainer that has nothing in hand, before and after.
LEMMA IdleCore ==
  ASSUME Core, UNCHANGED <<log, outbox, sizes, ticket, enqueued, drained>>,
         drainer.at \in {"none", "ready", "parked"},
         NEW a \in {"ready", "parked", "exited"}, drainer' = [drainer EXCEPT !.at = a]
  PROVE  Core'
  <1>1. Taken' = Taken /\ Last' = Last
    BY DEF Taken, Last
  <1>2. drainer'.at = a /\ drainer' = [at |-> drainer'.at, batch |-> drainer'.batch,
                                       left |-> drainer'.left, first |-> drainer'.first]
    BY DEF Core, Numbered
  <1>3. Whole' = Whole /\ Reached' = Reached /\ Settled' = Settled /\ Unsettled' = Unsettled
        /\ ~Busy'
    BY <1>1, <1>2 DEF Whole, Busy, Reached, Settled, Unsettled
  <1>4. Numbered'
    BY <1>1, <1>2, <1>3 DEF Core, Numbered
  <1>5. Recorded'
    <2>1. Numbered /\ Recorded /\ drainer'.at # "inside"
      BY <1>2 DEF Core
    <2>2. \A b \in 1..Whole : Places(b)' = Places(b)
      BY <1>1 DEF Places
    <2>3. QED
      BY <1>1, <1>3, <2>1, <2>2 DEF Recorded
  <1>6. Ordered' /\ Totals' /\ Counted'
    BY <1>1, <1>3 DEF Core, Ordered, Totals, Counted
  <1>7. QED
    BY <1>4, <1>5, <1>6 DEF Core

\* A direct record, which no batch in hand is committed around.
LEMMA DirectCore ==
  ASSUME Core, drainer.at # "inside", log' = Append(log, Direct),
         UNCHANGED <<drainer, outbox, sizes, ticket, enqueued, drained>>
  PROVE  Core'
  <1>1. Numbered /\ Recorded /\ Ordered /\ Totals /\ Counted /\ log \in Seq(Nat) /\ Direct \in Nat
    BY DEF Core, Recorded, Direct
  <1>2. /\ Last \in Nat /\ log' \in Seq(Nat) /\ Last' = Last + 1
        /\ \A i \in 1..Last : log'[i] = log[i]
        /\ log'[Last + 1] = 0
        /\ \A c \in Nat : c # 0 => Places(c)' = Places(c)
    BY <1>1, OneMore DEF Direct
  <1>3. Taken' = Taken /\ Whole' = Whole /\ Busy' = Busy /\ Reached' = Reached
        /\ Settled' = Settled /\ Unsettled' = Unsettled /\ drainer' = drainer
    BY DEF Taken, Whole, Busy, Reached, Settled, Unsettled
  <1>4. Numbered'
    BY <1>1, <1>3 DEF Numbered
  <1>5. Recorded'
    <2>1. Reached \in Nat /\ Whole \in Nat /\ drainer'.at # "inside"
      BY <1>1, <1>3, Counts
    <2>2. \A i \in 1..Last' : log'[i] <= Reached
      <3>1. SUFFICES ASSUME NEW i \in 1..Last' PROVE log'[i] <= Reached
        OBVIOUS
      <3>2. i \in 1..Last \/ i = Last + 1
        BY <1>2
      <3>3. QED
        <4>1. \A j \in 1..Last : log[j] <= Reached
          BY <1>1 DEF Recorded
        <4>2. /\ \A j \in 1..Last : log'[j] = log[j]
              /\ log'[Last + 1] = 0
          BY <1>2
        <4>3. CASE i \in 1..Last
          BY <4>1, <4>2, <4>3
        <4>4. CASE i = Last + 1
          <5>1. log'[i] = 0
            BY <4>2, <4>4, Zenon
          <5>2. Reached \in Nat
            BY <2>1
          <5>3. QED
            BY <5>1, <5>2
        <4>5. QED
          BY <3>2, <4>3, <4>4
    <2>3. \A b \in 1..Whole : Places(b)' = Places(b)
      BY <1>2, <2>1
    <2>4. QED
      BY <1>1, <1>2, <1>3, <2>1, <2>2, <2>3 DEF Recorded
  <1>6. Ordered'
    BY <1>1, OneMoreOrdered
  <1>7. Totals'
    BY <1>1, <1>3 DEF Totals
  <1>8. Counted'
    <2>1. Cardinality(HeldByBatches)' = Cardinality(HeldByBatches)
      <3>1. IsFiniteSet(HeldByBatches)
            /\ Cardinality(HeldByBatches)' = Cardinality(HeldByBatches) + 0
        BY <1>1, OneMoreCounted
      <3>2. Cardinality(HeldByBatches) \in Nat
        BY <3>1, FS_CardinalityType
      <3>3. QED
        BY <3>1, <3>2
    <2>2. Cardinality(HeldByBatches) = drained + Unsettled
      BY <1>1 DEF Counted, HeldByBatches
    <2>3. Cardinality(HeldByBatches)' = drained' + Unsettled'
      BY <1>3, <2>1, <2>2
    <2>4. QED
      BY <2>3 DEF Counted, HeldByBatches
  <1>9. QED
    BY <1>4, <1>5, <1>6, <1>7, <1>8 DEF Core

LEMMA EnqueueCore ==
  ASSUME Core, Boundary, NEW n \in BatchSizes, Enqueue(n)
  PROVE  Core'
  <1> DEFINE N == Len(sizes)
             M == Len(outbox)
  <1>1. Numbered /\ Recorded /\ Ordered /\ Totals /\ Counted
    BY DEF Core
  <1>2. /\ sizes' = Append(sizes, n) /\ ticket' = Append(ticket, 0)
        /\ outbox' = Append(outbox, N + 1) /\ enqueued' = enqueued + n
        /\ log' = log /\ drained' = drained /\ n \in Nat \ {0} /\ ~Cut
        /\ drainer' = IF drainer.at = "none" THEN [drainer EXCEPT !.at = "ready"] ELSE drainer
    BY EventLogAssumption DEF Enqueue, recordVars
  <1>3. /\ N \in Nat /\ M \in Nat /\ M <= N /\ Taken \in 0..N /\ Whole \in 0..N /\ Settled \in 0..N
        /\ Whole <= Taken
    BY <1>1, Counts DEF Numbered
  <1>4. /\ sizes' \in Seq(Nat \ {0}) /\ Len(sizes') = N + 1
        /\ \A b \in 1..N : sizes'[b] = sizes[b]
        /\ sizes'[N + 1] = n
    BY <1>1, <1>2, AppendProperties DEF Numbered
  <1>5. /\ ticket' \in Seq(Nat) /\ Len(ticket') = N + 1
        /\ \A b \in 1..N : ticket'[b] = ticket[b]
        /\ ticket'[N + 1] = 0
    BY <1>1, <1>2, AppendProperties DEF Numbered
  <1>6. /\ outbox' \in Seq(Nat) /\ Len(outbox') = M + 1
        /\ \A i \in 1..M : outbox'[i] = outbox[i]
        /\ outbox'[M + 1] = N + 1
    BY <1>1, <1>2, <1>3, AppendProperties DEF Numbered
  <1>7. Taken' = Taken /\ Last' = Last /\ Taken = N - M
    BY <1>2, <1>3, <1>4, <1>6 DEF Taken, Last
  <1>8. /\ drainer'.at = IF drainer.at = "none" THEN "ready" ELSE drainer.at
        /\ drainer'.batch = drainer.batch /\ drainer'.left = drainer.left
        /\ drainer'.first = drainer.first
        /\ drainer' = [at |-> drainer'.at, batch |-> drainer'.batch, left |-> drainer'.left,
                       first |-> drainer'.first]
    BY <1>1, <1>2 DEF Numbered
  <1>9. Whole' = Whole /\ Reached' = Reached /\ Settled' = Settled /\ Busy' = Busy
    BY <1>7, <1>8 DEF Whole, Reached, Settled, Busy
  <1>10. Busy => Taken \in 1..N /\ drainer.batch = Taken
    BY <1>1, <1>3 DEF Numbered
  <1>11. Unsettled' = Unsettled
    BY <1>4, <1>7, <1>8, <1>10 DEF Unsettled, Busy
  <1>12. \A b \in Nat : Places(b)' = Places(b)
    BY <1>2, <1>7 DEF Places
  <1> HIDE DEF N, M
  <1>13. Numbered'
    <2>1. \A i \in 1..(M + 1) : outbox'[i] = Taken + i
      <3>1. SUFFICES ASSUME NEW i \in 1..(M + 1) PROVE outbox'[i] = Taken + i
        OBVIOUS
      <3>2. i \in 1..M \/ i = M + 1
        BY <1>3
      <3>3. \A j \in 1..M : outbox[j] = Taken + j
        BY <1>1 DEF Numbered, M
      <3>4. QED
        BY <1>3, <1>6, <1>7, <3>2, <3>3
    <2>2. M + 1 <= N + 1
      BY <1>3
    <2>3. drainer'.at = "waiting" => drainer'.left = sizes'[Taken']
      <3>1. SUFFICES ASSUME drainer'.at = "waiting" PROVE drainer'.left = sizes'[Taken']
        OBVIOUS
      <3>2. drainer.at = "waiting" /\ Taken \in 1..N
        BY <1>8, <1>10, <3>1 DEF Busy
      <3>3. drainer.left = sizes[Taken]
        BY <1>1, <3>2 DEF Numbered
      <3>4. QED
        BY <1>4, <1>7, <1>8, <3>2, <3>3
    <2>4. QED
      BY <1>4, <1>5, <1>6, <1>7, <1>8, <1>9, <1>10, <2>1, <2>2, <2>3 DEF Numbered
  <1>14. Recorded'
    <2>1. \A b \in 1..Whole : b \in 1..N /\ b \in Nat
      BY <1>3
    <2>2. \A b \in 1..Whole :
            ticket'[b] # 0 /\ Places(b)' = ticket'[b]..(ticket'[b] + sizes'[b] - 1)
      BY <1>1, <1>4, <1>5, <1>12, <2>1 DEF Recorded
    <2>3. \A b \in (Whole + 1)..(N + 1) : ticket'[b] = 0
      <3>1. \A b \in (Whole + 1)..N : ticket[b] = 0
        BY <1>1 DEF Recorded, N
      <3>2. \A b \in (Whole + 1)..(N + 1) : b = N + 1 \/ (b \in (Whole + 1)..N /\ b \in 1..N)
        BY <1>3
      <3>3. QED
        BY <1>5, <3>1, <3>2
    <2>4. drainer'.at = "inside" =>
            /\ drainer'.left \in 1..sizes'[Taken] /\ drainer'.first \in Nat \ {0}
            /\ drainer'.first + sizes'[Taken] = Last + 1 + drainer'.left
            /\ Places(Taken)' = drainer'.first..Last
      <3>1. SUFFICES ASSUME drainer'.at = "inside"
                     PROVE  /\ drainer'.left \in 1..sizes'[Taken] /\ drainer'.first \in Nat \ {0}
                            /\ drainer'.first + sizes'[Taken] = Last + 1 + drainer'.left
                            /\ Places(Taken)' = drainer'.first..Last
        OBVIOUS
      <3>2. drainer.at = "inside" /\ Taken \in 1..N /\ Taken \in Nat
        BY <1>3, <1>8, <1>10, <3>1 DEF Busy
      <3>3. sizes'[Taken] = sizes[Taken] /\ Places(Taken)' = Places(Taken)
        BY <1>2, <1>4, <1>7, <3>2 DEF Places
      <3>4. QED
        BY <1>1, <1>8, <3>2, <3>3 DEF Recorded
    <2>5. Places(Taken)' = {i \in 1..Last' : log'[i] = Taken'}
      BY <1>7 DEF Places
    <2>6. QED
      BY <1>1, <1>2, <1>4, <1>7, <1>9, <2>2, <2>3, <2>4, <2>5 DEF Recorded, Places
  <1>15. Totals'
    <2>1. PICK t \in [0..N -> Nat] :
            /\ t[0] = 0 /\ \A b \in 1..N : t[b] = t[b - 1] + sizes[b]
            /\ enqueued = t[N] /\ drained = t[Settled]
      BY <1>1 DEF Totals, N
    <2> DEFINE u == [b \in 0..(N + 1) |-> IF b \in 0..N THEN t[b] ELSE t[N] + n]
    <2>2. N \in 0..N /\ N + 1 \notin 0..N /\ t[N] \in Nat
      BY <1>3
    <2>3. u \in [0..(N + 1) -> Nat]
      BY <1>2, <1>3, <2>2
    <2>4. \A b \in 0..N : u[b] = t[b]
      BY <1>3
    <2>5. u[N + 1] = t[N] + n
      BY <1>3, <2>2
    <2> HIDE DEF u
    <2>6. \A b \in 1..(N + 1) : u[b] = u[b - 1] + sizes'[b]
      <3>1. SUFFICES ASSUME NEW b \in 1..(N + 1) PROVE u[b] = u[b - 1] + sizes'[b]
        OBVIOUS
      <3>2. CASE b \in 1..N
        <4>1. b \in 0..N /\ b - 1 \in 0..N
          BY <1>3, <3>2
        <4>2. QED
          BY <1>4, <2>1, <2>4, <3>2, <4>1
      <3>3. CASE b = N + 1
        <4>1. b - 1 = N
          BY <1>3, <3>3
        <4>2. QED
          BY <1>4, <2>2, <2>4, <2>5, <3>3, <4>1
      <3>4. QED
        BY <1>3, <3>2, <3>3
    <2>7. u[0] = 0 /\ u[Settled] = drained /\ u[N + 1] = enqueued + n
      BY <1>3, <2>1, <2>4, <2>5
    <2>8. QED
      BY <1>2, <1>4, <1>9, <2>3, <2>6, <2>7 DEF Totals
  <1>16. Ordered' /\ Counted'
    BY <1>1, <1>2, <1>7, <1>11 DEF Ordered, Counted
  <1>17. QED
    BY <1>13, <1>14, <1>15, <1>16 DEF Core

LEMMA TakeBatchCore ==
  ASSUME Core, TakeBatch
  PROVE  Core'
  <1> DEFINE N == Len(sizes)
             M == Len(outbox)
  <1>1. Numbered /\ Recorded /\ Ordered /\ Totals /\ Counted
    BY DEF Core
  <1>2. /\ drainer.at = "ready" /\ outbox # <<>> /\ outbox' = Tail(outbox)
        /\ drainer' = [at |-> "waiting", batch |-> Head(outbox), left |-> sizes[Head(outbox)],
                       first |-> 0]
        /\ UNCHANGED <<log, sizes, ticket, enqueued, drained>>
    BY DEF TakeBatch, recordVars
  <1>3. /\ N \in Nat /\ M \in Nat /\ M <= N /\ outbox \in Seq(Nat) /\ Taken = N - M
        /\ \A i \in 1..M : outbox[i] = Taken + i
    BY <1>1 DEF Numbered, Taken
  <1>4. /\ M >= 1 /\ Head(outbox) = Taken + 1
        /\ outbox' \in Seq(Nat) /\ Len(outbox') = M - 1
        /\ \A i \in 1..(M - 1) : outbox'[i] = outbox[i + 1]
    <2>1. M >= 1
      BY <1>2, <1>3, EmptySeq
    <2>2. Head(outbox) = outbox[1] /\ 1 \in 1..M
      BY <1>3, <2>1
    <2>3. /\ Tail(outbox) \in Seq(Nat) /\ Len(Tail(outbox)) = M - 1
          /\ \A i \in 1..(M - 1) : Tail(outbox)[i] = outbox[i + 1]
      BY <1>2, <1>3, HeadTailProperties
    <2>4. QED
      BY <1>2, <1>3, <2>1, <2>2, <2>3
  <1>5. Taken' = Taken + 1 /\ Last' = Last /\ Taken \in Nat
    BY <1>2, <1>3, <1>4 DEF Taken, Last
  <1> HIDE DEF N, M
  <1>6. /\ drainer'.at = "waiting" /\ drainer'.batch = Taken + 1
        /\ drainer' = [at |-> drainer'.at, batch |-> drainer'.batch, left |-> drainer'.left,
                       first |-> drainer'.first]
    BY <1>2, <1>4
  <1>7. /\ Whole = Taken /\ Whole' = Whole /\ Reached' = Reached /\ Settled' = Settled
        /\ Unsettled' = Unsettled /\ Busy'
    BY <1>2, <1>5, <1>6 DEF Whole, Reached, Settled, Unsettled, Busy
  <1>8. Numbered'
    <2>1. \A i \in 1..(M - 1) : outbox'[i] = (Taken + 1) + i
      <3>1. SUFFICES ASSUME NEW i \in 1..(M - 1) PROVE outbox'[i] = (Taken + 1) + i
        OBVIOUS
      <3>2. i + 1 \in 1..M
        BY <1>3
      <3>3. QED
        BY <1>3, <1>4, <1>5, <3>2
    <2>2. M - 1 <= N /\ Taken + 1 >= 1
      BY <1>3, <1>5
    <2>3. QED
      BY <1>1, <1>2, <1>4, <1>5, <1>6, <2>1, <2>2 DEF Numbered, N
  <1>9. Recorded'
    <2>1. \A b \in 1..Whole : Places(b)' = Places(b)
      BY <1>2, <1>5 DEF Places
    <2>2. QED
      BY <1>1, <1>2, <1>5, <1>6, <1>7, <2>1 DEF Recorded
  <1>10. Ordered' /\ Totals' /\ Counted'
    BY <1>1, <1>2, <1>5, <1>7 DEF Ordered, Totals, Counted
  <1>11. QED
    BY <1>8, <1>9, <1>10 DEF Core

LEMMA EnterBatchCore ==
  ASSUME Core, EnterBatch
  PROVE  Core'
  <1>1. Numbered /\ Recorded /\ Ordered /\ Totals /\ Counted
    BY DEF Core
  <1>2. /\ drainer.at = "waiting" /\ drainer' = [drainer EXCEPT !.at = "inside", !.first = Last + 1]
        /\ UNCHANGED <<log, outbox, sizes, ticket, enqueued, drained>>
    BY DEF EnterBatch, recordVars, outboxVars
  <1>3. /\ drainer'.at = "inside" /\ drainer'.first = Last + 1 /\ drainer'.left = drainer.left
        /\ drainer'.batch = drainer.batch
        /\ drainer' = [at |-> drainer'.at, batch |-> drainer'.batch, left |-> drainer'.left,
                       first |-> drainer'.first]
    BY <1>1, <1>2 DEF Numbered
  <1>4. Taken' = Taken /\ Last' = Last
    BY <1>2 DEF Taken, Last
  <1>5. Len(sizes) \in Nat /\ Taken \in 1..Len(sizes) /\ Taken <= Len(sizes) /\ Last \in Nat
    <2>1. Busy
      BY <1>2 DEF Busy
    <2>2. Last \in Nat
      BY <1>1 DEF Recorded, Last
    <2>3. QED
      BY <1>1, <2>1, <2>2, Counts DEF Numbered
  <1>6. Whole = Taken - 1 /\ Whole' = Whole /\ Reached = Whole /\ Reached' = Taken
        /\ Settled' = Settled /\ Busy' = Busy
    BY <1>2, <1>3, <1>4 DEF Whole, Reached, Settled, Busy
  <1>7. Unsettled' = Unsettled
    <2>1. sizes[Taken] \in Nat
      BY <1>1, <1>5 DEF Numbered
    <2>2. Unsettled = 0
      BY <1>2 DEF Unsettled
    <2>3. Unsettled' = sizes[Taken] - drainer.left
      BY <1>2, <1>3, <1>4 DEF Unsettled
    <2>4. drainer.left = sizes[Taken]
      BY <1>1, <1>2 DEF Numbered
    <2>5. QED
      BY <2>1, <2>2, <2>3, <2>4
  <1>8. Numbered'
    BY <1>1, <1>2, <1>3, <1>4, <1>6 DEF Numbered
  <1>9. Recorded'
    <2>1. \A b \in 1..Whole : Places(b)' = Places(b)
      BY <1>2, <1>4 DEF Places
    <2>2. \A i \in 1..Last : log[i] <= Taken - 1 /\ log[i] \in Nat
      BY <1>1, <1>6 DEF Recorded, Last
    <2>3. \A i \in 1..Last : log[i] <= Taken /\ log[i] # Taken
      BY <1>5, <2>2
    <2>4. Places(Taken)' = {}
      BY <1>2, <1>4, <2>3 DEF Places
    <2>5. (Last + 1)..Last = {}
      BY <1>5
    <2>6. sizes[Taken] \in Nat \ {0}
      BY <1>1, <1>5 DEF Numbered
    <2>7. /\ drainer'.left \in 1..sizes[Taken] /\ drainer'.first \in Nat \ {0}
          /\ drainer'.first + sizes[Taken] = Last + 1 + drainer'.left
      BY <1>1, <1>2, <1>3, <1>5, <2>6 DEF Numbered
    <2>8. Places(Taken)' = drainer'.first..Last
      BY <1>3, <2>4, <2>5
    <2>9. QED
      BY <1>1, <1>2, <1>4, <1>6, <2>1, <2>3, <2>7, <2>8 DEF Recorded
  <1>10. Ordered' /\ Totals' /\ Counted'
    BY <1>1, <1>2, <1>4, <1>6, <1>7 DEF Ordered, Totals, Counted
  <1>11. QED
    BY <1>8, <1>9, <1>10 DEF Core

LEMMA CommitBatchCore ==
  ASSUME Core, CommitBatch
  PROVE  Core' /\ drained' >= drained
  <1>1. Numbered /\ Recorded /\ Ordered /\ Totals /\ Counted
    BY DEF Core
  <1>2. /\ drainer.at = "accounting" /\ drainer' = [drainer EXCEPT !.at = "ready"]
        /\ drained' = drained + sizes[drainer.batch]
        /\ UNCHANGED <<log, outbox, sizes, ticket, enqueued>>
    BY DEF CommitBatch, recordVars
  <1>3. /\ drainer'.at = "ready"
        /\ drainer' = [at |-> drainer'.at, batch |-> drainer'.batch, left |-> drainer'.left,
                       first |-> drainer'.first]
    BY <1>1, <1>2 DEF Numbered
  <1>4. Taken' = Taken /\ Last' = Last
    BY <1>2 DEF Taken, Last
  <1>5. Taken \in 1..Len(sizes) /\ drainer.batch = Taken
    <2>1. Busy
      BY <1>2 DEF Busy
    <2>2. QED
      BY <1>1, <2>1, Counts DEF Numbered
  <1>6. Whole = Taken /\ Whole' = Whole /\ Reached' = Reached /\ ~Busy'
        /\ Settled = Taken - 1 /\ Settled' = Taken
    BY <1>2, <1>3, <1>4 DEF Whole, Reached, Settled, Busy
  <1>7. Unsettled = sizes[Taken] /\ Unsettled' = 0
    BY <1>2, <1>3 DEF Unsettled
  <1>8. Numbered'
    BY <1>1, <1>2, <1>3, <1>4, <1>6 DEF Numbered
  <1>9. Recorded'
    <2>1. \A b \in 1..Whole : Places(b)' = Places(b)
      BY <1>2, <1>4 DEF Places
    <2>2. drainer'.at # "inside"
      BY <1>3
    <2>3. QED
      BY <1>1, <1>2, <1>4, <1>6, <2>1, <2>2 DEF Recorded
  <1>10. PICK t \in [0..Len(sizes) -> Nat] :
           /\ t[0] = 0 /\ \A b \in 1..Len(sizes) : t[b] = t[b - 1] + sizes[b]
           /\ enqueued = t[Len(sizes)] /\ drained = t[Settled]
    BY <1>1 DEF Totals
  <1>11. drained' = t[Taken] /\ drained \in Nat /\ sizes[Taken] \in Nat
    <2>1. Taken - 1 \in 0..Len(sizes)
      BY <1>5
    <2>2. t[Taken] = t[Taken - 1] + sizes[Taken] /\ t[Taken - 1] \in Nat
      BY <1>5, <1>10, <2>1
    <2>3. sizes[Taken] \in Nat
      BY <1>1, <1>5 DEF Numbered
    <2>4. QED
      BY <1>2, <1>5, <1>6, <1>10, <2>2, <2>3
  <1>12. Totals'
    BY <1>2, <1>6, <1>10, <1>11 DEF Totals
  <1>13. Counted'
    <2>1. Cardinality({i \in 1..Last : log[i] # Direct}) = drained + sizes[Taken]
      BY <1>1, <1>7 DEF Counted
    <2>2. Cardinality({i \in 1..Last : log[i] # Direct}) = drained' + 0
      BY <1>2, <1>5, <1>11, <2>1
    <2>3. QED
      BY <1>2, <1>4, <1>7, <2>2 DEF Counted
  <1>14. Ordered' /\ drained' >= drained
    BY <1>1, <1>2, <1>4, <1>5, <1>11 DEF Ordered
  <1>15. QED
    BY <1>8, <1>9, <1>12, <1>13, <1>14 DEF Core

LEMMA CommitNextCore ==
  ASSUME Core, CommitNext
  PROVE  Core'
  <1> DEFINE T == Taken
             k == sizes[T]
             f == drainer.first
             l == drainer.left
  <1>1. Numbered /\ Recorded /\ Ordered /\ Totals /\ Counted
    BY DEF Core
  <1>2. Busy /\ drainer.at = "inside"
    BY DEF CommitNext, Busy
  <1>3. /\ Len(sizes) \in Nat /\ T \in 1..Len(sizes) /\ drainer.batch = T /\ T \in Nat \ {0}
        /\ k \in Nat \ {0}
    BY <1>1, <1>2, Counts DEF Numbered
  <1>4. /\ log' = Append(log, T) /\ UNCHANGED <<outbox, sizes, enqueued, drained>>
        /\ \/ /\ l = 1 /\ ticket' = [ticket EXCEPT ![T] = f]
              /\ drainer' = [drainer EXCEPT !.at = "accounting", !.left = 0]
           \/ /\ l # 1 /\ ticket' = ticket
              /\ drainer' = [drainer EXCEPT !.left = l - 1]
    BY <1>3 DEF CommitNext, Commit
  <1>5. Taken' = T
    BY <1>4 DEF Taken
  <1>6. /\ log \in Seq(Nat) /\ l \in 1..k /\ f \in Nat \ {0} /\ f + k = Last + 1 + l
        /\ Places(T) = f..Last
        /\ \A i \in 1..Last : log[i] <= T
        /\ Whole = T - 1
    BY <1>1, <1>2 DEF Recorded, Whole, Reached
  <1>7. /\ Last \in Nat /\ log' \in Seq(Nat) /\ Last' = Last + 1
        /\ \A i \in 1..Last : log'[i] = log[i]
        /\ log'[Last + 1] = T
    BY <1>3, <1>4, <1>6, OneMore
  <1>8. \A c \in Nat : Places(c)' = IF c = T THEN Places(c) \cup {Last + 1} ELSE Places(c)
    BY <1>3, <1>4, <1>6, OneMore
  <1>9. Places(T)' = f..(Last + 1)
    <2>1. Places(T)' = {i \in 1..(Last + 1) : log'[i] = T}
      BY <1>5, <1>7 DEF Places
    <2>2. Places(T) = {i \in 1..Last : log[i] = T}
      BY DEF Places
    <2>3. 1..(Last + 1) = (1..Last) \cup {Last + 1} /\ f <= Last + 1
      BY <1>3, <1>6, <1>7
    <2>4. \A i : i \in Places(T)' <=> i \in Places(T) \/ i = Last + 1
      BY <1>7, <2>1, <2>2, <2>3
    <2>5. f..(Last + 1) = (f..Last) \cup {Last + 1}
      BY <1>6, <1>7, <2>3
    <2>6. QED
      BY <1>6, <2>4, <2>5
  <1>10. \A b \in 1..(T - 1) : Places(b)' = Places(b)
    BY <1>3, <1>8
  <1>11. Ordered'
    BY <1>1, <1>3, <1>4, <1>6, OneMoreOrdered
  <1>12. Cardinality(HeldByBatches)' = drained + (k - l) + 1
    <2>1. Unsettled = k - l /\ Cardinality(HeldByBatches) = drained + Unsettled
      BY <1>1, <1>2 DEF Counted, Unsettled, HeldByBatches
    <2>2. Cardinality(HeldByBatches)' = Cardinality(HeldByBatches) + 1
      <3>1. T # Direct
        BY <1>3 DEF Direct
      <3>2. QED
        BY <1>3, <1>4, <1>6, <3>1, OneMoreCounted
    <2>3. QED
      BY <2>1, <2>2
  <1>13. drained \in Nat
    BY <1>1, Counts DEF Totals
  <1>14. /\ drainer'.batch = T /\ drainer'.first = f
         /\ drainer' = [at |-> drainer'.at, batch |-> drainer'.batch, left |-> drainer'.left,
                        first |-> drainer'.first]
         /\ \/ l = 1 /\ drainer'.at = "accounting" /\ drainer'.left = 0
            \/ l # 1 /\ drainer'.at = "inside" /\ drainer'.left = l - 1
    <2>1. drainer = [at |-> drainer.at, batch |-> drainer.batch, left |-> l, first |-> f]
      BY <1>1 DEF Numbered
    <2>2. QED
      BY <1>2, <1>3, <1>4, <2>1
  <1>15. Busy' /\ Settled' = Settled /\ Reached' = T /\ T <= Reached'
    BY <1>2, <1>3, <1>5, <1>14 DEF Busy, Settled, Reached, Whole
  <1>16. Totals'
    BY <1>1, <1>4, <1>15 DEF Totals
  <1>17. \A i \in 1..Last' : log'[i] <= T
    <2>1. SUFFICES ASSUME NEW i \in 1..Last' PROVE log'[i] <= T
      OBVIOUS
    <2>2. i \in 1..Last \/ i = Last + 1
      BY <1>7
    <2>3. CASE i \in 1..Last
      BY <1>6, <1>7, <2>3
    <2>4. CASE i = Last + 1
      BY <1>3, <1>7, <2>4
    <2>5. QED
      BY <2>2, <2>3, <2>4
  <1>18. /\ ticket \in Seq(Nat) /\ Len(ticket) = Len(sizes)
         /\ \A b \in 1..(T - 1) :
              ticket[b] # 0 /\ Places(b) = ticket[b]..(ticket[b] + sizes[b] - 1)
         /\ \A b \in T..Len(sizes) : ticket[b] = 0
    BY <1>1, <1>3, <1>6 DEF Numbered, Recorded
  <1>19. CASE l = 1
    <2>1. /\ ticket' \in Seq(Nat) /\ Len(ticket') = Len(sizes) /\ ticket'[T] = f
          /\ \A b \in 1..Len(sizes) : b # T => ticket'[b] = ticket[b]
      <3>1. ticket' = [ticket EXCEPT ![T] = f] /\ f \in Nat
        BY <1>4, <1>6, <1>19
      <3>2. ticket \in [1..Len(sizes) -> Nat] /\ T \in 1..Len(sizes)
        BY <1>3, <1>18, LenProperties
      <3> HIDE DEF T, f
      <3>3. ticket' \in [1..Len(sizes) -> Nat]
        BY <3>1, <3>2
      <3>4. ticket' \in Seq(Nat) /\ Len(ticket') = Len(sizes)
        BY <1>3, <3>3, SeqDef, LenProperties
      <3>5. QED
        BY <3>1, <3>2, <3>4
    <2>2. drainer'.at = "accounting" /\ Whole' = T
      BY <1>5, <1>14, <1>19 DEF Whole
    <2>3. Numbered'
      BY <1>1, <1>4, <1>5, <1>14, <1>15, <2>1, <1>3 DEF Numbered
    <2>4. ASSUME NEW b \in 1..T
          PROVE  ticket'[b] # 0 /\ {i \in 1..Last' : log'[i] = b} = ticket'[b]..(ticket'[b] + sizes[b] - 1)
      <3>1. CASE b = T
        <4>1. f + k - 1 = Last + 1
          <5>1. k \in Nat /\ f \in Nat /\ Last \in Nat /\ f + k = Last + 1 + l /\ l = 1
            BY <1>3, <1>6, <1>7, <1>19
          <5> HIDE DEF k, l, f
          <5>2. QED
            BY <5>1
        <4>2. {i \in 1..Last' : log'[i] = T} = f..(Last + 1)
          BY <1>5, <1>9 DEF Places
        <4>3. QED
          BY <1>6, <2>1, <3>1, <4>1, <4>2
      <3>2. CASE b # T
        <4>1. b \in 1..(T - 1) /\ b \in 1..Len(sizes)
          BY <1>3, <3>2
        <4>2. ticket'[b] = ticket[b] /\ Places(b)' = Places(b)
          BY <1>10, <2>1, <3>2, <4>1
        <4>3. Places(b)' = {i \in 1..Last' : log'[i] = b}
          BY DEF Places
        <4>4. QED
          BY <1>18, <4>1, <4>2, <4>3
      <3>3. QED
        BY <3>1, <3>2
    <2>5. \A b \in (T + 1)..Len(sizes) : ticket'[b] = 0
      <3>1. \A b \in (T + 1)..Len(sizes) : b \in 1..Len(sizes) /\ b \in T..Len(sizes) /\ b # T
        BY <1>3
      <3>2. QED
        BY <1>18, <2>1, <3>1
    <2>6. Recorded'
      BY <1>4, <1>7, <1>15, <1>17, <2>2, <2>4, <2>5 DEF Recorded, Places
    <2>7. Counted'
      <3>1. Unsettled' = k
        BY <1>4, <1>5, <2>2 DEF Unsettled
      <3>2. Cardinality(HeldByBatches)' = drained' + Unsettled'
        BY <1>3, <1>4, <1>12, <1>13, <1>19, <3>1
      <3>3. QED
        BY <3>2 DEF Counted, HeldByBatches
    <2>8. QED
      BY <1>11, <1>16, <2>3, <2>6, <2>7 DEF Core
  <1>20. CASE l # 1
    <2>1. ticket' = ticket /\ drainer'.at = "inside" /\ drainer'.left = l - 1 /\ Whole' = T - 1
      BY <1>4, <1>5, <1>14, <1>20 DEF Whole
    <2>2. Numbered'
      BY <1>1, <1>3, <1>4, <1>5, <1>14, <1>15, <2>1 DEF Numbered
    <2>3. \A b \in 1..(T - 1) :
            ticket'[b] # 0 /\ Places(b)' = ticket'[b]..(ticket'[b] + sizes[b] - 1)
      BY <1>10, <1>18, <2>1
    <2>4. drainer'.left \in 1..k /\ f + k = (Last + 1) + 1 + drainer'.left
      <3>1. /\ k \in Nat /\ l \in 1..k /\ f \in Nat /\ Last \in Nat
            /\ f + k = Last + 1 + l /\ l # 1
        BY <1>3, <1>6, <1>7, <1>20
      <3> HIDE DEF k, l, f
      <3>2. l - 1 \in 1..k /\ f + k = (Last + 1) + 1 + (l - 1)
        BY <3>1
      <3>3. QED
        BY <2>1, <3>2
    <2>5. (T - 1) + 1 = T
      BY <1>3
    <2>6. Recorded'
      BY <1>4, <1>5, <1>6, <1>7, <1>9, <1>14, <1>15, <1>17, <1>18, <2>1, <2>3, <2>4, <2>5 DEF Recorded
    <2>7. Counted'
      <3>1. Unsettled' = k - (l - 1)
        BY <1>4, <1>5, <2>1 DEF Unsettled
      <3>2. Cardinality(HeldByBatches)' = drained' + Unsettled'
        BY <1>3, <1>4, <1>6, <1>12, <1>13, <3>1
      <3>3. QED
        BY <3>2 DEF Counted, HeldByBatches
    <2>8. QED
      BY <1>11, <1>16, <2>2, <2>6, <2>7 DEF Core
  <1>21. QED
    BY <1>19, <1>20

-----------------------------------------------------------------------------
(* The flushes *)

LEMMA TotalsGrow ==
  ASSUME Core
  PROVE  /\ enqueued \in Nat /\ drained \in Nat
         /\ ~Busy /\ outbox = <<>> => drained = enqueued
  <1>1. Numbered /\ Totals
    BY DEF Core
  <1>2. PICK t \in [0..Len(sizes) -> Nat] : enqueued = t[Len(sizes)] /\ drained = t[Settled]
    BY <1>1 DEF Totals
  <1>3. Settled \in 0..Len(sizes) /\ Len(sizes) \in 0..Len(sizes) /\ Len(sizes) \in Nat
    BY <1>1, Counts
  <1>4. ASSUME ~Busy, outbox = <<>>
        PROVE  Settled = Len(sizes)
    BY <1>3, <1>4 DEF Settled, Taken
  <1>5. QED
    BY <1>2, <1>3, <1>4

LEMMA FlushesLater ==
  ASSUME Core, Core', Flushes, flush' = flush, drained' >= drained, enqueued' >= enqueued
  PROVE  Flushes'
  <1>1. /\ enqueued \in Nat /\ drained \in Nat /\ enqueued' \in Nat /\ drained' \in Nat
    <2>1. enqueued \in Nat /\ drained \in Nat
      BY TotalsGrow
    <2>2. PICK t \in [0..Len(sizes') -> Nat] : enqueued' = t[Len(sizes')] /\ drained' = t[Settled']
      BY DEF Core, Totals
    <2>3. Numbered'
      BY DEF Core
    <2>4. Settled' \in 0..Len(sizes') /\ Len(sizes') \in 0..Len(sizes')
      <3>1. /\ Len(sizes') \in Nat /\ Len(outbox') \in Nat /\ Len(outbox') <= Len(sizes')
            /\ Taken' = Len(sizes') - Len(outbox')
            /\ Busy' => Taken' >= 1
        BY <2>3 DEF Numbered, Taken
      <3>2. QED
        BY <3>1 DEF Settled
    <2>5. QED
      BY <2>1, <2>2, <2>4
  <1>2. \A f \in Flushers : flush[f].target \in Nat
    BY DEF Flushes
  <1>3. QED
    BY <1>1, <1>2 DEF Flushes

LEMMA FlushesAnswered ==
  ASSUME Flushes, NEW total \in Nat, NEW err \in {"parked", "lost"}, flush' = Answered(total, err),
         drained' = total, total >= drained, enqueued' = enqueued, drained \in Nat, enqueued \in Nat,
         err = "lost" => total = enqueued
  PROVE  Flushes'
  <1>1. SUFFICES ASSUME NEW f \in Flushers
                 PROVE  /\ flush'[f] \in [target : Nat, st : {"idle", "parked", "flushed", "refused", "gave_up"}]
                        /\ flush'[f].st = "flushed" => flush'[f].target <= total
                        /\ flush'[f].st = "parked" => flush'[f].target <= enqueued
    BY DEF Flushes, Answered
  <1> DEFINE g == flush[f]
  <1>2. /\ g \in [target : Nat, st : {"idle", "parked", "flushed", "refused", "gave_up"}]
        /\ g.st = "flushed" => g.target <= drained
        /\ g.st = "parked" => g.target <= enqueued
    BY DEF Flushes
  <1>3. flush'[f] = IF g.st # "parked" THEN g
                    ELSE IF g.target <= total THEN [g EXCEPT !.st = "flushed"]
                    ELSE [g EXCEPT !.st = err]
    BY DEF Answered
  <1> HIDE DEF g
  <1>4. CASE g.st # "parked"
    BY <1>2, <1>3, <1>4
  <1>5. CASE g.st = "parked" /\ g.target <= total
    BY <1>2, <1>3, <1>5
  <1>6. CASE g.st = "parked" /\ ~(g.target <= total)
    <2>1. err = "parked"
      BY <1>2, <1>6
    <2>2. flush'[f] = g
      BY <1>2, <1>3, <1>6, <2>1
    <2>3. QED
      BY <1>2, <1>6, <2>2
  <1>7. QED
    BY <1>4, <1>5, <1>6

LEMMA OneFlush ==
  ASSUME Core, Flushes, NEW f \in Flushers, Flush(f) \/ GiveUpFlush(f)
  PROVE  Flushes'
  <1>1. enqueued \in Nat /\ drained \in Nat /\ enqueued' = enqueued /\ drained' = drained
    BY TotalsGrow DEF Flush, GiveUpFlush, outboxVars
  <1>2. CASE Flush(f)
    <2> DEFINE g == [target |-> enqueued,
                     st |-> IF Cut THEN "refused" ELSE IF drained >= enqueued THEN "flushed" ELSE "parked"]
    <2>1. flush' = [flush EXCEPT ![f] = g]
      BY <1>2 DEF Flush
    <2>2. /\ g \in [target : Nat, st : {"idle", "parked", "flushed", "refused", "gave_up"}]
          /\ g.st = "flushed" => g.target <= drained
          /\ g.st = "parked" => g.target <= enqueued
      BY <1>1
    <2> HIDE DEF g
    <2>3. QED
      BY <1>1, <2>1, <2>2 DEF Flushes
  <1>3. CASE GiveUpFlush(f)
    <2> DEFINE g == [flush[f] EXCEPT !.st = "gave_up"]
    <2>1. flush' = [flush EXCEPT ![f] = g]
      BY <1>3 DEF GiveUpFlush
    <2>2. /\ g \in [target : Nat, st : {"idle", "parked", "flushed", "refused", "gave_up"}]
          /\ g.st = "gave_up"
      BY DEF Flushes
    <2> HIDE DEF g
    <2>3. QED
      BY <1>1, <2>1, <2>2 DEF Flushes
  <1>4. QED
    BY <1>2, <1>3

-----------------------------------------------------------------------------
(* The steps *)

Books == Core /\ Flushes

LEMMA SameBooks ==
  ASSUME Books, UNCHANGED <<log, drainer, outboxVars, flush>>
  PROVE  Books'
  <1>1. Core'
    BY SameCore DEF Books, outboxVars
  <1>2. drained' >= drained /\ enqueued' >= enqueued
    BY TotalsGrow DEF Books, outboxVars
  <1>3. QED
    BY <1>1, <1>2, FlushesLater DEF Books

LEMMA BooksKept ==
  ASSUME Boundary, Books, Next
  PROVE  Books'
  <1>1. Core /\ Flushes /\ enqueued \in Nat /\ drained \in Nat
    BY TotalsGrow DEF Books
  <1>2. ASSUME Core', flush' = flush, drained' = drained, enqueued' = enqueued
        PROVE  Books'
    <2>1. drained' >= drained /\ enqueued' >= enqueued
      BY <1>1, <1>2
    <2>2. QED
      BY <1>1, <1>2, <2>1, FlushesLater DEF Books
  <1>3. CASE ReadPrimary \/ CloseDone \/ WriteFile
    BY <1>3, SameBooks DEF ReadPrimary, CloseDone, WriteFile, recordVars, drainVars
  <1>4. ASSUME NEW p \in Publishers, Publish(p) \/ Enter(p) \/ Abandon(p)
        PROVE  Books'
    BY <1>4, SameBooks DEF Publish, Enter, Abandon, recordVars, drainVars
  <1>5. ASSUME NEW s \in Subs, SubStep(s)
        PROVE  Books'
    BY <1>5, SameBooks DEF SubStep, SubscribeLive, Resume, Register, OwnerStep, SendHead,
       FailHead, Send, Deliver, TakeLive, Notified, Stop, Detach, Step, drainVars
  <1>6. CASE CutOutbox \/ CutAdmission \/ JoinDrainer \/ Unregister \/ JoinOwners
    BY <1>6, SameBooks DEF CutOutbox, CutAdmission, JoinDrainer, Unregister, JoinOwners,
       CloseStep, drainVars
  <1>7. ASSUME NEW s \in Subs, EndSubscription(s)
        PROVE  Books'
    BY <1>7, SameBooks DEF EndSubscription, CloseStep, drainVars
  <1>8. ASSUME drainer.at # "inside", Commit(Direct), UNCHANGED <<drainer, outboxVars, flush>>
        PROVE  Books'
    <2>1. log' = Append(log, Direct)
      BY <1>8 DEF Commit
    <2>2. Core'
      BY <1>1, <1>8, <2>1, DirectCore DEF outboxVars
    <2>3. QED
      BY <1>2, <1>8, <2>2 DEF outboxVars
  <1>9. ASSUME NEW p \in Publishers, SendAndCommit(p)
        PROVE  Books'
    <2>1. drainer.at # "inside"
      BY <1>9, EventLogAssumption DEF SendAndCommit, Boundary
    <2>2. QED
      BY <1>8, <1>9, <2>1 DEF SendAndCommit, drainVars
  <1>10. CASE TryPublish
    <2>1. drainer.at # "inside"
      BY <1>10 DEF TryPublish, Boundary
    <2>2. QED
      BY <1>8, <1>10, <2>1 DEF TryPublish, drainVars
  <1>11. ASSUME NEW n \in BatchSizes, Enqueue(n)
         PROVE  Books'
    <2>1. Core'
      BY <1>1, <1>11, EnqueueCore
    <2>2. flush' = flush /\ drained' = drained /\ enqueued' = enqueued + n /\ n \in Nat
      BY <1>11, EventLogAssumption DEF Enqueue
    <2>3. drained' >= drained /\ enqueued' >= enqueued
      BY <1>1, <2>2
    <2>4. QED
      BY <1>1, <2>1, <2>2, <2>3, FlushesLater DEF Books
  <1>12. CASE TakeBatch
    BY <1>1, <1>2, <1>12, TakeBatchCore DEF TakeBatch
  <1>13. CASE Park
    <2>1. /\ UNCHANGED <<log, outbox, sizes, ticket, enqueued, drained, flush>>
          /\ drainer.at = "ready" /\ drainer' = [drainer EXCEPT !.at = "parked"]
      BY <1>13 DEF Park, recordVars, outboxVars
    <2>2. QED
      BY <1>1, <1>2, <2>1, IdleCore
  <1>14. CASE Unpark
    <2>1. /\ UNCHANGED <<log, outbox, sizes, ticket, enqueued, drained, flush>>
          /\ drainer.at = "parked" /\ drainer' = [drainer EXCEPT !.at = "ready"]
      BY <1>14 DEF Unpark, recordVars, outboxVars
    <2>2. QED
      BY <1>1, <1>2, <2>1, IdleCore
  <1>15. CASE EnterBatch
    BY <1>1, <1>2, <1>15, EnterBatchCore DEF EnterBatch, outboxVars
  <1>16. CASE CommitNext
    BY <1>1, <1>2, <1>16, CommitNextCore DEF CommitNext
  <1>17. CASE CommitBatch
    <2>1. Core' /\ drained' >= drained
      BY <1>1, <1>17, CommitBatchCore
    <2>2. flush' = Answered(drained', "parked") /\ enqueued' = enqueued
      BY <1>17 DEF CommitBatch
    <2>3. drained' \in Nat
      <3>1. Numbered /\ Busy /\ drainer.at = "accounting"
        BY <1>1, <1>17 DEF CommitBatch, Busy, Core
      <3>2. drainer.batch = Taken /\ Taken \in 1..Len(sizes) /\ sizes \in Seq(Nat \ {0})
        BY <3>1, Counts DEF Numbered
      <3>3. sizes[drainer.batch] \in Nat
        BY <3>2
      <3>4. QED
        BY <1>1, <1>17, <3>3 DEF CommitBatch
    <2>4. QED
      BY <1>1, <2>1, <2>2, <2>3, FlushesAnswered DEF Books
  <1>18. CASE Exit
    <2>1. /\ UNCHANGED <<log, outbox, sizes, ticket, enqueued, drained>>
          /\ drainer.at = "ready" /\ drainer' = [drainer EXCEPT !.at = "exited"]
          /\ outbox = <<>> /\ flush' = Answered(drained, "lost")
      BY <1>18 DEF Exit, recordVars, outboxVars
    <2>2. Core'
      BY <1>1, <2>1, IdleCore
    <2>3. drained = enqueued
      BY <1>1, <2>1, TotalsGrow DEF Busy
    <2>4. drained >= drained
      BY <1>1
    <2>5. Flushes'
      BY <1>1, <2>1, <2>3, <2>4, FlushesAnswered
    <2>6. QED
      BY <2>2, <2>5 DEF Books
  <1>19. ASSUME NEW f \in Flushers, Flush(f) \/ GiveUpFlush(f)
         PROVE  Books'
    <2>1. UNCHANGED <<log, drainer, outbox, sizes, ticket, enqueued, drained>>
      BY <1>19 DEF Flush, GiveUpFlush, recordVars, drainVars, outboxVars
    <2>2. QED
      BY <1>1, <1>19, <2>1, SameCore, OneFlush DEF Books
  <1>20. QED
    BY <1>3, <1>4, <1>5, <1>6, <1>7, <1>9, <1>10, <1>11, <1>12, <1>13, <1>14, <1>15, <1>16,
       <1>17, <1>18, <1>19
       DEF Next, PublisherStep, DrainerStep, Close

LEMMA StartsWhole ==
  ASSUME Init
  PROVE  Boundary /\ Books
  <1>1. /\ log = <<>> /\ outbox = <<>> /\ sizes = <<>> /\ ticket = <<>>
        /\ enqueued = 0 /\ drained = 0 /\ sem = "free" /\ phase = "open"
        /\ drainer = [at |-> "none", batch |-> 0, left |-> 0, first |-> 0]
        /\ pc = [p \in Publishers |-> "out"]
        /\ flush = [f \in Flushers |-> [st |-> "idle", target |-> 0]]
    BY DEF Init
  <1>2. /\ Len(sizes) = 0 /\ Len(outbox) = 0 /\ Last = 0 /\ Taken = 0 /\ ~Busy /\ Whole = 0
        /\ Settled = 0 /\ Unsettled = 0 /\ Reached = 0
    BY <1>1 DEF Last, Taken, Busy, Whole, Settled, Unsettled, Reached
  <1>3. Boundary
    BY <1>1, EventLogAssumption DEF Boundary, Closing
  <1>4. Numbered
    BY <1>1, <1>2 DEF Numbered
  <1>5. Recorded
    BY <1>1, <1>2 DEF Recorded
  <1>6. Ordered
    BY <1>2 DEF Ordered
  <1>7. Totals
    <2> DEFINE t == [b \in 0..0 |-> 0]
    <2>1. t \in [0..Len(sizes) -> Nat] /\ t[0] = 0
      BY <1>2
    <2>2. \A b \in 1..Len(sizes) : t[b] = t[b - 1] + sizes[b]
      BY <1>2
    <2>3. enqueued = t[Len(sizes)] /\ drained = t[Settled]
      BY <1>1, <1>2
    <2> HIDE DEF t
    <2>4. QED
      BY <2>1, <2>2, <2>3 DEF Totals
  <1>8. Counted
    <2>1. {i \in 1..Last : log[i] # Direct} = {}
      BY <1>2
    <2>2. QED
      BY <1>1, <1>2, <2>1, FS_EmptySet DEF Counted
  <1>9. Flushes
    BY <1>1 DEF Flushes
  <1>10. QED
    BY <1>3, <1>4, <1>5, <1>6, <1>7, <1>8, <1>9 DEF Books, Core

-----------------------------------------------------------------------------
(* The theorems *)

\* What every state of the log has: the records of each batch that was taken,
\* the totals that account for them, and flushes that wait for no more than
\* was enqueued.
THEOREM OutboxInvariant == Spec => [](Boundary /\ Books)
  <1>1. Init => Boundary /\ Books
    BY StartsWhole
  <1>2. Boundary /\ Books /\ [Next]_vars => (Boundary /\ Books)'
    <2>1. ASSUME Boundary, Books, Next
          PROVE  (Boundary /\ Books)'
      <3>1. Numbered
        BY <2>1 DEF Books, Core
      <3>2. Boundary'
        BY <2>1, <3>1, BoundaryKept DEF Numbered
      <3>3. QED
        BY <2>1, <3>2, BooksKept
    <2>2. ASSUME Boundary, Books, UNCHANGED vars
          PROVE  (Boundary /\ Books)'
      <3>1. Boundary'
        BY <2>2 DEF Boundary, vars, Closing, Cut, drainVars, publishVars, outboxVars, closeVars
      <3>2. Books'
        BY <2>2, SameBooks DEF vars, recordVars, drainVars
      <3>3. QED
        BY <3>1, <3>2
    <2>3. QED
      BY <2>1, <2>2
  <1>3. QED
    BY <1>1, <1>2, PTL DEF Spec

LEMMA WholeBatches ==
  ASSUME Boundary, Books
  PROVE  BatchesWhole
  <1>1. Numbered /\ Recorded /\ Ordered
    BY DEF Books, Core
  <1>2. /\ Whole \in Nat /\ Whole <= Reached /\ Reached \in Nat /\ Taken \in Nat /\ Last \in Nat
        /\ Reached = Whole \/ (drainer.at = "inside" /\ Reached = Taken /\ Taken = Whole + 1)
    <2>1. Last \in Nat
      BY <1>1 DEF Recorded, Last
    <2>2. Reached = Whole \/ (drainer.at = "inside" /\ Reached = Taken /\ Whole = Taken - 1)
      BY DEF Reached, Whole
    <2>3. QED
      BY <1>1, <2>1, <2>2, Counts
  <1>3. ASSUME NEW i \in 1..Last, NEW j \in 1..Last, NEW k \in 1..Last,
               i < j, j < k, log[i] # Direct, log[i] = log[k]
        PROVE  log[j] = log[i]
    <2> DEFINE b == log[i]
    <2>1. b \in Nat /\ b # 0 /\ b <= Reached
      BY <1>1, <1>3 DEF Recorded, Direct, Last
    <2>2. PICK x, y : x \in Int /\ y \in Int /\ Places(b) = x..y
      <3>1. CASE b \in 1..Whole
        <4>1. b \in 1..Len(sizes)
          BY <1>1, <3>1, Counts
        <4>2. ticket[b] \in Int /\ ticket[b] + sizes[b] - 1 \in Int
          <5> HIDE DEF b
          <5>1. ticket[b] \in Nat /\ sizes[b] \in Nat
            BY <1>1, <4>1 DEF Numbered
          <5>2. QED
            BY <5>1
        <4>3. Places(b) = ticket[b]..(ticket[b] + sizes[b] - 1)
          BY <1>1, <3>1 DEF Recorded
        <4>4. QED
          BY <4>2, <4>3
      <3>2. CASE drainer.at = "inside" /\ b = Taken
        <4>1. drainer.first \in Int /\ Last \in Int /\ Places(b) = drainer.first..Last
          BY <1>1, <1>2, <3>2 DEF Recorded
        <4>2. QED
          BY <4>1
      <3>3. QED
        BY <1>2, <2>1, <3>1, <3>2
    <2>3. i \in Places(b) /\ k \in Places(b)
      BY <1>3 DEF Places
    <2>4. j \in x..y
      BY <1>2, <1>3, <2>2, <2>3
    <2>5. j \in Places(b)
      BY <2>2, <2>4
    <2>6. QED
      BY <2>5 DEF Places
  <1>4. ASSUME NEW b \in DOMAIN ticket, ticket[b] # 0
        PROVE  {i \in 1..Last : log[i] = b} = ticket[b]..(ticket[b] + sizes[b] - 1)
    <2>1. b \in 1..Len(sizes) /\ Len(sizes) \in Nat
      BY <1>1, <1>4 DEF Numbered
    <2>2. b \in 1..Whole
      <3>1. b \notin (Whole + 1)..Len(sizes)
        BY <1>1, <1>4 DEF Recorded
      <3>2. QED
        BY <1>2, <2>1, <3>1
    <2>3. QED
      BY <1>1, <2>2 DEF Recorded, Places
  <1>5. \A i, j \in 1..Last : i < j /\ log[i] # Direct /\ log[j] # Direct => log[i] <= log[j]
    BY <1>1 DEF Ordered
  <1>6. QED
    BY <1>3, <1>4, <1>5 DEF BatchesWhole

LEMMA FlushesTrue ==
  ASSUME Boundary, Books
  PROVE  FlushMeansCommitted
  <1>1. Core /\ Flushes /\ Numbered /\ Counted /\ Recorded
    BY DEF Books, Core
  <1>2. Unsettled \in Nat /\ drained \in Nat
    <2>1. Busy => Taken \in 1..Len(sizes)
      BY <1>1, Counts DEF Numbered
    <2>2. Busy => sizes[Taken] \in Nat
      BY <1>1, <2>1 DEF Numbered
    <2>3. drainer.at = "inside" => drainer.left \in 1..sizes[Taken]
      BY <1>1 DEF Recorded
    <2>4. drained \in Nat
      BY <1>1, TotalsGrow
    <2>5. CASE drainer.at = "inside"
      <3>1. Unsettled = sizes[Taken] - drainer.left
        BY <2>5 DEF Unsettled
      <3>2. QED
        BY <2>2, <2>3, <2>4, <2>5, <3>1 DEF Busy
    <2>6. CASE drainer.at # "inside"
      BY <2>2, <2>4, <2>6 DEF Unsettled, Busy
    <2>7. QED
      BY <2>5, <2>6
  <1>3. Cardinality({i \in 1..Last : log[i] # Direct}) = drained + Unsettled
    BY <1>1 DEF Counted
  <1> DEFINE c == Cardinality({i \in 1..Last : log[i] # Direct})
  <1>4. c >= drained /\ c \in Nat
    BY <1>2, <1>3
  <1> HIDE DEF c
  <1>5. ASSUME NEW f \in Flushers
        PROVE  (flush[f].st = "flushed" => c >= flush[f].target) /\ flush[f].st # "lost"
    <2>1. /\ flush[f].target \in Nat /\ flush[f].st # "lost"
          /\ flush[f].st = "flushed" => flush[f].target <= drained
      BY <1>1 DEF Flushes
    <2>2. QED
      BY <1>2, <1>4, <2>1
  <1>6. QED
    BY <1>5 DEF FlushMeansCommitted, c

LEMMA AllRecorded ==
  ASSUME Boundary, Books
  PROVE  AcceptedIsRecorded
  <1>1. Numbered /\ Recorded
    BY DEF Books, Core
  <1>2. SUFFICES ASSUME Closing, NEW b \in DOMAIN sizes
                 PROVE  Cardinality({i \in 1..Last : log[i] = b}) = sizes[b]
    BY DEF AcceptedIsRecorded
  <1>3. b \in 1..Len(sizes) /\ Len(sizes) \in Nat
    BY <1>1, <1>2 DEF Numbered
  <1>4. drainer.at = "exited" /\ outbox = <<>>
    <2>1. sizes # <<>>
      BY <1>3
    <2>2. QED
      BY <1>2, <2>1 DEF Boundary
  <1>5. Whole = Len(sizes)
    BY <1>3, <1>4 DEF Whole, Taken
  <1>6. {i \in 1..Last : log[i] = b} = ticket[b]..(ticket[b] + sizes[b] - 1)
    BY <1>1, <1>3, <1>5 DEF Recorded, Places
  <1> DEFINE x == ticket[b]
             y == ticket[b] + sizes[b] - 1
  <1>7. x \in Int /\ y \in Int /\ sizes[b] \in Nat \ {0} /\ y - x + 1 = sizes[b] /\ ~(x > y)
    BY <1>1, <1>3 DEF Numbered
  <1> HIDE DEF x, y
  <1>8. Cardinality(x..y) = IF x > y THEN 0 ELSE y - x + 1
    BY <1>7, FS_Interval
  <1>9. QED
    BY <1>6, <1>7, <1>8 DEF x, y

\* Batches are committed in order and whole, and a ticket names the first of a
\* batch's numbers, however direct publishers, abandonments and the cutoffs
\* fall between the drainer's steps (publishBatch, Ticket).
THEOREM BatchesAreWhole == Spec => []BatchesWhole
  BY OutboxInvariant, WholeBatches, PTL

\* A Flush that returned nil has what it waited for in the record, and none
\* that parked is told it came too late (Flush, commitBatch, endWaiters).
THEOREM FlushIsTrue == Spec => []FlushMeansCommitted
  BY OutboxInvariant, FlushesTrue, PTL

\* Once Close is past the drainer, every batch the outbox took is in the
\* record to its last event (drain, Close).
THEOREM AcceptedGetsRecorded == Spec => []AcceptedIsRecorded
  BY OutboxInvariant, AllRecorded, PTL

=============================================================================
