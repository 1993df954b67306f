----------------------------- MODULE AsksProofs -----------------------------
(***************************************************************************)
(* No ask outlives its turn, an ask ends once, a client that folds the log *)
(* sees the open asks, and an id tells what had it: for any number of asks *)
(* and turns, any retention bounds and any adopted ids.                    *)
(*                                                                         *)
(* A turn's end takes down what the books hold, and not what exists: the   *)
(* invariant is that the two are the same (Books).  It stands on an id     *)
(* never being given while an open ask holds it, which is what             *)
(* reserveLocked is for (Parks), and on an ask leaving the books in the    *)
(* section that ends it (Retires).  A turn whose state is forgotten had    *)
(* ended before (Turns), so forgetting one leaves no ask behind.           *)
(*                                                                         *)
(* The client's view (Showing) is what folding the log's outbox leaves.  A *)
(* fold is reasoned about by its last element (FoldAppend, KeepAppend,     *)
(* WithinAppend), and a batch of endings by the number of asks it has gone *)
(* through (ShowsEndings, KeepAllMemory).  What ids tell (History) stands  *)
(* on a counter passing only over numbers that were given (Spent), and on  *)
(* a kept ending being found by its id, or a later one being (Memory).     *)
(* Both are kept by the few things a section can do to the asks (Shapes).  *)
(***************************************************************************)
EXTENDS Asks, SequenceTheorems, WellFoundedInduction, TLAPS

-----------------------------------------------------------------------------
(* The invariant *)

IsAsk(a) ==
  a = [id |-> a.id, token |-> a.token, adopted |-> a.adopted, published |-> a.published,
       outcome |-> a.outcome, waiter |-> a.waiter]

IsAsks(all) == all \in Seq(Range(all)) /\ \A i \in DOMAIN all : IsAsk(all[i])

Booked(all, i) == all[i].outcome = "open" => all[i].id \in DOMAIN open /\ open[all[i].id] = i

AllOpen(all) == \A id \in DOMAIN open : open[id] \in DOMAIN all /\ all[open[id]].outcome = "open"

\* The books hold the asks that have not ended, and no others.
Books == IsAsks(asks) /\ AllOpen(asks) /\ \A i \in DOMAIN asks : Booked(asks, i)

Turns ==
  /\ turnSeq \in 0..MaxTurns
  /\ turns \in [1..MaxTurns -> TurnStates]
  /\ \A t \in 1..turnSeq : turns[t] # "unminted"
  /\ retired \in Seq(1..MaxTurns)
  /\ \A j \in 1..Len(retired) : retired[j] <= turnSeq /\ turns[retired[j]] # "live"

IInv ==
  /\ Books /\ Turns
  /\ \A i \in DOMAIN asks : asks[i].token \in 0..(MaxTurns + 1)
  /\ NoAskOutlivesItsTurn

-----------------------------------------------------------------------------
(* Sequences of asks *)

LEMMA FunctionIsSeq ==
  ASSUME NEW n \in Nat, NEW R, NEW f \in [1..n -> R]
  PROVE  f \in Seq(R)
  OBVIOUS

LEMMA Appended ==
  ASSUME NEW s, s \in Seq(Range(s)), NEW e
  PROVE  /\ Append(s, e) \in Seq(Range(Append(s, e)))
         /\ Len(s) \in Nat /\ DOMAIN s = 1..Len(s)
         /\ DOMAIN Append(s, e) = 1..(Len(s) + 1)
         /\ \A i \in 1..Len(s) : Append(s, e)[i] = s[i]
         /\ Append(s, e)[Len(s) + 1] = e
  <1> DEFINE S == Range(s) \cup {e}
             t == Append(s, e)
  <1>1. s \in Seq(S)
    <2>1. Range(s) \subseteq S
      OBVIOUS
    <2> QED BY <2>1
  <1>2. /\ t \in Seq(S) /\ Len(t) = Len(s) + 1
        /\ \A i \in 1..Len(s) : t[i] = s[i]
        /\ t[Len(s) + 1] = e
    BY <1>1, AppendProperties
  <1>3. Len(s) \in Nat /\ DOMAIN s = 1..Len(s) /\ DOMAIN t = 1..Len(t)
    BY <1>1, <1>2
  <1> HIDE DEF t
  <1>4. t \in [1..Len(t) -> Range(t)]
    <2>1. t \in [1..Len(t) -> S] /\ Len(t) \in Nat
      BY <1>2
    <2> QED BY <2>1 DEF Range
  <1>5. t \in Seq(Range(t))
    BY <1>2, <1>4, FunctionIsSeq
  <1> QED BY <1>2, <1>3, <1>5 DEF t

\* A function of the positions of a sequence is a sequence.
LEMMA Mapped ==
  ASSUME NEW s, s \in Seq(Range(s)), NEW t, DOMAIN t = DOMAIN s, t = [i \in DOMAIN s |-> t[i]]
  PROVE  t \in Seq(Range(t))
  <1>1. Len(s) \in Nat /\ DOMAIN s = 1..Len(s)
    OBVIOUS
  <1>2. t \in [1..Len(s) -> Range(t)]
    BY <1>1 DEF Range
  <1> QED BY <1>1, <1>2

-----------------------------------------------------------------------------
(* What the operators do to the books *)

\* After Retire the open asks are those of all that were open and not in S.
LEMMA Retires ==
  ASSUME NEW all, NEW S, NEW outcome \in Outcomes, NEW pre,
         IsAsks(all), AllOpen(all), \A i \in DOMAIN all \ S : Booked(all, i),
         Retire(all, S, outcome, pre)
  PROVE  /\ Books'
         /\ DOMAIN asks' = DOMAIN all
         /\ \A i \in DOMAIN all : /\ asks'[i].token = all[i].token
                                  /\ asks'[i].outcome = (IF i \in S THEN outcome ELSE all[i].outcome)
  <1>1. /\ asks' = [i \in DOMAIN all |-> IF i \in S THEN [all[i] EXCEPT !.outcome = outcome] ELSE all[i]]
        /\ open' = [id \in {d \in DOMAIN open : open[d] \notin S} |-> open[id]]
    BY DEF Retire
  <1>2. DOMAIN asks' = DOMAIN all
    BY <1>1
  <1>3. ASSUME NEW i \in DOMAIN all
        PROVE  /\ IsAsk(asks'[i]) /\ asks'[i].id = all[i].id /\ asks'[i].token = all[i].token
               /\ asks'[i].outcome = (IF i \in S THEN outcome ELSE all[i].outcome)
    <2>1. IsAsk(all[i])
      BY DEF IsAsks
    <2>2. asks'[i] = IF i \in S THEN [all[i] EXCEPT !.outcome = outcome] ELSE all[i]
      BY <1>1
    <2>3. CASE i \in S
      BY <2>1, <2>2, <2>3 DEF IsAsk
    <2>4. CASE i \notin S
      BY <2>1, <2>2, <2>4
    <2> QED BY <2>3, <2>4
  <1>4. asks' \in Seq(Range(asks'))
    BY <1>1, <1>2, Mapped DEF IsAsks
  <1>5. IsAsks(asks)'
    BY <1>2, <1>3, <1>4 DEF IsAsks, IsAsk
  <1>6. AllOpen(asks)'
    BY <1>1, <1>2, <1>3 DEF AllOpen
  <1>7. ASSUME NEW i \in DOMAIN asks', asks'[i].outcome = "open"
        PROVE  asks'[i].id \in DOMAIN open' /\ open'[asks'[i].id] = i
    <2>1. i \in DOMAIN all \ S /\ all[i].outcome = "open"
      BY <1>2, <1>3, <1>7 DEF Outcomes
    <2>2. all[i].id \in DOMAIN open /\ open[all[i].id] = i
      BY <2>1 DEF Booked
    <2> QED BY <1>1, <1>3, <2>1, <2>2
  <1>8. \A i \in DOMAIN asks' : Booked(asks, i)'
    BY <1>7 DEF Booked
  <1> QED BY <1>2, <1>3, <1>5, <1>6, <1>8 DEF Books

\* The same of an ask ended as it is made.
LEMMA RetiresNew ==
  ASSUME Books, NEW id, NEW token, NEW adopt, NEW published, NEW waiter,
         NEW outcome \in Outcomes, NEW pre,
         RetireNew(NewEntry(id, token, adopt, published, waiter), outcome, pre)
  PROVE  /\ Books'
         /\ DOMAIN asks = 1..Len(asks) /\ Len(asks) \in Nat
         /\ DOMAIN asks' = 1..(Len(asks) + 1)
         /\ \A i \in DOMAIN asks : asks'[i].token = asks[i].token /\ asks'[i].outcome = asks[i].outcome
         /\ asks'[Len(asks) + 1].token = token /\ asks'[Len(asks) + 1].outcome = outcome
  <1> DEFINE e == NewEntry(id, token, adopt, published, waiter)
             all == Append(asks, e)
             n == Len(asks) + 1
             S == {n}
  <1>1. asks \in Seq(Range(asks)) /\ \A i \in DOMAIN asks : IsAsk(asks[i])
    BY DEF Books, IsAsks
  <1>2. e = [id |-> id, token |-> token, adopted |-> adopt # NoId, published |-> published,
             outcome |-> "open", waiter |-> waiter]
    BY DEF NewEntry
  <1>3. IsAsk(e) /\ e.token = token
    BY <1>2 DEF IsAsk
  <1> HIDE DEF e
  <1>4. /\ all \in Seq(Range(all))
        /\ Len(asks) \in Nat /\ DOMAIN asks = 1..Len(asks)
        /\ DOMAIN all = 1..n
        /\ \A i \in 1..Len(asks) : all[i] = asks[i]
        /\ all[n] = e
    BY <1>1, Appended
  <1>5. Retire(all, S, outcome, pre)
    BY DEF RetireNew, e
  <1> HIDE DEF all
  <1>6. \A i \in DOMAIN all : i \in DOMAIN asks \/ i = n
    BY <1>4
  <1>7. IsAsks(all)
    BY <1>1, <1>3, <1>4, <1>6 DEF IsAsks
  <1>8. AllOpen(all)
    BY <1>4 DEF Books, AllOpen
  <1>9. \A i \in DOMAIN all \ S : Booked(all, i)
    BY <1>4, <1>6 DEF Books, Booked
  <1> HIDE DEF S
  <1>10. /\ Books' /\ DOMAIN asks' = DOMAIN all
         /\ \A i \in DOMAIN all : /\ asks'[i].token = all[i].token
                                  /\ asks'[i].outcome = (IF i \in S THEN outcome ELSE all[i].outcome)
    BY <1>5, <1>7, <1>8, <1>9, Retires
  <1> QED BY <1>3, <1>4, <1>10 DEF S

\* An ask is parked under an id that no open ask holds.
LEMMA Parks ==
  ASSUME Books, NEW id, NEW token, NEW adopt, NEW published, NEW waiter,
         id \notin DOMAIN open,
         Park(NewEntry(id, token, adopt, published, waiter))
  PROVE  /\ Books'
         /\ DOMAIN asks = 1..Len(asks) /\ Len(asks) \in Nat
         /\ DOMAIN asks' = 1..(Len(asks) + 1)
         /\ \A i \in DOMAIN asks : asks'[i].token = asks[i].token /\ asks'[i].outcome = asks[i].outcome
         /\ asks'[Len(asks) + 1].token = token
  <1> DEFINE e == NewEntry(id, token, adopt, published, waiter)
             n == Len(asks) + 1
  <1>1. asks \in Seq(Range(asks)) /\ \A i \in DOMAIN asks : IsAsk(asks[i])
    BY DEF Books, IsAsks
  <1>2. e = [id |-> id, token |-> token, adopted |-> adopt # NoId, published |-> published,
             outcome |-> "open", waiter |-> waiter]
    BY DEF NewEntry
  <1>3. IsAsk(e) /\ e.token = token /\ e.id = id /\ e.outcome = "open"
    BY <1>2 DEF IsAsk
  <1>4. /\ asks' = Append(asks, e)
        /\ open' = [d \in DOMAIN open \cup {e.id} |-> IF d = e.id THEN n ELSE open[d]]
    BY DEF Park
  <1> HIDE DEF e
  <1>5. /\ asks' \in Seq(Range(asks'))
        /\ Len(asks) \in Nat /\ DOMAIN asks = 1..Len(asks)
        /\ DOMAIN asks' = 1..n
        /\ \A i \in 1..Len(asks) : asks'[i] = asks[i]
        /\ asks'[n] = e
    BY <1>1, <1>4, Appended
  <1>6. \A i \in DOMAIN asks' : i \in DOMAIN asks \/ i = n
    BY <1>5
  <1>7. IsAsks(asks)'
    BY <1>1, <1>3, <1>5, <1>6 DEF IsAsks, IsAsk
  <1>8. AllOpen(asks)'
    BY <1>3, <1>4, <1>5 DEF Books, AllOpen
  <1>9. ASSUME NEW i \in DOMAIN asks', asks'[i].outcome = "open"
        PROVE  asks'[i].id \in DOMAIN open' /\ open'[asks'[i].id] = i
    <2>1. CASE i = n
      BY <1>3, <1>4, <1>5, <2>1
    <2>2. CASE i \in DOMAIN asks
      <3>1. asks[i].id \in DOMAIN open /\ open[asks[i].id] = i
        BY <1>5, <1>9, <2>2 DEF Books, Booked
      <3>2. asks[i].id # id
        BY <3>1
      <3> QED BY <1>3, <1>4, <1>5, <2>2, <3>1, <3>2
    <2> QED BY <1>6, <2>1, <2>2
  <1>10. \A i \in DOMAIN asks' : Booked(asks, i)'
    BY <1>9 DEF Booked
  <1> QED BY <1>3, <1>5, <1>7, <1>8, <1>10 DEF Books

\* A turn's end is marked: only that turn, and turns that had ended, change.
LEMMA MarksTurns ==
  ASSUME Turns, AsksAssumption, NEW token \in 0..turnSeq, NEW how \in {"cancelled", "ended"},
         Marks(token, how)
  PROVE  /\ Turns'
         /\ \A t \in 1..MaxTurns : t # token /\ turns[t] = "live" => turns'[t] = "live"
  <1>1. turnSeq' = turnSeq /\ MaxTurns \in Nat /\ KeptTurns \in Nat
    BY DEF Marks, AsksAssumption
  <1>2. CASE token # NoTurn /\ turns[token] = "live"
    <2> DEFINE ended == Append(retired, token)
               full == Len(ended) > KeptTurns
    <2>1. token \in 1..MaxTurns
      BY <1>1, <1>2 DEF NoTurn, Turns
    <2>2. /\ ended \in Seq(1..MaxTurns) /\ Len(ended) = Len(retired) + 1 /\ ended # <<>>
          /\ \A j \in 1..Len(retired) : ended[j] = retired[j]
          /\ ended[Len(ended)] = token /\ Len(retired) \in Nat
      <3>1. retired \in Seq(1..MaxTurns)
        BY DEF Turns
      <3>2. ended \in Seq(1..MaxTurns) /\ ended # <<>> /\ Len(ended) = Len(retired) + 1
        BY <2>1, <3>1, AppendProperties
      <3>3. \A j \in 1..Len(retired) : ended[j] = retired[j]
        BY <2>1, <3>1, AppendProperties
      <3>4. ended[Len(retired) + 1] = token
        BY <2>1, <3>1, AppendProperties
      <3>5. Len(retired) \in Nat
        BY <3>1
      <3> QED BY <3>2, <3>3, <3>4, <3>5
    <2>3. /\ retired' = IF full THEN Tail(ended) ELSE ended
          /\ turns' = [t \in 1..MaxTurns |->
                         IF full /\ t = Head(ended) THEN "forgotten"
                         ELSE IF t = token THEN how ELSE turns[t]]
      BY <1>2 DEF Marks
    <2>4. \A j \in 1..Len(ended) : ended[j] = token \/ turns[ended[j]] # "live"
      BY <2>2 DEF Turns
    <2> HIDE DEF ended
    <2>5. \A j \in 1..Len(ended) : ended[j] \in 1..MaxTurns /\ turns'[ended[j]] # "live"
      <3> SUFFICES ASSUME NEW j \in 1..Len(ended)
                   PROVE  ended[j] \in 1..MaxTurns /\ turns'[ended[j]] # "live"
        OBVIOUS
      <3>1. ended[j] \in 1..MaxTurns
        BY <2>2
      <3>2. turns'[ended[j]] \in {"forgotten", how} \/ (ended[j] # token /\ turns'[ended[j]] = turns[ended[j]])
        BY <2>3, <3>1
      <3> QED BY <2>4, <3>1, <3>2
    <2>6. /\ retired' \in Seq(1..MaxTurns)
          /\ \A j \in 1..Len(retired') : \E k \in 1..Len(ended) : retired'[j] = ended[k]
      <3>1. CASE full
        <4>1. retired' = Tail(ended)
          BY <2>3, <3>1
        <4>2. /\ Tail(ended) \in Seq(1..MaxTurns) /\ Len(Tail(ended)) = Len(ended) - 1
              /\ \A j \in 1..Len(Tail(ended)) : Tail(ended)[j] = ended[j + 1]
          BY <2>2, HeadTailProperties
        <4>3. \A j \in 1..Len(Tail(ended)) : j + 1 \in 1..Len(ended)
          BY <2>2, <4>2
        <4> QED BY <4>1, <4>2, <4>3
      <3>2. CASE ~full
        BY <2>2, <2>3, <3>2
      <3> QED BY <3>1, <3>2
    <2>7. Head(ended) = token \/ turns[Head(ended)] # "live"
      BY <2>2, <2>4
    <2>8. \A t \in 1..MaxTurns : t # token /\ turns[t] = "live" => turns'[t] = "live"
      BY <2>3, <2>7
    <2>9. \A j \in 1..Len(retired') : retired'[j] <= turnSeq' /\ turns'[retired'[j]] # "live"
      <3>1. \A j \in 1..Len(ended) : ended[j] <= turnSeq
        <4>1. \A j \in 1..Len(ended) : j \in 1..Len(retired) \/ j = Len(ended)
          BY <2>2
        <4>2. \A j \in 1..Len(retired) : retired[j] <= turnSeq
          BY DEF Turns
        <4> QED BY <2>2, <4>1, <4>2
      <3> QED BY <1>1, <2>5, <2>6, <3>1
    <2>10. /\ turns' \in [1..MaxTurns -> TurnStates]
           /\ \A t \in 1..turnSeq : turns'[t] # "unminted"
      BY <1>1, <2>3 DEF Turns, TurnStates
    <2> QED BY <1>1, <2>6, <2>8, <2>9, <2>10 DEF Turns
  <1>3. CASE ~(token # NoTurn /\ turns[token] = "live")
    BY <1>1, <1>3 DEF Marks, Turns
  <1> QED BY <1>2, <1>3

-----------------------------------------------------------------------------
(* The steps *)

\* An open ask may still belong to token after the step.
StaysLive(token) ==
  ~closed' /\ (token = NoTurn \/ (token # Foreign /\ turns'[token] = "live"))

LEMMA TokensKept ==
  ASSUME IInv, DOMAIN asks' = DOMAIN asks,
         \A i \in DOMAIN asks : asks'[i].token = asks[i].token
  PROVE  \A i \in DOMAIN asks' : asks'[i].token \in 0..(MaxTurns + 1)
  BY DEF IInv

\* A section that ends the asks S and makes none keeps the invariant, if the
\* turns of the asks it leaves open stay live and the session stays open.
LEMMA RetireKeeps ==
  ASSUME IInv, NEW S, NEW outcome \in Outcomes, NEW pre, Retire(asks, S, outcome, pre), S \subseteq OpenAsks,
         Turns',
         \A i \in DOMAIN asks \ S : asks[i].outcome = "open" => StaysLive(asks[i].token)
  PROVE  IInv' /\ \A i \in DOMAIN asks : asks[i].outcome # "open" => asks'[i].outcome = asks[i].outcome
  <1>1. IsAsks(asks) /\ AllOpen(asks) /\ \A i \in DOMAIN asks \ S : Booked(asks, i)
    BY DEF IInv, Books
  <1>2. /\ Books' /\ DOMAIN asks' = DOMAIN asks
        /\ \A i \in DOMAIN asks : /\ asks'[i].token = asks[i].token
                                  /\ asks'[i].outcome = (IF i \in S THEN outcome ELSE asks[i].outcome)
    BY <1>1, Retires
  <1>3. \A i \in S : i \in DOMAIN asks /\ asks[i].outcome = "open"
    BY <1>1 DEF OpenAsks, AllOpen
  <1>4. NoAskOutlivesItsTurn'
    <2> SUFFICES ASSUME NEW i \in DOMAIN asks', asks'[i].outcome = "open"
                 PROVE  StaysLive(asks'[i].token)
      BY DEF NoAskOutlivesItsTurn, Fate, StaysLive
    <2>1. i \in DOMAIN asks \ S /\ asks[i].outcome = "open"
      BY <1>2 DEF Outcomes
    <2> QED BY <1>2, <2>1
  <1> QED BY <1>2, <1>3, <1>4, TokensKept DEF IInv

LEMMA OpenStays ==
  ASSUME IInv, UNCHANGED <<turnVars, closed>>
  PROVE  Turns' /\ \A i \in DOMAIN asks : asks[i].outcome = "open" => StaysLive(asks[i].token)
  BY DEF IInv, Turns, turnVars, NoAskOutlivesItsTurn, Fate, StaysLive

\* A section that makes an ask, and ends it or parks it for a live turn.
LEMMA NewKeeps ==
  ASSUME IInv, UNCHANGED <<turnVars, closed>>, Books', NEW token \in 0..(MaxTurns + 1),
         DOMAIN asks = 1..Len(asks), Len(asks) \in Nat, DOMAIN asks' = 1..(Len(asks) + 1),
         \A i \in DOMAIN asks : asks'[i].token = asks[i].token /\ asks'[i].outcome = asks[i].outcome,
         asks'[Len(asks) + 1].token = token,
         asks'[Len(asks) + 1].outcome # "open" \/ (~closed /\ Fate(token) = "live")
  PROVE  IInv' /\ \A i \in DOMAIN asks : asks[i].outcome # "open" => asks'[i].outcome = asks[i].outcome
  <1> DEFINE n == Len(asks) + 1
  <1>1. Turns' /\ \A i \in DOMAIN asks : asks[i].outcome = "open" => StaysLive(asks[i].token)
    BY OpenStays
  <1>2. \A i \in DOMAIN asks' : i \in DOMAIN asks \/ i = n
    OBVIOUS
  <1>3. \A i \in DOMAIN asks' : asks'[i].token \in 0..(MaxTurns + 1)
    BY <1>2 DEF IInv
  <1>4. NoAskOutlivesItsTurn'
    <2> SUFFICES ASSUME NEW i \in DOMAIN asks', asks'[i].outcome = "open"
                 PROVE  StaysLive(asks'[i].token)
      BY DEF NoAskOutlivesItsTurn, Fate, StaysLive
    <2>1. CASE i \in DOMAIN asks
      BY <1>1, <2>1
    <2>2. CASE i = n
      BY <2>2 DEF Fate, StaysLive, turnVars
    <2> QED BY <1>2, <2>1, <2>2
  <1> QED BY <1>1, <1>3, <1>4 DEF IInv

\* A step of a waiter that ends nothing.
LEMMA WaiterKeeps ==
  ASSUME IInv, UNCHANGED <<open, turnVars, closed>>, NEW i \in DOMAIN asks, NEW waiter,
         asks' = [asks EXCEPT ![i].waiter = waiter]
  PROVE  IInv' /\ \A j \in DOMAIN asks : asks'[j].outcome = asks[j].outcome
  <1>1. IsAsks(asks)
    BY DEF IInv, Books
  <1>2. DOMAIN asks' = DOMAIN asks /\ asks' = [j \in DOMAIN asks |-> asks'[j]]
    OBVIOUS
  <1>3. ASSUME NEW j \in DOMAIN asks
        PROVE  /\ IsAsk(asks'[j]) /\ asks'[j].id = asks[j].id
               /\ asks'[j].token = asks[j].token /\ asks'[j].outcome = asks[j].outcome
    <2>1. IsAsk(asks[j])
      BY <1>1 DEF IsAsks
    <2>2. asks'[j] = IF j = i THEN [asks[j] EXCEPT !.waiter = waiter] ELSE asks[j]
      OBVIOUS
    <2>3. CASE j = i
      BY <2>1, <2>2, <2>3 DEF IsAsk
    <2>4. CASE j # i
      BY <2>1, <2>2, <2>4
    <2> QED BY <2>3, <2>4
  <1>4. asks' \in Seq(Range(asks'))
    BY <1>1, <1>2, Mapped DEF IsAsks
  <1>5. Books'
    <2>1. IsAsks(asks)'
      BY <1>2, <1>3, <1>4 DEF IsAsks, IsAsk
    <2>2. AllOpen(asks)'
      BY <1>2, <1>3 DEF IInv, Books, AllOpen
    <2>3. \A j \in DOMAIN asks' : Booked(asks, j)'
      BY <1>2, <1>3 DEF IInv, Books, Booked
    <2> QED BY <2>1, <2>2, <2>3 DEF Books
  <1>6. Turns' /\ NoAskOutlivesItsTurn'
    BY <1>2, <1>3, OpenStays DEF NoAskOutlivesItsTurn, Fate, StaysLive
  <1>7. \A j \in DOMAIN asks' : asks'[j].token \in 0..(MaxTurns + 1)
    BY <1>2, <1>3, TokensKept
  <1> QED BY <1>3, <1>5, <1>6, <1>7 DEF IInv

\* Only its caller's place changes: the books are those of the same asks.
Placed(i, waiter) == [asks EXCEPT ![i].waiter = waiter]

LEMMA Waited ==
  ASSUME Books, NEW i \in DOMAIN asks, NEW waiter,
         NEW all, all = Placed(i, waiter)
  PROVE  /\ IsAsks(all) /\ AllOpen(all) /\ \A j \in DOMAIN all : Booked(all, j)
         /\ DOMAIN all = DOMAIN asks
         /\ \A j \in DOMAIN asks : all[j].token = asks[j].token /\ all[j].outcome = asks[j].outcome
  <1>1. IsAsks(asks)
    BY DEF Books
  <1>2. DOMAIN all = DOMAIN asks /\ all = [j \in DOMAIN asks |-> all[j]]
    BY DEF Placed
  <1>3. ASSUME NEW j \in DOMAIN asks
        PROVE  /\ IsAsk(all[j]) /\ all[j].id = asks[j].id
               /\ all[j].token = asks[j].token /\ all[j].outcome = asks[j].outcome
    <2>1. IsAsk(asks[j])
      BY <1>1 DEF IsAsks
    <2>2. all[j] = IF j = i THEN [asks[j] EXCEPT !.waiter = waiter] ELSE asks[j]
      BY DEF Placed
    <2>3. CASE j = i
      BY <2>1, <2>2, <2>3 DEF IsAsk
    <2>4. CASE j # i
      BY <2>1, <2>2, <2>4
    <2> QED BY <2>3, <2>4
  <1>4. all \in Seq(Range(all))
    BY <1>1, <1>2, Mapped DEF IsAsks
  <1>5. IsAsks(all)
    BY <1>2, <1>3, <1>4 DEF IsAsks
  <1>6. AllOpen(all)
    BY <1>2, <1>3 DEF Books, AllOpen
  <1>7. \A j \in DOMAIN all : Booked(all, j)
    BY <1>2, <1>3 DEF Books, Booked
  <1> QED BY <1>2, <1>3, <1>5, <1>6, <1>7

LEMMA NewId ==
  ASSUME NEW adopt, NEW id, Reserves(adopt, id)
  PROVE  id \notin DOMAIN open
  BY DEF Reserves, Mints, CountsTo

Final == \A i \in DOMAIN asks : asks[i].outcome # "open" => asks'[i].outcome = asks[i].outcome

\* A turn's end leaves open the asks of other turns, and of no turn.
LEMMA TurnStays ==
  ASSUME IInv, AsksAssumption, NEW token \in 0..turnSeq, NEW how \in {"cancelled", "ended"},
         Marks(token, how), closed' = closed,
         NEW i \in DOMAIN asks, asks[i].outcome = "open", asks[i].token # token
  PROVE  StaysLive(asks[i].token)
  <1>1. ~closed /\ Fate(asks[i].token) = "live" /\ asks[i].token \in 0..(MaxTurns + 1)
    BY DEF IInv, NoAskOutlivesItsTurn
  <1>2. CASE asks[i].token = NoTurn
    BY <1>1, <1>2 DEF StaysLive
  <1>3. CASE asks[i].token # NoTurn
    <2>1. asks[i].token # Foreign /\ turns[asks[i].token] = "live"
      BY <1>1, <1>3 DEF Fate
    <2>2. asks[i].token \in 1..MaxTurns
      BY <1>1, <1>3, <2>1 DEF Foreign, NoTurn, AsksAssumption
    <2>3. turns'[asks[i].token] = "live"
      BY <2>1, <2>2, MarksTurns DEF IInv
    <2> QED BY <1>1, <2>1, <2>3 DEF StaysLive
  <1> QED BY <1>2, <1>3

LEMMA BeginTurnKeeps ==
  ASSUME IInv, AsksAssumption, BeginTurn
  PROVE  IInv' /\ Final
  <1>1. /\ turnSeq < MaxTurns /\ turnSeq' = turnSeq + 1
        /\ turns' = [turns EXCEPT ![turnSeq + 1] = "live"]
        /\ asks' = asks /\ open' = open /\ retired' = retired /\ closed' = closed
    BY DEF BeginTurn
  <1>2. Books'
    BY <1>1 DEF IInv, Books, IsAsks, IsAsk, AllOpen, Booked
  <1>3. Turns'
    <2>1. turnSeq \in Nat /\ MaxTurns \in Nat /\ turnSeq + 1 \in 1..MaxTurns /\ DOMAIN turns = 1..MaxTurns
      BY <1>1 DEF IInv, Turns, AsksAssumption
    <2>2. /\ turnSeq' \in 0..MaxTurns /\ turns' \in [1..MaxTurns -> TurnStates]
          /\ \A t \in 1..turnSeq' : turns'[t] # "unminted"
      BY <1>1, <2>1 DEF IInv, Turns, TurnStates
    <2>3. \A j \in 1..Len(retired) : retired[j] # turnSeq + 1
      BY DEF IInv, Turns
    <2>4. \A j \in 1..Len(retired) : turns'[retired[j]] # "live"
      BY <1>1, <2>1, <2>3 DEF IInv, Turns
    <2> QED BY <1>1, <2>2, <2>4 DEF IInv, Turns
  <1>4. NoAskOutlivesItsTurn'
    <2> SUFFICES ASSUME NEW i \in DOMAIN asks, asks[i].outcome = "open"
                 PROVE  StaysLive(asks[i].token)
      BY <1>1 DEF NoAskOutlivesItsTurn, Fate, StaysLive
    <2>1. ~closed /\ Fate(asks[i].token) = "live" /\ asks[i].token \in 0..(MaxTurns + 1)
      BY DEF IInv, NoAskOutlivesItsTurn
    <2>2. asks[i].token \in {NoTurn, Foreign} \/ asks[i].token \in 1..MaxTurns
      BY <2>1 DEF NoTurn, Foreign, AsksAssumption
    <2> QED BY <1>1, <2>1, <2>2 DEF StaysLive, Fate, IInv, Turns
  <1> QED BY <1>1, <1>2, <1>3, <1>4 DEF IInv, Final

LEMMA OfTurnOpen == ASSUME NEW token PROVE OfTurn(token) \subseteq OpenAsks
  BY DEF OfTurn

\* The asks that are open and left out of S, when S is all of them or a turn's.
LEMMA Leaves ==
  ASSUME IInv, NEW i \in DOMAIN asks, asks[i].outcome = "open"
  PROVE  i \in OpenAsks /\ \A token : i \notin OfTurn(token) => asks[i].token # token
  BY DEF IInv, Books, Booked, OpenAsks, OfTurn

LEMMA EndsAllKeeps ==
  ASSUME IInv, NEW outcome \in Outcomes, Retire(asks, OpenAsks, outcome, <<>>), Turns'
  PROVE  IInv' /\ Final
  BY Leaves, RetireKeeps DEF Final

LEMMA EndsTurnKeeps ==
  ASSUME IInv, AsksAssumption, NEW token \in 0..turnSeq, NEW how \in {"cancelled", "ended"},
         NEW outcome \in Outcomes, Marks(token, how), closed' = closed,
         Retire(asks, OfTurn(token), outcome, <<>>)
  PROVE  IInv' /\ Final
  <1>1. Turns'
    BY MarksTurns DEF IInv
  <1>2. \A i \in DOMAIN asks \ OfTurn(token) : asks[i].outcome = "open" => StaysLive(asks[i].token)
    BY Leaves, TurnStays
  <1> QED BY <1>1, <1>2, OfTurnOpen, RetireKeeps DEF Final

LEMMA TurnStepKeeps ==
  ASSUME IInv, AsksAssumption, TurnStep
  PROVE  IInv' /\ Final
  <1>1. CASE BeginTurn
    BY <1>1, BeginTurnKeeps
  <1>2. ASSUME NEW token \in 0..turnSeq, CancelTurn(token)
        PROVE  IInv' /\ Final
    <2>1. Marks(token, "cancelled") /\ Retire(asks, OpenAsks, "cancelled", <<>>)
      BY <1>2 DEF CancelTurn
    <2>2. Turns'
      BY <2>1, MarksTurns DEF IInv
    <2> QED BY <2>1, <2>2, EndsAllKeeps DEF Outcomes
  <1>3. ASSUME NEW token \in 0..turnSeq, CancelOwnTurn(token)
        PROVE  IInv' /\ Final
    <2>1. Marks(token, "cancelled") /\ Retire(asks, OfTurn(token), "cancelled", <<>>) /\ closed' = closed
      BY <1>3 DEF CancelOwnTurn
    <2> QED BY <2>1, EndsTurnKeeps DEF Outcomes
  <1>4. ASSUME NEW token \in 0..turnSeq, EndTurn(token)
        PROVE  IInv' /\ Final
    <2>1. Marks(token, "ended") /\ Retire(asks, OfTurn(token), "turn_ended", <<>>) /\ closed' = closed
      BY <1>4 DEF EndTurn
    <2> QED BY <2>1, EndsTurnKeeps DEF Outcomes
  <1> QED BY <1>1, <1>2, <1>3, <1>4 DEF TurnStep

\* An ask ended as it is made.
LEMMA RetireNewKeeps ==
  ASSUME IInv, UNCHANGED turnVars, closed' = closed,
         NEW id, NEW token \in 0..(MaxTurns + 1), NEW adopt, NEW published, NEW waiter,
         NEW outcome \in Outcomes, NEW pre,
         RetireNew(NewEntry(id, token, adopt, published, waiter), outcome, pre)
  PROVE  IInv' /\ Final
  <1>1. /\ Books'
        /\ DOMAIN asks = 1..Len(asks) /\ Len(asks) \in Nat
        /\ DOMAIN asks' = 1..(Len(asks) + 1)
        /\ \A i \in DOMAIN asks : asks'[i].token = asks[i].token /\ asks'[i].outcome = asks[i].outcome
        /\ asks'[Len(asks) + 1].token = token /\ asks'[Len(asks) + 1].outcome = outcome
    BY RetiresNew DEF IInv
  <1>2. asks'[Len(asks) + 1].outcome # "open"
    BY <1>1 DEF Outcomes
  <1>3. UNCHANGED <<turnVars, closed>>
    OBVIOUS
  <1> QED BY <1>1, <1>2, <1>3, NewKeeps DEF Final

LEMMA OpenKeeps ==
  ASSUME IInv, AsksAssumption, NEW token \in (0..turnSeq) \cup {Foreign}, NEW kind, NEW adopt,
         Open(token, kind, adopt)
  PROVE  IInv' /\ Final
  <1> DEFINE why == Refusal(token)
  <1>1. UNCHANGED turnVars /\ closed' = closed
    BY DEF Open
  <1>2. token \in 0..(MaxTurns + 1)
    BY DEF IInv, Turns, Foreign, AsksAssumption
  <1>3. PICK id : /\ Reserves(adopt, id)
                  /\ IF why = "none"
                     THEN Park(NewEntry(id, token, adopt, why = "none", "waiting"))
                     ELSE RetireNew(NewEntry(id, token, adopt, why = "none", "waiting"), why, <<>>)
    BY DEF Open
  <1>4. Fate(token) \in {"live", "cancelled", "ended", "forgotten"}
    BY <1>2 DEF Fate, Foreign, NoTurn, IInv, Turns, TurnStates, AsksAssumption
  <1>5. why \in Outcomes \/ (why = "none" /\ ~closed /\ Fate(token) = "live")
    BY <1>4 DEF Refusal, Outcomes
  <1>6. CASE why # "none"
    <2>1. RetireNew(NewEntry(id, token, adopt, why = "none", "waiting"), why, <<>>)
      BY <1>3, <1>6
    <2>2. why \in Outcomes
      BY <1>5, <1>6
    <2> HIDE DEF why
    <2> QED BY <1>1, <1>2, <2>1, <2>2, RetireNewKeeps
  <1>7. CASE why = "none"
    <2>1. Park(NewEntry(id, token, adopt, why = "none", "waiting"))
      BY <1>3, <1>7
    <2>2. ~closed /\ Fate(token) = "live"
      BY <1>5, <1>7 DEF Outcomes
    <2>3. id \notin DOMAIN open
      BY <1>3, NewId
    <2> HIDE DEF why
    <2>4. /\ Books'
          /\ DOMAIN asks = 1..Len(asks) /\ Len(asks) \in Nat
          /\ DOMAIN asks' = 1..(Len(asks) + 1)
          /\ \A i \in DOMAIN asks : asks'[i].token = asks[i].token /\ asks'[i].outcome = asks[i].outcome
          /\ asks'[Len(asks) + 1].token = token
      BY <2>1, <2>3, Parks DEF IInv
    <2>5. UNCHANGED <<turnVars, closed>>
      BY <1>1
    <2> QED BY <1>2, <2>2, <2>4, <2>5, NewKeeps DEF Final
  <1> QED BY <1>6, <1>7

LEMMA AskStepKeeps ==
  ASSUME IInv, AsksAssumption, AskStep
  PROVE  IInv' /\ Final
  <1>1. ASSUME NEW token \in (0..turnSeq) \cup {Foreign}, NEW kind, NEW adopt, Open(token, kind, adopt)
        PROVE  IInv' /\ Final
    BY <1>1, OpenKeeps
  <1>2. NoTurn \in 0..(MaxTurns + 1)
    BY DEF NoTurn, AsksAssumption
  <1>3. ASSUME NEW kind, NEW adopt, NEW fits \in BOOLEAN, Automatic(kind, adopt, fits)
        PROVE  IInv' /\ Final
    <2> DEFINE outcome == IF fits THEN "automatic" ELSE "cancelled"
    <2>1. PICK id, adopted, shown, pre : RetireNew(NewEntry(id, NoTurn, adopted, shown, "none"), outcome, pre)
      BY <1>3 DEF Automatic
    <2>2. UNCHANGED turnVars /\ closed' = closed
      BY <1>3 DEF Automatic
    <2>3. outcome \in Outcomes
      BY DEF Outcomes
    <2> HIDE DEF outcome
    <2> QED BY <1>2, <2>1, <2>2, <2>3, RetireNewKeeps
  <1>4. ASSUME NEW kind, NEW outcome \in EarlyOutcomes, AnsweredEarly(kind, outcome)
        PROVE  IInv' /\ Final
    <2>1. PICK id : RetireNew(NewEntry(id, NoTurn, NoId, FALSE, "none"), outcome, <<>>)
      BY <1>4 DEF AnsweredEarly
    <2>2. UNCHANGED turnVars /\ closed' = closed
      BY <1>4 DEF AnsweredEarly
    <2>3. outcome \in Outcomes
      BY DEF Outcomes, AsksAssumption
    <2> QED BY <1>2, <2>1, <2>2, <2>3, RetireNewKeeps
  <1> QED BY <1>1, <1>3, <1>4 DEF AskStep

\* A section that ends some of the open asks and touches no turn.
LEMMA EndsSomeKeeps ==
  ASSUME IInv, NEW S, S \subseteq OpenAsks, NEW outcome \in Outcomes,
         Retire(asks, S, outcome, <<>>), UNCHANGED turnVars, closed' = closed
  PROVE  IInv' /\ Final
  <1>1. UNCHANGED <<turnVars, closed>>
    OBVIOUS
  <1> QED BY <1>1, OpenStays, RetireKeeps DEF Final

LEMMA WaitStepKeeps ==
  ASSUME IInv, WaitStep
  PROVE  IInv' /\ Final
  <1>1. ASSUME NEW i \in DOMAIN asks, GiveUp(i) \/ Return(i)
        PROVE  IInv' /\ Final
    <2>1. PICK waiter : asks' = [asks EXCEPT ![i].waiter = waiter]
      BY <1>1 DEF GiveUp, Return
    <2>2. UNCHANGED <<open, turnVars, closed>>
      BY <1>1 DEF GiveUp, Return
    <2> QED BY <2>1, <2>2, WaiterKeeps DEF Final
  <1>2. ASSUME NEW i \in DOMAIN asks, CancelByCall(i)
        PROVE  IInv' /\ Final
    <2> DEFINE all == [asks EXCEPT ![i].waiter = "stopping"]
               S == {i} \cap OpenAsks
    <2>1. Retire(all, S, "cancelled", <<>>) /\ UNCHANGED turnVars /\ closed' = closed
      BY <1>2 DEF CancelByCall
    <2>2. /\ IsAsks(all) /\ AllOpen(all) /\ \A j \in DOMAIN all \ S : Booked(all, j)
          /\ DOMAIN all = DOMAIN asks
          /\ \A j \in DOMAIN asks : all[j].token = asks[j].token /\ all[j].outcome = asks[j].outcome
      <3>1. Books
        BY DEF IInv
      <3>2. all = Placed(i, "stopping")
        BY DEF Placed
      <3> HIDE DEF all
      <3> QED BY <3>1, <3>2, Waited
    <2>3. \A j \in S : j \in DOMAIN asks /\ asks[j].outcome = "open"
      BY DEF OpenAsks, IInv, Books, AllOpen
    <2> HIDE DEF all, S
    <2>4. "cancelled" \in Outcomes
      BY DEF Outcomes
    <2>5. /\ Books' /\ DOMAIN asks' = DOMAIN asks
          /\ \A j \in DOMAIN asks : /\ asks'[j].token = asks[j].token
                                    /\ asks'[j].outcome = (IF j \in S THEN "cancelled" ELSE asks[j].outcome)
      BY <2>1, <2>2, <2>4, Retires
    <2>6. UNCHANGED <<turnVars, closed>>
      BY <2>1
    <2>7. Turns' /\ \A j \in DOMAIN asks : asks[j].outcome = "open" => StaysLive(asks[j].token)
      BY <2>6, OpenStays
    <2>8. NoAskOutlivesItsTurn'
      BY <2>5, <2>7 DEF NoAskOutlivesItsTurn, Fate, StaysLive
    <2> QED BY <2>3, <2>5, <2>7, <2>8, TokensKept DEF IInv, Final
  <1> QED BY <1>1, <1>2 DEF WaitStep

-----------------------------------------------------------------------------
(* The theorems *)

LEMMA InitInv == ASSUME AsksAssumption, Init PROVE IInv
  <1>1. asks = <<>> /\ DOMAIN open = {} /\ DOMAIN asks = {}
    BY DEF Init
  <1>2. Books
    <2>1. asks \in Seq(Range(asks))
      BY <1>1
    <2> QED BY <1>1, <2>1 DEF Books, IsAsks, AllOpen
  <1>3. Turns
    BY DEF Init, Turns, TurnStates, AsksAssumption
  <1> QED BY <1>1, <1>2, <1>3 DEF IInv, NoAskOutlivesItsTurn

LEMMA NextInv ==
  ASSUME IInv, AsksAssumption, [Next]_vars
  PROVE  IInv' /\ Final
  <1>1. ASSUME UNCHANGED <<asks, open, turnVars, closed>>
        PROVE  IInv' /\ Final
    <2>1. asks' = asks /\ open' = open /\ turnSeq' = turnSeq /\ turns' = turns /\ retired' = retired
          /\ closed' = closed
      BY <1>1 DEF turnVars
    <2>2. Books'
      BY <2>1 DEF IInv, Books, IsAsks, IsAsk, AllOpen, Booked
    <2>3. Turns' /\ NoAskOutlivesItsTurn'
      BY <2>1 DEF IInv, Turns, NoAskOutlivesItsTurn, Fate
    <2> QED BY <2>1, <2>2, <2>3 DEF IInv, Final
  <1>2. CASE TurnStep
    BY <1>2, TurnStepKeeps
  <1>3. CASE AskStep
    BY <1>3, AskStepKeeps
  <1>4. CASE WaitStep
    BY <1>4, WaitStepKeeps
  <1>5. ASSUME NEW id \in DOMAIN open, Answer(id)
        PROVE  IInv' /\ Final
    <2>1. PICK outcome \in Answers(id.kind) : Retire(asks, {open[id]}, outcome, <<>>)
      BY <1>5 DEF Answer
    <2>2. UNCHANGED turnVars /\ closed' = closed
      BY <1>5 DEF Answer
    <2>3. outcome \in Outcomes /\ {open[id]} \subseteq OpenAsks
      BY DEF Answers, Outcomes, OpenAsks
    <2> QED BY <2>1, <2>2, <2>3, EndsSomeKeeps
  <1>6. CASE Close
    <2>1. Retire(asks, OpenAsks, "closing", <<>>) /\ UNCHANGED turnVars
      BY <1>6 DEF Close
    <2>2. Turns'
      BY <2>1 DEF IInv, Turns, turnVars
    <2> QED BY <2>1, <2>2, EndsAllKeeps DEF Outcomes
  <1>7. CASE CloseLog
    BY <1>1, <1>7 DEF CloseLog
  <1>8. CASE Commit
    BY <1>1, <1>8 DEF Commit
  <1>9. CASE UNCHANGED vars
    BY <1>1, <1>9 DEF vars
  <1>10. CASE Terminated
    BY <1>9, <1>10 DEF Terminated
  <1> QED BY <1>2, <1>3, <1>4, <1>5, <1>6, <1>7, <1>8, <1>9, <1>10 DEF Next

\* An ask that has not ended belongs to a turn that has not, in a session that
\* is open: whatever raced the end of its turn was refused or taken down with it.
THEOREM AsksEndWithTheirTurn == Spec => []NoAskOutlivesItsTurn
  <1>1. Init => IInv
    BY InitInv, AsksAssumption
  <1>2. IInv /\ [Next]_vars => IInv'
    BY NextInv, AsksAssumption
  <1>3. IInv => NoAskOutlivesItsTurn
    BY DEF IInv
  <1> QED BY <1>1, <1>2, <1>3, PTL DEF Spec

\* The first ending of an ask is its only one: a caller that gives up, a second
\* client and a turn's end never replace an answer that was accepted.
THEOREM EndingsAreFinal == Spec => EndingIsFinal
  <1>1. Init => IInv
    BY InitInv, AsksAssumption
  <1>2. IInv /\ [Next]_vars => IInv' /\ Final
    BY NextInv, AsksAssumption
  <1>3. Final => [\A i \in DOMAIN asks : asks[i].outcome # "open" => asks'[i].outcome = asks[i].outcome]_vars
    BY DEF Final
  <1> QED BY <1>1, <1>2, <1>3, PTL DEF Spec, EndingIsFinal

-----------------------------------------------------------------------------
(* Folds, by their last element *)

\* Induction, as the library's theorems on well-founded orders allow it: over
\* a set of numbers.
LEMMA Induction ==
  ASSUME NEW T, 0 \in T, \A n \in Nat : n \in T => n + 1 \in T
  PROVE  \A n \in Nat : n \in T
  <1> DEFINE R == OpToRel(<, Nat)
             U == Nat \ T
  <1>1. IsWellFoundedOn(R, Nat)
    BY NatLessThanWellFounded
  <1>2. R = {ss \in Nat \X Nat : ss[1] < ss[2]}
    BY DEF OpToRel
  <1> HIDE DEF R
  <1>3. ASSUME U # {} PROVE FALSE
    <2>1. PICK x \in U : \A y \in U : ~(<<y, x>> \in R)
      BY <1>1, <1>3, WFMin
    <2>2. x \in Nat /\ x \notin T /\ x # 0
      OBVIOUS
    <2>3. x - 1 \in Nat /\ <<x - 1, x>> \in R /\ x = (x - 1) + 1
      BY <1>2, <2>2
    <2>4. x - 1 \in T
      BY <2>1, <2>3
    <2> QED BY <2>2, <2>3, <2>4
  <1> QED BY <1>3

\* The registry's three folds, told apart by op: the client's over the events,
\* the keeping of endings (of the asks p), and Within (the set p).
Step(op, p, v, x) ==
  IF op = "folded" THEN Folded(v, x)
  ELSE IF op = "kept" THEN Kept(p, v, x)
  ELSE IF x \in p THEN Append(v, x) ELSE v

\* What FoldLeft chooses: the fold over each set of places.
IsFold(op, p, f, n, v, evs) ==
  f = [s \in SUBSET (1..n) |->
         IF s = {} THEN v ELSE Step(op, p, f[s \ {Max(s)}], evs[Max(s)])]

IsTheFold(op, p, f, n, v, evs) ==
  IsFold(op, p, f, n, v, evs) /\ \A h : IsFold(op, p, h, n, v, evs) => h = f

LEMMA MaxOfLast ==
  ASSUME NEW n \in Nat, NEW s \in SUBSET (1..(n + 1)), n + 1 \in s
  PROVE  Max(s) = n + 1
  <1>1. \A x \in s : x \in Nat /\ x <= n + 1
    OBVIOUS
  <1>2. \A x \in s : (\A y \in s : x >= y) => x = n + 1
    BY <1>1
  <1> QED BY <1>1, <1>2 DEF Max

LEMMA OneMorePlace ==
  ASSUME NEW n \in Nat
  PROVE  /\ SUBSET (1..n) \subseteq SUBSET (1..(n + 1))
         /\ \A s \in SUBSET (1..n) : n + 1 \notin s
         /\ \A s \in SUBSET (1..(n + 1)) : n + 1 \notin s => s \in SUBSET (1..n)
         /\ \A s \in SUBSET (1..(n + 1)) :
               n + 1 \in s => s \ {n + 1} \in SUBSET (1..n) /\ Max(s) = n + 1
         /\ \A s \in SUBSET (1..n) : \A x : s \ {x} \in SUBSET (1..n)
         /\ (1..(n + 1)) \ {n + 1} = 1..n
         /\ n + 1 \in 1..(n + 1)
         /\ 1..(n + 1) \in SUBSET (1..(n + 1))
  <1>2. \A x \in 1..(n + 1) : x # n + 1 => x \in 1..n
    OBVIOUS
  <1>3. \A s \in SUBSET (1..(n + 1)) : n + 1 \in s => Max(s) = n + 1
    BY MaxOfLast
  <1>4. \A s \in SUBSET (1..(n + 1)) : n + 1 \in s => s \ {n + 1} \in SUBSET (1..n)
    BY <1>2
  <1>5. \A s \in SUBSET (1..(n + 1)) : n + 1 \notin s => s \in SUBSET (1..n)
    BY <1>2
  <1>6. \A s \in SUBSET (1..n) : \A x : s \ {x} \in SUBSET (1..n)
    OBVIOUS
  <1>7. (1..(n + 1)) \ {n + 1} = 1..n
    OBVIOUS
  <1>8. SUBSET (1..n) \subseteq SUBSET (1..(n + 1)) /\ \A s \in SUBSET (1..n) : n + 1 \notin s
    OBVIOUS
  <1>9. n + 1 \in 1..(n + 1) /\ 1..(n + 1) \in SUBSET (1..(n + 1))
    OBVIOUS
  <1> QED BY <1>3, <1>4, <1>5, <1>6, <1>7, <1>8, <1>9

\* The greatest place of a set of places is one of them.
LEMMA MaxIn == ASSUME NEW n \in Nat, NEW s \in SUBSET (1..n), s # {} PROVE Max(s) \in s
  <1> DEFINE Topped(m) == \A t \in SUBSET (1..m) : t # {} => \E x \in t : \A y \in t : x >= y
             T == {m \in Nat : Topped(m)}
  <1>1. 0 \in T
    <2>1. 1..0 = {}
      OBVIOUS
    <2>2. \A t \in SUBSET {} : t = {}
      OBVIOUS
    <2> QED BY <2>1, <2>2
  <1>2. ASSUME NEW m \in Nat, m \in T PROVE m + 1 \in T
    <2> SUFFICES ASSUME NEW t \in SUBSET (1..(m + 1)), t # {}
                 PROVE  \E x \in t : \A y \in t : x >= y
      OBVIOUS
    <2>1. CASE m + 1 \in t
      <3>1. \A y \in t : m + 1 >= y
        OBVIOUS
      <3> QED BY <2>1, <3>1
    <2>2. CASE m + 1 \notin t
      <3>1. t \in SUBSET (1..m)
        BY <2>2, OneMorePlace
      <3> QED BY <1>2, <3>1
    <2> QED BY <2>1, <2>2
  <1>3. \A m \in Nat : m \in T
    <2> HIDE DEF T
    <2> QED BY <1>1, <1>2, Induction
  <1>4. \E x \in s : \A y \in s : x >= y
    BY <1>3
  <1> QED BY <1>4 DEF Max

\* The fold of n + 1 elements, from that of the first n.
LEMMA TheFoldExtends ==
  ASSUME NEW op, NEW p, NEW v, NEW evs, NEW n \in Nat, NEW g, IsTheFold(op, p, g, n, v, evs)
  PROVE  \E f : IsTheFold(op, p, f, n + 1, v, evs) /\ f[1..(n + 1)] = Step(op, p, g[1..n], evs[n + 1])
  <1> DEFINE T == SUBSET (1..n)
             U == SUBSET (1..(n + 1))
             f == [s \in U |-> IF n + 1 \in s THEN Step(op, p, g[s \ {n + 1}], evs[n + 1]) ELSE g[s]]
  <1>1. /\ T \subseteq U
        /\ \A s \in T : n + 1 \notin s
        /\ \A s \in U : n + 1 \notin s => s \in T
        /\ \A s \in U : n + 1 \in s => s \ {n + 1} \in T /\ Max(s) = n + 1
        /\ \A s \in T : \A x : s \ {x} \in T
        /\ (1..(n + 1)) \ {n + 1} = 1..n
        /\ n + 1 \in 1..(n + 1)
        /\ 1..(n + 1) \in U
    BY OneMorePlace
  <1>2. g = [s \in T |-> IF s = {} THEN v ELSE Step(op, p, g[s \ {Max(s)}], evs[Max(s)])]
    BY DEF IsFold, IsTheFold
  <1> HIDE DEF T, U
  <1>3. f = [s \in U |-> IF s = {} THEN v ELSE Step(op, p, f[s \ {Max(s)}], evs[Max(s)])]
    <2> SUFFICES ASSUME NEW s \in U
                 PROVE  f[s] = IF s = {} THEN v ELSE Step(op, p, f[s \ {Max(s)}], evs[Max(s)])
      OBVIOUS
    <2>1. CASE n + 1 \in s
      BY <1>1, <2>1
    <2>2. CASE n + 1 \notin s
      <3>1. s \in T /\ f[s] = g[s]
        BY <1>1, <2>2
      <3>2. f[s \ {Max(s)}] = g[s \ {Max(s)}]
        BY <1>1, <3>1
      <3> QED BY <1>2, <3>1, <3>2
    <2> QED BY <2>1, <2>2
  <1>4. ASSUME NEW h, h = [s \in U |-> IF s = {} THEN v ELSE Step(op, p, h[s \ {Max(s)}], evs[Max(s)])]
        PROVE  h = f
    <2> DEFINE k == [s \in T |-> h[s]]
    <2>1. k = [s \in T |-> IF s = {} THEN v ELSE Step(op, p, k[s \ {Max(s)}], evs[Max(s)])]
      <3> SUFFICES ASSUME NEW s \in T
                   PROVE  h[s] = IF s = {} THEN v ELSE Step(op, p, k[s \ {Max(s)}], evs[Max(s)])
        OBVIOUS
      <3>1. k[s \ {Max(s)}] = h[s \ {Max(s)}] /\ s \in U
        BY <1>1
      <3> QED BY <1>4, <3>1
    <2>2. IsFold(op, p, k, n, v, evs)
      BY <2>1 DEF IsFold, T
    <2>3. k = g
      BY <2>2 DEF IsTheFold
    <2>4. \A s \in T : h[s] = g[s]
      BY <2>3
    <2> SUFFICES ASSUME NEW s \in U PROVE h[s] = f[s]
      BY <1>4
    <2>5. CASE n + 1 \in s
      <3>1. s # {} /\ Max(s) = n + 1 /\ s \ {n + 1} \in T
        BY <1>1, <2>5
      <3>2. h[s] = Step(op, p, h[s \ {n + 1}], evs[n + 1])
        BY <1>4, <3>1
      <3>3. h[s \ {n + 1}] = g[s \ {n + 1}]
        BY <2>4, <3>1
      <3>4. f[s] = Step(op, p, g[s \ {n + 1}], evs[n + 1])
        BY <2>5
      <3> HIDE DEF f
      <3> QED BY <3>2, <3>3, <3>4
    <2>6. CASE n + 1 \notin s
      BY <1>1, <2>4, <2>6
    <2> QED BY <2>5, <2>6
  <1>5. f[1..(n + 1)] = Step(op, p, g[1..n], evs[n + 1])
    BY <1>1
  <1> HIDE DEF f
  <1>6. IsTheFold(op, p, f, n + 1, v, evs)
    BY <1>3, <1>4 DEF IsFold, IsTheFold, U
  <1> QED BY <1>5, <1>6

LEMMA TheFoldOfNothing == ASSUME NEW op, NEW p, NEW v, NEW evs PROVE \E f : IsTheFold(op, p, f, 0, v, evs) /\ f[1..0] = v
  <1> DEFINE f == [s \in {{}} |-> v]
  <1>1. SUBSET (1..0) = {{}} /\ 1..0 = {}
    OBVIOUS
  <1>2. IsFold(op, p, f, 0, v, evs)
    BY <1>1 DEF IsFold
  <1>3. \A h : IsFold(op, p, h, 0, v, evs) => h = f
    BY <1>1 DEF IsFold
  <1>4. f[1..0] = v
    BY <1>1
  <1> QED BY <1>2, <1>3, <1>4 DEF IsTheFold

LEMMA TheFoldExists == ASSUME NEW op, NEW p, NEW v, NEW evs PROVE \A n \in Nat : \E f : IsTheFold(op, p, f, n, v, evs)
  <1> DEFINE T == {n \in Nat : \E f : IsTheFold(op, p, f, n, v, evs)}
  <1>1. 0 \in T
    BY TheFoldOfNothing
  <1>2. ASSUME NEW n \in Nat, n \in T PROVE n + 1 \in T
    BY <1>2, TheFoldExtends
  <1> HIDE DEF T
  <1>3. \A n \in Nat : n \in T
    BY <1>1, <1>2, Induction
  <1> QED BY <1>3 DEF T

Result(op, p, v, evs) == (CHOOSE f : IsFold(op, p, f, Len(evs), v, evs))[1..Len(evs)]

LEMMA TheResult ==
  ASSUME NEW op, NEW p, NEW v, NEW evs, Len(evs) \in Nat, NEW g, IsTheFold(op, p, g, Len(evs), v, evs)
  PROVE  Result(op, p, v, evs) = g[1..Len(evs)]
  <1> DEFINE G == CHOOSE f : IsFold(op, p, f, Len(evs), v, evs)
  <1>1. IsFold(op, p, G, Len(evs), v, evs)
    <2> HIDE DEF IsFold
    <2> QED BY DEF IsTheFold
  <1>2. G = g
    BY <1>1 DEF IsTheFold
  <1> QED BY <1>2 DEF Result

FoldAll(v, evs) == FoldLeft(Folded, v, evs)
KeepAll(all, k, q) == FoldLeft(LAMBDA j, i : Kept(all, j, i), k, q)

LEMMA ResultOfNothing == ASSUME NEW op, NEW p, NEW v PROVE Result(op, p, v, <<>>) = v
  <1>1. Len(<<>>) = 0
    OBVIOUS
  <1> QED BY <1>1, TheFoldOfNothing, TheResult

LEMMA ResultOfAppend ==
  ASSUME NEW op, NEW p, NEW v, NEW S, NEW evs \in Seq(S), NEW ev \in S
  PROVE  Result(op, p, v, Append(evs, ev)) = Step(op, p, Result(op, p, v, evs), ev)
  <1> DEFINE n == Len(evs)
             more == Append(evs, ev)
  <1>1. /\ n \in Nat /\ Len(more) = n + 1
        /\ \A i \in 1..n : more[i] = evs[i]
        /\ more[n + 1] = ev
    OBVIOUS
  <1> HIDE DEF more
  <1>2. PICK g : IsTheFold(op, p, g, n, v, more)
    BY <1>1, TheFoldExists
  <1>3. PICK f : IsTheFold(op, p, f, n + 1, v, more) /\ f[1..(n + 1)] = Step(op, p, g[1..n], more[n + 1])
    <2>1. n \in Nat
      BY <1>1
    <2> HIDE DEF n
    <2> QED BY <2>1, <1>2, TheFoldExtends
  <1>4. ASSUME NEW h PROVE IsFold(op, p, h, n, v, evs) <=> IsFold(op, p, h, n, v, more)
    <2>1. ASSUME NEW s \in SUBSET (1..n), s # {}
          PROVE  evs[Max(s)] = more[Max(s)]
      <3>1. Max(s) \in 1..n
        BY <1>1, <2>1, MaxIn
      <3> QED BY <1>1, <3>1
    <2> QED BY <2>1 DEF IsFold
  <1>5. IsTheFold(op, p, g, n, v, evs)
    BY <1>2, <1>4 DEF IsTheFold
  <1>6. Result(op, p, v, evs) = g[1..n] /\ Result(op, p, v, more) = f[1..(n + 1)]
    <2>1. Len(more) \in Nat /\ IsTheFold(op, p, f, Len(more), v, more)
      BY <1>1, <1>3
    <2> QED BY <1>1, <1>5, <2>1, TheResult
  <1> QED BY <1>1, <1>3, <1>6 DEF more

LEMMA FoldAllResult ==
  ASSUME NEW v, NEW S, NEW evs \in Seq(S)
  PROVE  FoldAll(v, evs) = Result("folded", {}, v, evs)
  <1> DEFINE n == Len(evs)
             Is(f) == f = [s \in SUBSET (1..n) |->
                             IF s = {} THEN v ELSE Folded(f[s \ {Max(s)}], evs[Max(s)])]
             G == CHOOSE f : Is(f)
  <1>1. n \in Nat /\ DOMAIN evs = 1..n
    OBVIOUS
  <1>2. FoldAll(v, evs) = G[1..n]
    BY <1>1 DEF FoldAll, FoldLeft, MapThenFoldSet
  <1>3. \A f : Is(f) <=> IsFold("folded", {}, f, n, v, evs)
    BY DEF IsFold, Step
  <1> HIDE DEF Is
  <1>4. PICK g : IsTheFold("folded", {}, g, n, v, evs)
    BY <1>1, TheFoldExists
  <1>5. Is(G)
    BY <1>3, <1>4 DEF IsTheFold
  <1>6. G = g
    BY <1>3, <1>4, <1>5 DEF IsTheFold
  <1> HIDE DEF G
  <1>7. Result("folded", {}, v, evs) = g[1..n]
    BY <1>1, <1>4, TheResult
  <1> QED BY <1>2, <1>6, <1>7

LEMMA KeepAllResult ==
  ASSUME NEW all, NEW v, NEW S, NEW evs \in Seq(S)
  PROVE  KeepAll(all, v, evs) = Result("kept", all, v, evs)
  <1> DEFINE n == Len(evs)
             Is(f) == f = [s \in SUBSET (1..n) |->
                             IF s = {} THEN v ELSE Kept(all, f[s \ {Max(s)}], evs[Max(s)])]
             G == CHOOSE f : Is(f)
  <1>1. n \in Nat /\ DOMAIN evs = 1..n
    OBVIOUS
  <1>2. KeepAll(all, v, evs) = G[1..n]
    BY <1>1 DEF KeepAll, FoldLeft, MapThenFoldSet
  <1>3. \A f : Is(f) <=> IsFold("kept", all, f, n, v, evs)
    BY DEF IsFold, Step
  <1> HIDE DEF Is
  <1>4. PICK g : IsTheFold("kept", all, g, n, v, evs)
    BY <1>1, TheFoldExists
  <1>5. Is(G)
    BY <1>3, <1>4 DEF IsTheFold
  <1>6. G = g
    BY <1>3, <1>4, <1>5 DEF IsTheFold
  <1> HIDE DEF G
  <1>7. Result("kept", all, v, evs) = g[1..n]
    BY <1>1, <1>4, TheResult
  <1> QED BY <1>2, <1>6, <1>7

LEMMA WithinResult ==
  ASSUME NEW P, NEW S, NEW evs \in Seq(S)
  PROVE  Within(evs, P) = Result("within", P, <<>>, evs)
  <1> DEFINE n == Len(evs)
             Is(f) == f = [s \in SUBSET (1..n) |->
                             IF s = {} THEN <<>> ELSE IF evs[Max(s)] \in P THEN Append(f[s \ {Max(s)}], evs[Max(s)]) ELSE f[s \ {Max(s)}]]
             G == CHOOSE f : Is(f)
  <1>1. n \in Nat /\ DOMAIN evs = 1..n
    OBVIOUS
  <1>2. Within(evs, P) = G[1..n]
    BY <1>1 DEF Within, FoldLeft, MapThenFoldSet
  <1>3. \A f : Is(f) <=> IsFold("within", P, f, n, <<>>, evs)
    BY DEF IsFold, Step
  <1> HIDE DEF Is
  <1>4. PICK g : IsTheFold("within", P, g, n, <<>>, evs)
    BY <1>1, TheFoldExists
  <1>5. Is(G)
    BY <1>3, <1>4 DEF IsTheFold
  <1>6. G = g
    BY <1>3, <1>4, <1>5 DEF IsTheFold
  <1> HIDE DEF G
  <1>7. Result("within", P, <<>>, evs) = g[1..n]
    BY <1>1, <1>4, TheResult
  <1> QED BY <1>2, <1>6, <1>7

LEMMA LastApart ==
  ASSUME NEW S, NEW t \in Seq(S), NEW n \in Nat, Len(t) = n + 1
  PROVE  /\ SubSeq(t, 1, n) \in Seq(S) /\ Len(SubSeq(t, 1, n)) = n /\ t[n + 1] \in S
         /\ t = Append(SubSeq(t, 1, n), t[n + 1])
  <1> DEFINE f == SubSeq(t, 1, n)
             ev == t[n + 1]
  <1>1. f \in Seq(S) /\ Len(f) = n /\ ev \in S /\ \A i \in 1..n : f[i] = t[i]
    OBVIOUS
  <1>2. Append(f, ev) \in Seq(S) /\ Len(Append(f, ev)) = n + 1
    BY <1>1
  <1>3. \A i \in 1..(n + 1) : Append(f, ev)[i] = t[i]
    BY <1>1
  <1> HIDE DEF f, ev
  <1>4. t = Append(f, ev)
    BY <1>2, <1>3, SeqEqual
  <1> QED BY <1>1, <1>4

LEMMA FoldNothing == ASSUME NEW v PROVE FoldAll(v, <<>>) = v
  <1>1. <<>> \in Seq(Nat)
    OBVIOUS
  <1>2. FoldAll(v, <<>>) = Result("folded", {}, v, <<>>)
    BY <1>1, FoldAllResult
  <1> QED BY <1>2, ResultOfNothing

LEMMA FoldAppend ==
  ASSUME NEW v, NEW S, NEW evs \in Seq(S), NEW ev \in S
  PROVE  FoldAll(v, Append(evs, ev)) = Folded(FoldAll(v, evs), ev)
  <1>1. Append(evs, ev) \in Seq(S)
    OBVIOUS
  <1>2. FoldAll(v, evs) = Result("folded", {}, v, evs)
    BY FoldAllResult
  <1>3. FoldAll(v, Append(evs, ev)) = Result("folded", {}, v, Append(evs, ev))
    BY <1>1, FoldAllResult
  <1>4. Result("folded", {}, v, Append(evs, ev)) = Step("folded", {}, Result("folded", {}, v, evs), ev)
    BY ResultOfAppend
  <1> QED BY <1>2, <1>3, <1>4 DEF Step

LEMMA FoldOne == ASSUME NEW v, NEW S, NEW ev \in S PROVE FoldAll(v, <<ev>>) = Folded(v, ev)
  <1>1. <<>> \in Seq(S) /\ Append(<<>>, ev) = <<ev>>
    OBVIOUS
  <1>2. FoldAll(v, Append(<<>>, ev)) = Folded(FoldAll(v, <<>>), ev)
    BY <1>1, FoldAppend
  <1> QED BY <1>1, <1>2, FoldNothing

LEMMA KeepNothing == ASSUME NEW all, NEW k PROVE KeepAll(all, k, <<>>) = k
  <1>1. <<>> \in Seq(Nat)
    OBVIOUS
  <1>2. KeepAll(all, k, <<>>) = Result("kept", all, k, <<>>)
    BY <1>1, KeepAllResult
  <1> QED BY <1>2, ResultOfNothing

LEMMA KeepAppend ==
  ASSUME NEW all, NEW k, NEW S, NEW q \in Seq(S), NEW i \in S
  PROVE  KeepAll(all, k, Append(q, i)) = Kept(all, KeepAll(all, k, q), i)
  <1>1. Append(q, i) \in Seq(S)
    OBVIOUS
  <1>2. KeepAll(all, k, q) = Result("kept", all, k, q)
    BY KeepAllResult
  <1>3. KeepAll(all, k, Append(q, i)) = Result("kept", all, k, Append(q, i))
    BY <1>1, KeepAllResult
  <1>4. Result("kept", all, k, Append(q, i)) = Step("kept", all, Result("kept", all, k, q), i)
    BY ResultOfAppend
  <1> QED BY <1>2, <1>3, <1>4 DEF Step

LEMMA WithinNothing == ASSUME NEW P PROVE Within(<<>>, P) = <<>>
  <1>1. <<>> \in Seq(Nat)
    OBVIOUS
  <1>2. Within(<<>>, P) = Result("within", P, <<>>, <<>>)
    BY <1>1, WithinResult
  <1> QED BY <1>2, ResultOfNothing

LEMMA WithinAppend ==
  ASSUME NEW P, NEW S, NEW s \in Seq(S), NEW x \in S
  PROVE  Within(Append(s, x), P) = IF x \in P THEN Append(Within(s, P), x) ELSE Within(s, P)
  <1>1. Append(s, x) \in Seq(S)
    OBVIOUS
  <1>2. Within(s, P) = Result("within", P, <<>>, s)
    BY WithinResult
  <1>3. Within(Append(s, x), P) = Result("within", P, <<>>, Append(s, x))
    BY <1>1, WithinResult
  <1>4. Result("within", P, <<>>, Append(s, x)) = Step("within", P, Result("within", P, <<>>, s), x)
    BY ResultOfAppend
  <1> QED BY <1>2, <1>3, <1>4 DEF Step

\* A batch is folded part by part.
LEMMA FoldConcat ==
  ASSUME NEW v, NEW S, NEW s \in Seq(S), NEW t \in Seq(S)
  PROVE  FoldAll(v, s \o t) = FoldAll(FoldAll(v, s), t)
  <1> DEFINE Parts(n) == \A r \in Seq(S) : Len(r) = n => FoldAll(v, s \o r) = FoldAll(FoldAll(v, s), r)
             T == {n \in Nat : Parts(n)}
  <1>1. Parts(0)
    <2> SUFFICES ASSUME NEW r \in Seq(S), Len(r) = 0
                 PROVE  FoldAll(v, s \o r) = FoldAll(FoldAll(v, s), r)
      OBVIOUS
    <2>1. r = <<>> /\ s \o <<>> = s
      OBVIOUS
    <2> QED BY <2>1, FoldNothing
  <1>2. ASSUME NEW n \in Nat, Parts(n) PROVE Parts(n + 1)
    <2> SUFFICES ASSUME NEW r \in Seq(S), Len(r) = n + 1
                 PROVE  FoldAll(v, s \o r) = FoldAll(FoldAll(v, s), r)
      OBVIOUS
    <2> DEFINE f == SubSeq(r, 1, n)
               ev == r[n + 1]
    <2>1. f \in Seq(S) /\ Len(f) = n /\ ev \in S /\ r = Append(f, ev)
      BY LastApart
    <2> HIDE DEF f, ev
    <2> DEFINE g == s \o f
    <2>2. s \o r = Append(g, ev) /\ g \in Seq(S)
      BY <2>1
    <2>3. FoldAll(v, g) = FoldAll(FoldAll(v, s), f)
      BY <1>2, <2>1
    <2> HIDE DEF g
    <2>4. FoldAll(v, Append(g, ev)) = Folded(FoldAll(v, g), ev)
      BY <2>1, <2>2, FoldAppend
    <2>5. FoldAll(FoldAll(v, s), Append(f, ev)) = Folded(FoldAll(FoldAll(v, s), f), ev)
      BY <2>1, FoldAppend
    <2> QED BY <2>1, <2>2, <2>3, <2>4, <2>5
  <1> HIDE DEF Parts
  <1>3. \A n \in Nat : n \in T
    <2>1. 0 \in T /\ \A n \in Nat : n \in T => n + 1 \in T
      BY <1>1, <1>2
    <2> HIDE DEF T
    <2> QED BY <2>1, Induction
  <1>4. Parts(Len(t))
    BY <1>3
  <1> QED BY <1>4 DEF Parts

\* Within takes its elements from the sequence.
LEMMA WithinTyped ==
  ASSUME NEW P, NEW S, NEW s \in Seq(S)
  PROVE  Within(s, P) \in Seq(S \cap P)
  <1> DEFINE Typed(n) == \A r \in Seq(S) : Len(r) = n => Within(r, P) \in Seq(S \cap P)
             T == {n \in Nat : Typed(n)}
  <1>1. Typed(0)
    <2> SUFFICES ASSUME NEW r \in Seq(S), Len(r) = 0 PROVE Within(r, P) \in Seq(S \cap P)
      OBVIOUS
    <2>1. r = <<>> /\ <<>> \in Seq(S \cap P)
      OBVIOUS
    <2> QED BY <2>1, WithinNothing
  <1>2. ASSUME NEW n \in Nat, Typed(n) PROVE Typed(n + 1)
    <2> SUFFICES ASSUME NEW r \in Seq(S), Len(r) = n + 1 PROVE Within(r, P) \in Seq(S \cap P)
      OBVIOUS
    <2> DEFINE f == SubSeq(r, 1, n)
               x == r[n + 1]
    <2>1. f \in Seq(S) /\ Len(f) = n /\ x \in S /\ r = Append(f, x)
      BY LastApart
    <2> HIDE DEF f, x
    <2>2. Within(f, P) \in Seq(S \cap P)
      BY <1>2, <2>1
    <2>3. Within(r, P) = IF x \in P THEN Append(Within(f, P), x) ELSE Within(f, P)
      BY <2>1, WithinAppend
    <2> QED BY <2>1, <2>2, <2>3
  <1> HIDE DEF Typed
  <1>3. \A n \in Nat : n \in T
    <2>1. 0 \in T /\ \A n \in Nat : n \in T => n + 1 \in T
      BY <1>1, <1>2
    <2> HIDE DEF T
    <2> QED BY <2>1, Induction
  <1>4. Typed(Len(s))
    BY <1>3
  <1> QED BY <1>4 DEF Typed

-----------------------------------------------------------------------------
(* Asks in the order they were opened *)

Upto(n) == [i \in 1..n |-> i]
Picked(n, S) == Within(Upto(n), S)

LEMMA PickedNext ==
  ASSUME NEW S
  PROVE  /\ Picked(0, S) = <<>>
         /\ \A n \in Nat : Picked(n + 1, S) = IF n + 1 \in S THEN Append(Picked(n, S), n + 1) ELSE Picked(n, S)
  <1>1. Upto(0) = <<>>
    BY DEF Upto
  <1>2. ASSUME NEW n \in Nat PROVE Upto(n) \in Seq(Nat) /\ Upto(n + 1) = Append(Upto(n), n + 1)
    <2>1. Upto(n) \in Seq(Nat) /\ Len(Upto(n)) = n /\ Upto(n + 1) \in Seq(Nat) /\ Len(Upto(n + 1)) = n + 1
      BY DEF Upto
    <2>2. \A i \in 1..(n + 1) : Append(Upto(n), n + 1)[i] = Upto(n + 1)[i]
      BY <2>1 DEF Upto
    <2>3. Append(Upto(n), n + 1) \in Seq(Nat) /\ Len(Append(Upto(n), n + 1)) = n + 1
      BY <2>1
    <2> QED BY <2>1, <2>2, <2>3, SeqEqual
  <1>3. ASSUME NEW n \in Nat
        PROVE  Picked(n + 1, S) = IF n + 1 \in S THEN Append(Picked(n, S), n + 1) ELSE Picked(n, S)
    <2> DEFINE u == Upto(n)
    <2>1. u \in Seq(Nat) /\ Upto(n + 1) = Append(u, n + 1)
      BY <1>2
    <2> HIDE DEF u
    <2>2. \A x \in Nat : Within(Append(u, x), S) = IF x \in S THEN Append(Within(u, S), x) ELSE Within(u, S)
      BY <2>1, WithinAppend
    <2>3. n + 1 \in Nat
      OBVIOUS
    <2> QED BY <2>1, <2>2, <2>3 DEF Picked, u
  <1> QED BY <1>1, <1>3, WithinNothing DEF Picked

\* They are the members of S up to n, each once and in order.
IsPicked(q, n, S) ==
  /\ q \in Seq(1..n) /\ Len(q) \in Nat
  /\ \A j \in 1..Len(q) : q[j] \in S
  /\ \A i \in S \cap (1..n) : \E j \in 1..Len(q) : q[j] = i
  /\ \A j, k \in 1..Len(q) : j < k => q[j] < q[k]

LEMMA PickedIs == ASSUME NEW S, NEW n \in Nat PROVE IsPicked(Picked(n, S), n, S)
  <1> DEFINE T == {m \in Nat : IsPicked(Picked(m, S), m, S)}
  <1>1. 0 \in T
    <2>1. 1..0 = {} /\ <<>> \in Seq({}) /\ Len(<<>>) = 0
      OBVIOUS
    <2>2. IsPicked(<<>>, 0, S)
      BY <2>1 DEF IsPicked
    <2> QED BY <2>2, PickedNext
  <1>2. ASSUME NEW m \in Nat, IsPicked(Picked(m, S), m, S) PROVE IsPicked(Picked(m + 1, S), m + 1, S)
    <2> DEFINE q == Picked(m, S)
               r == Picked(m + 1, S)
    <2>1. r = IF m + 1 \in S THEN Append(q, m + 1) ELSE q
      BY PickedNext
    <2>2. IsPicked(q, m, S)
      BY <1>2
    <2> SUFFICES IsPicked(r, m + 1, S)
      OBVIOUS
    <2> HIDE DEF q, r
    <2>3. CASE m + 1 \in S
      <3>1. /\ r \in Seq(1..(m + 1)) /\ Len(r) = Len(q) + 1 /\ Len(q) \in Nat
            /\ \A j \in 1..Len(q) : r[j] = q[j] /\ q[j] \in 1..m
            /\ r[Len(q) + 1] = m + 1
        <4>1. q \in Seq(1..(m + 1)) /\ r = Append(q, m + 1) /\ m + 1 \in 1..(m + 1)
          BY <2>1, <2>2, <2>3 DEF IsPicked
        <4> QED BY <2>2, <4>1 DEF IsPicked
      <3>2. \A j \in 1..Len(r) : j \in 1..Len(q) \/ j = Len(q) + 1
        BY <3>1
      <3>3. \A j \in 1..Len(r) : r[j] \in S
        BY <2>2, <2>3, <3>1, <3>2 DEF IsPicked
      <3>4. \A i \in S \cap (1..(m + 1)) : \E j \in 1..Len(r) : r[j] = i
        <4> SUFFICES ASSUME NEW i \in S \cap (1..(m + 1)) PROVE \E j \in 1..Len(r) : r[j] = i
          OBVIOUS
        <4>1. CASE i = m + 1
          BY <3>1, <4>1
        <4>2. CASE i # m + 1
          <5>1. i \in S \cap (1..m)
            BY <4>2
          <5>2. PICK j \in 1..Len(q) : q[j] = i
            BY <2>2, <5>1 DEF IsPicked
          <5> QED BY <3>1, <5>2
        <4> QED BY <4>1, <4>2
      <3>5. \A j, k \in 1..Len(r) : j < k => r[j] < r[k]
        <4> SUFFICES ASSUME NEW j \in 1..Len(r), NEW k \in 1..Len(r), j < k PROVE r[j] < r[k]
          OBVIOUS
        <4>1. j \in 1..Len(q)
          BY <3>1
        <4>2. CASE k = Len(q) + 1
          BY <3>1, <4>1, <4>2
        <4>3. CASE k \in 1..Len(q)
          BY <2>2, <3>1, <4>1, <4>3 DEF IsPicked
        <4> QED BY <3>2, <4>2, <4>3
      <3> QED BY <3>1, <3>3, <3>4, <3>5 DEF IsPicked
    <2>4. CASE m + 1 \notin S
      <3>1. r = q /\ q \in Seq(1..(m + 1)) /\ S \cap (1..(m + 1)) = S \cap (1..m)
        BY <2>1, <2>2, <2>4 DEF IsPicked
      <3> QED BY <2>2, <3>1 DEF IsPicked
    <2> QED BY <2>3, <2>4
  <1>3. \A m \in Nat : m \in T
    <2>1. \A m \in Nat : m \in T => m + 1 \in T
      BY <1>2
    <2> HIDE DEF T
    <2> QED BY <1>1, <2>1, Induction
  <1> QED BY <1>3

-----------------------------------------------------------------------------
(* What a client shows *)

\* The ids of the asks T among the first n, as the client has them.
Told(all, n, T) == [j \in DOMAIN Picked(n, T) |-> all[Picked(n, T)[j]].id]

IdsUpto(all, n) == \A i \in 1..n : all[i].id \in Ids

LEMMA ToldNext ==
  ASSUME NEW all, NEW T
  PROVE  /\ Told(all, 0, T) = <<>>
         /\ \A n \in Nat : Told(all, n + 1, T) = IF n + 1 \in T THEN Append(Told(all, n, T), all[n + 1].id)
                                                 ELSE Told(all, n, T)
  <1>1. Told(all, 0, T) = <<>>
    <2>1. Picked(0, T) = <<>> /\ DOMAIN <<>> = {}
      BY PickedNext
    <2> QED BY <2>1 DEF Told
  <1>2. ASSUME NEW n \in Nat
        PROVE  Told(all, n + 1, T) = IF n + 1 \in T THEN Append(Told(all, n, T), all[n + 1].id)
                                     ELSE Told(all, n, T)
    <2> DEFINE q == Picked(n, T)
               r == Picked(n + 1, T)
    <2>1. r = IF n + 1 \in T THEN Append(q, n + 1) ELSE q
      BY PickedNext
    <2>2. q \in Seq(1..n) /\ Len(q) \in Nat
      BY PickedIs DEF IsPicked
    <2>3. CASE n + 1 \in T
      <3> DEFINE v == [j \in DOMAIN q |-> all[q[j]].id]
                 w == [j \in DOMAIN r |-> all[r[j]].id]
                 S == {all[i].id : i \in 1..(n + 1)}
      <3> HIDE DEF q, r
      <3>1. /\ DOMAIN q = 1..Len(q) /\ DOMAIN r = 1..(Len(q) + 1)
            /\ \A j \in 1..Len(q) : r[j] = q[j] /\ q[j] \in 1..(n + 1)
            /\ r[Len(q) + 1] = n + 1
        BY <2>1, <2>2, <2>3
      <3>2. /\ v \in Seq(S) /\ Len(v) = Len(q)
            /\ \A j \in 1..Len(q) : v[j] = all[q[j]].id
        BY <2>2, <3>1
      <3>3. /\ w \in Seq(S) /\ Len(w) = Len(q) + 1
            /\ \A j \in 1..(Len(q) + 1) : w[j] = all[r[j]].id
        <4>1. \A j \in 1..(Len(q) + 1) : all[r[j]].id \in S
          <5>1. \A j \in 1..(Len(q) + 1) : j \in 1..Len(q) \/ j = Len(q) + 1
            BY <2>2
          <5> QED BY <3>1, <5>1
        <4> QED BY <2>2, <3>1, <4>1
      <3>4. all[n + 1].id \in S
        OBVIOUS
      <3> HIDE DEF v, w, S
      <3>5. Append(v, all[n + 1].id) \in Seq(S) /\ Len(Append(v, all[n + 1].id)) = Len(q) + 1
        BY <2>2, <3>2, <3>4
      <3>6. \A j \in 1..(Len(q) + 1) : Append(v, all[n + 1].id)[j] = w[j]
        <4> SUFFICES ASSUME NEW j \in 1..(Len(q) + 1) PROVE Append(v, all[n + 1].id)[j] = w[j]
          OBVIOUS
        <4>1. CASE j \in 1..Len(q)
          BY <2>2, <3>1, <3>2, <3>3, <3>4, <4>1
        <4>2. CASE j = Len(q) + 1
          <5>1. w[Len(q) + 1] = all[n + 1].id
            BY <2>2, <3>1, <3>3
          <5>2. Append(v, all[n + 1].id)[Len(v) + 1] = all[n + 1].id
            BY <3>2, <3>4, AppendProperties
          <5> QED BY <3>2, <4>2, <5>1, <5>2
        <4>3. j \in 1..Len(q) \/ j = Len(q) + 1
          BY <2>2
        <4> QED BY <4>1, <4>2, <4>3
      <3>7. w = Append(v, all[n + 1].id)
        BY <3>3, <3>5, <3>6, SeqEqual
      <3> QED BY <2>3, <3>7 DEF Told, v, w, q, r
    <2>4. CASE n + 1 \notin T
      BY <2>1, <2>4 DEF Told
    <2> QED BY <2>3, <2>4
  <1> QED BY <1>1, <1>2

LEMMA ToldIs ==
  ASSUME NEW all, NEW n \in Nat, NEW T, IdsUpto(all, n)
  PROVE  /\ Told(all, n, T) \in Seq(Ids)
         /\ Range(Told(all, n, T)) = {all[i].id : i \in T \cap (1..n)}
  <1> DEFINE q == Picked(n, T)
             v == [j \in DOMAIN q |-> all[q[j]].id]
  <1>1. IsPicked(q, n, T)
    BY PickedIs
  <1> HIDE DEF q
  <1>2. DOMAIN q = 1..Len(q) /\ Len(q) \in Nat /\ \A j \in 1..Len(q) : q[j] \in T \cap (1..n)
    BY <1>1 DEF IsPicked
  <1>3. \A j \in 1..Len(q) : v[j] \in Ids
    BY <1>2 DEF IdsUpto
  <1>4. v \in Seq(Ids)
    BY <1>2, <1>3
  <1>5. Range(v) = {all[i].id : i \in T \cap (1..n)}
    <2>1. \A i \in T \cap (1..n) : \E j \in 1..Len(q) : q[j] = i
      BY <1>1 DEF IsPicked
    <2> QED BY <1>2, <2>1 DEF Range
  <1> QED BY <1>4, <1>5 DEF Told, q

\* It depends only on the asks' ids, and on which of the first n are in T.
LEMMA ToldSame ==
  ASSUME NEW all, NEW als, NEW n \in Nat, NEW T, NEW U, T \cap (1..n) = U \cap (1..n),
         \A i \in T \cap (1..n) : als[i].id = all[i].id
  PROVE  Told(als, n, U) = Told(all, n, T)
  <1> DEFINE S == {m \in Nat : m <= n => Told(als, m, U) = Told(all, m, T)}
  <1>1. 0 \in S
    BY ToldNext
  <1>2. ASSUME NEW m \in Nat, m \in S PROVE m + 1 \in S
    <2> SUFFICES ASSUME m + 1 <= n PROVE Told(als, m + 1, U) = Told(all, m + 1, T)
      OBVIOUS
    <2>1. Told(als, m, U) = Told(all, m, T)
      BY <1>2
    <2>2. m + 1 \in 1..n
      OBVIOUS
    <2>3. m + 1 \in T <=> m + 1 \in U
      BY <2>2
    <2>4. Told(all, m + 1, T) = IF m + 1 \in T THEN Append(Told(all, m, T), all[m + 1].id) ELSE Told(all, m, T)
      BY ToldNext
    <2>5. Told(als, m + 1, U) = IF m + 1 \in U THEN Append(Told(als, m, U), als[m + 1].id) ELSE Told(als, m, U)
      BY ToldNext
    <2>6. m + 1 \in T => als[m + 1].id = all[m + 1].id
      BY <2>2
    <2> QED BY <2>1, <2>3, <2>4, <2>5, <2>6
  <1>3. \A m \in Nat : m \in S
    <2> HIDE DEF S
    <2> QED BY <1>1, <1>2, Induction
  <1> QED BY <1>3

\* What is left of it when only the ids in P are.
LEMMA ToldWithin ==
  ASSUME NEW all, NEW n \in Nat, NEW T, NEW U, NEW P, IdsUpto(all, n),
         \A j \in 1..n : j \in U <=> j \in T /\ all[j].id \in P
  PROVE  Within(Told(all, n, T), P) = Told(all, n, U)
  <1> DEFINE S == {m \in Nat : m <= n => Within(Told(all, m, T), P) = Told(all, m, U)}
  <1>1. 0 \in S
    BY ToldNext, WithinNothing
  <1>2. ASSUME NEW m \in Nat, m \in S PROVE m + 1 \in S
    <2> SUFFICES ASSUME m + 1 <= n
                 PROVE  Within(Told(all, m + 1, T), P) = Told(all, m + 1, U)
      OBVIOUS
    <2> DEFINE v == Told(all, m, T)
               d == all[m + 1].id
    <2>1. Within(v, P) = Told(all, m, U)
      BY <1>2
    <2>2. m + 1 \in 1..n /\ d \in Ids /\ IdsUpto(all, m)
      BY DEF IdsUpto
    <2>3. v \in Seq(Ids)
      BY <2>2, ToldIs
    <2>4. Told(all, m + 1, T) = IF m + 1 \in T THEN Append(v, d) ELSE v
      BY ToldNext
    <2>5. Told(all, m + 1, U) = IF m + 1 \in U THEN Append(Told(all, m, U), d) ELSE Told(all, m, U)
      BY ToldNext
    <2>6. m + 1 \in U <=> m + 1 \in T /\ d \in P
      BY <2>2
    <2> HIDE DEF v, d
    <2>7. Within(Append(v, d), P) = IF d \in P THEN Append(Within(v, P), d) ELSE Within(v, P)
      BY <2>2, <2>3, WithinAppend
    <2>8. CASE m + 1 \in T
      BY <2>1, <2>4, <2>5, <2>6, <2>7, <2>8
    <2>9. CASE m + 1 \notin T
      BY <2>1, <2>4, <2>5, <2>6, <2>9
    <2> QED BY <2>8, <2>9
  <1>3. \A m \in Nat : m \in S
    <2> HIDE DEF S
    <2> QED BY <1>1, <1>2, Induction
  <1> QED BY <1>3

AskEvent == [id : Ids, opening : BOOLEAN, body : BOOLEAN]

\* Each ending carries the body exactly when its opening is not shown by then.
Bodied(v, evs) ==
  \A k \in 1..Len(evs) :
    ~evs[k].opening => (evs[k].body <=> evs[k].id \notin Range(FoldAll(v, SubSeq(evs, 1, k - 1))))

\* A client at v that folds the events out shows the asks T of the first n.
Shows(v, out, all, n, T) ==
  out \in Seq(AskEvent) /\ FoldAll(v, out) = Told(all, n, T) /\ Bodied(v, out)

LEMMA BodiedAppend ==
  ASSUME NEW v, NEW out \in Seq(AskEvent), NEW ev \in AskEvent, Bodied(v, out),
         ~ev.opening => (ev.body <=> ev.id \notin Range(FoldAll(v, out)))
  PROVE  Bodied(v, Append(out, ev))
  <1> DEFINE more == Append(out, ev)
             n == Len(out)
  <1>1. /\ more \in Seq(AskEvent) /\ Len(more) = n + 1 /\ n \in Nat
        /\ \A k \in 1..n : more[k] = out[k]
        /\ more[n + 1] = ev
    OBVIOUS
  <1>2. ASSUME NEW k \in 1..(n + 1) PROVE SubSeq(more, 1, k - 1) = SubSeq(out, 1, k - 1)
    <2>1. \A j \in 1..(k - 1) : j \in 1..n /\ more[j] = out[j]
      BY <1>1
    <2>2. SubSeq(more, 1, k - 1) = [j \in 1..(k - 1) |-> more[j]]
      BY <1>1
    <2>3. SubSeq(out, 1, k - 1) = [j \in 1..(k - 1) |-> out[j]]
      BY <1>1
    <2> QED BY <2>1, <2>2, <2>3
  <1>3. SubSeq(out, 1, n) = out
    OBVIOUS
  <1> HIDE DEF more
  <1> SUFFICES ASSUME NEW k \in 1..(n + 1), ~more[k].opening
               PROVE  more[k].body <=> more[k].id \notin Range(FoldAll(v, SubSeq(more, 1, k - 1)))
    BY <1>1 DEF Bodied, more
  <1>4. CASE k \in 1..n
    BY <1>1, <1>2, <1>4 DEF Bodied
  <1>5. CASE k = n + 1
    <2>1. k - 1 = n /\ more[k] = ev
      BY <1>1, <1>5
    <2>2. SubSeq(more, 1, k - 1) = out
      BY <1>2, <1>3, <2>1
    <2> QED BY <2>1, <2>2
  <1> QED BY <1>1, <1>4, <1>5

\* The oldest event is folded.
LEMMA BodiedTail ==
  ASSUME NEW v, NEW out \in Seq(AskEvent), out # <<>>, Bodied(v, out)
  PROVE  /\ Tail(out) \in Seq(AskEvent) /\ Bodied(Folded(v, Head(out)), Tail(out))
         /\ FoldAll(Folded(v, Head(out)), Tail(out)) = FoldAll(v, out)
         /\ ~Head(out).opening => (Head(out).body <=> Head(out).id \notin Range(v))
  <1> DEFINE h == Head(out)
             t == Tail(out)
             u == Folded(v, h)
  <1>1. /\ h \in AskEvent /\ t \in Seq(AskEvent) /\ Len(out) = Len(t) + 1 /\ Len(t) \in Nat
        /\ \A k \in 1..Len(t) : t[k] = out[k + 1]
        /\ out[1] = h
    OBVIOUS
  <1> HIDE DEF h, t
  <1>2. <<h>> \in Seq(AskEvent) /\ FoldAll(v, <<h>>) = u
    BY <1>1, FoldOne
  <1>3. \A s \in Seq(AskEvent) : FoldAll(v, <<h>> \o s) = FoldAll(u, s)
    <2> DEFINE one == <<h>>
    <2>1. one \in Seq(AskEvent) /\ FoldAll(v, one) = u
      BY <1>2
    <2> HIDE DEF one
    <2>2. \A s \in Seq(AskEvent) : FoldAll(v, one \o s) = FoldAll(u, s)
      BY <2>1, FoldConcat
    <2> QED BY <2>2 DEF one
  <1> HIDE DEF u
  <1>4. ASSUME NEW k \in 0..Len(t) PROVE SubSeq(out, 1, k + 1) = <<h>> \o SubSeq(t, 1, k)
    <2> DEFINE s == SubSeq(t, 1, k)
               r == SubSeq(out, 1, k + 1)
    <2>1. s \in Seq(AskEvent) /\ Len(s) = k /\ \A j \in 1..k : s[j] = t[j]
      BY <1>1
    <2>2. r \in Seq(AskEvent) /\ Len(r) = k + 1 /\ \A j \in 1..(k + 1) : r[j] = out[j]
      BY <1>1
    <2> HIDE DEF s, r
    <2>3. /\ <<h>> \o s \in Seq(AskEvent) /\ Len(<<h>> \o s) = k + 1
          /\ (<<h>> \o s)[1] = h /\ \A j \in 2..(k + 1) : (<<h>> \o s)[j] = s[j - 1]
      BY <1>1, <2>1
    <2>4. \A j \in 1..(k + 1) : (<<h>> \o s)[j] = r[j]
      <3> SUFFICES ASSUME NEW j \in 1..(k + 1) PROVE (<<h>> \o s)[j] = r[j]
        OBVIOUS
      <3>1. CASE j = 1
        BY <1>1, <2>2, <2>3, <3>1
      <3>2. CASE j # 1
        <4>1. j \in 2..(k + 1) /\ j - 1 \in 1..k /\ j - 1 \in 1..Len(t) /\ (j - 1) + 1 = j
          BY <1>1, <3>2
        <4>2. t[j - 1] = out[j]
          BY <1>1, <4>1
        <4> QED BY <2>1, <2>2, <2>3, <4>1, <4>2
      <3> QED BY <3>1, <3>2
    <2>5. <<h>> \o s = r
      BY <2>2, <2>3, <2>4, SeqEqual
    <2> QED BY <2>5 DEF s, r
  <1>5. out = <<h>> \o t
    <2>1. SubSeq(out, 1, Len(t) + 1) = out /\ SubSeq(t, 1, Len(t)) = t /\ Len(t) \in 0..Len(t)
      BY <1>1
    <2> QED BY <1>4, <2>1
  <1>6. Bodied(u, t)
    <2> SUFFICES ASSUME NEW k \in 1..Len(t), ~t[k].opening
                 PROVE  t[k].body <=> t[k].id \notin Range(FoldAll(u, SubSeq(t, 1, k - 1)))
      BY DEF Bodied
    <2>1. k - 1 \in 0..Len(t) /\ k + 1 \in 1..Len(out) /\ (k + 1) - 1 = (k - 1) + 1 /\ t[k] = out[k + 1]
      BY <1>1
    <2>2. SubSeq(t, 1, k - 1) \in Seq(AskEvent)
      BY <1>1
    <2>3. FoldAll(v, SubSeq(out, 1, (k + 1) - 1)) = FoldAll(u, SubSeq(t, 1, k - 1))
      BY <1>3, <1>4, <2>1, <2>2
    <2> QED BY <2>1, <2>3 DEF Bodied
  <1>7. ~h.opening => (h.body <=> h.id \notin Range(v))
    <2>1. SubSeq(out, 1, 1 - 1) = <<>> /\ 1 \in 1..Len(out)
      BY <1>1
    <2>2. FoldAll(v, SubSeq(out, 1, 1 - 1)) = v
      BY <2>1, FoldNothing
    <2> QED BY <1>1, <2>1, <2>2 DEF Bodied
  <1> QED BY <1>1, <1>3, <1>5, <1>6, <1>7 DEF u, h, t

\* The newest ask is opened.
LEMMA ShowsOpening ==
  ASSUME NEW v, NEW out, NEW all, NEW m \in Nat, NEW T, T \subseteq 1..m, IdsUpto(all, m + 1),
         Shows(v, out, all, m + 1, T), \A j \in T : all[j].id # all[m + 1].id
  PROVE  Shows(v, Append(out, Opening(all[m + 1].id)), all, m + 1, T \cup {m + 1})
  <1> DEFINE id == all[m + 1].id
             ev == Opening(id)
             U == T \cup {m + 1}
             shown == Told(all, m + 1, T)
  <1>1. id \in Ids /\ m + 1 \in Nat
    BY DEF IdsUpto
  <1>2. ev \in AskEvent /\ ev.opening /\ ev.id = id
    BY <1>1 DEF Opening, AskEvent
  <1>3. shown \in Seq(Ids) /\ id \notin Range(shown)
    BY <1>1, ToldIs
  <1>4. shown = Told(all, m, T)
    <2>1. m + 1 \notin T
      OBVIOUS
    <2> QED BY <2>1, ToldNext
  <1>5. Told(all, m, U) = Told(all, m, T)
    <2>1. T \cap (1..m) = U \cap (1..m)
      OBVIOUS
    <2> HIDE DEF U
    <2> QED BY <2>1, ToldSame
  <1>6. Told(all, m + 1, U) = Append(shown, id)
    <2>1. m + 1 \in U
      OBVIOUS
    <2> HIDE DEF U
    <2>2. Told(all, m + 1, U) = IF m + 1 \in U THEN Append(Told(all, m, U), id) ELSE Told(all, m, U)
      BY ToldNext
    <2> QED BY <1>4, <1>5, <2>1, <2>2
  <1> HIDE DEF ev, shown, U
  <1>7. out \in Seq(AskEvent) /\ FoldAll(v, out) = shown /\ Bodied(v, out)
    BY DEF Shows, shown
  <1>8. FoldAll(v, Append(out, ev)) = Folded(shown, ev)
    BY <1>2, <1>7, FoldAppend
  <1>9. Folded(shown, ev) = Append(shown, id)
    BY <1>2, <1>3 DEF Folded
  <1>10. Bodied(v, Append(out, ev))
    BY <1>2, <1>7, BodiedAppend
  <1>11. Shows(v, Append(out, ev), all, m + 1, U)
    BY <1>2, <1>6, <1>7, <1>8, <1>9, <1>10 DEF Shows
  <1> QED BY <1>11 DEF ev, U

\* An ask ends, shown or not.
LEMMA ShowsEnding ==
  ASSUME NEW v, NEW out, NEW all, NEW n \in Nat, NEW T, T \subseteq 1..n, IdsUpto(all, n),
         Shows(v, out, all, n, T), NEW i \in 1..n, all[i].published \in BOOLEAN,
         all[i].published <=> i \in T, \A j \in T : all[j].id = all[i].id => j = i
  PROVE  Shows(v, Append(out, Ending(all[i])), all, n, T \ {i})
  <1> DEFINE id == all[i].id
             ev == Ending(all[i])
             shown == Told(all, n, T)
             U == T \ {i}
  <1>1. id \in Ids
    BY DEF IdsUpto
  <1>2. ev \in AskEvent /\ ~ev.opening /\ ev.id = id /\ (ev.body <=> i \notin T)
    BY <1>1 DEF Ending, AskEvent
  <1>3. id \in Range(shown) <=> i \in T
    <2>1. Range(shown) = {all[j].id : j \in T \cap (1..n)}
      BY ToldIs
    <2> QED BY <2>1
  <1>4. Within(shown, Ids \ {id}) = Told(all, n, U)
    <2> DEFINE P == Ids \ {id}
    <2>1. \A j \in 1..n : j \in U <=> j \in T /\ all[j].id \in P
      BY DEF IdsUpto
    <2> HIDE DEF P, U
    <2>2. Within(Told(all, n, T), P) = Told(all, n, U)
      BY <2>1, ToldWithin
    <2> QED BY <2>2 DEF P
  <1> HIDE DEF ev, shown, U, id
  <1>5. out \in Seq(AskEvent) /\ FoldAll(v, out) = shown /\ Bodied(v, out)
    BY DEF Shows, shown
  <1>6. FoldAll(v, Append(out, ev)) = Folded(shown, ev)
    BY <1>2, <1>5, FoldAppend
  <1>7. Folded(shown, ev) = Told(all, n, U)
    BY <1>2, <1>4 DEF Folded
  <1>8. Bodied(v, Append(out, ev))
    BY <1>2, <1>3, <1>5, BodiedAppend
  <1> QED BY <1>2, <1>5, <1>6, <1>7, <1>8 DEF Shows, ev, U

\* The endings of the asks S among the first m of all, as Retire writes them.
Endings(all, m, S) == [j \in 1..Len(Picked(m, S)) |-> Ending(all[Picked(m, S)[j]])]

LEMMA EndingsNext ==
  ASSUME NEW all, NEW S, NEW n \in Nat, IdsUpto(all, n), \A i \in S : i \in 1..n /\ all[i].published \in BOOLEAN
  PROVE  /\ Endings(all, 0, S) = <<>>
         /\ \A m \in 0..n : Endings(all, m, S) \in Seq(AskEvent)
         /\ \A m \in 0..(n - 1) : Endings(all, m + 1, S) = IF m + 1 \in S
                                                           THEN Append(Endings(all, m, S), Ending(all[m + 1]))
                                                           ELSE Endings(all, m, S)
  <1>1. Endings(all, 0, S) = <<>>
    <2>1. Picked(0, S) = <<>> /\ Len(<<>>) = 0
      BY PickedNext
    <2>2. Endings(all, 0, S) = [j \in 1..0 |-> Ending(all[Picked(0, S)[j]])]
      BY <2>1 DEF Endings
    <2>3. 1..0 = {}
      OBVIOUS
    <2> QED BY <2>2, <2>3
  <1>2. \A i \in S : Ending(all[i]) \in AskEvent
    <2>1. \A i \in S : all[i].id \in Ids /\ (~all[i].published) \in BOOLEAN
      BY DEF IdsUpto
    <2> QED BY <2>1 DEF Ending, AskEvent
  <1>3. ASSUME NEW m \in 0..n PROVE Endings(all, m, S) \in Seq(AskEvent) /\ Len(Endings(all, m, S)) = Len(Picked(m, S))
    <2> DEFINE q == Picked(m, S)
    <2>1. Len(q) \in Nat /\ \A j \in 1..Len(q) : q[j] \in S
      BY PickedIs DEF IsPicked
    <2> HIDE DEF q
    <2>2. \A j \in 1..Len(q) : Ending(all[q[j]]) \in AskEvent
      BY <1>2, <2>1
    <2>3. Endings(all, m, S) = [j \in 1..Len(q) |-> Ending(all[q[j]])]
      BY DEF Endings, q
    <2>4. Endings(all, m, S) \in Seq(AskEvent) /\ Len(Endings(all, m, S)) = Len(q)
      BY <2>1, <2>2, <2>3
    <2> QED BY <2>4 DEF q
  <1>4. ASSUME NEW m \in 0..(n - 1)
        PROVE  Endings(all, m + 1, S) = IF m + 1 \in S THEN Append(Endings(all, m, S), Ending(all[m + 1]))
                                        ELSE Endings(all, m, S)
    <2> DEFINE q == Picked(m, S)
               r == Picked(m + 1, S)
               v == Endings(all, m, S)
               w == Endings(all, m + 1, S)
               ev == Ending(all[m + 1])
    <2>1. r = IF m + 1 \in S THEN Append(q, m + 1) ELSE q
      <3>1. m \in Nat
        OBVIOUS
      <3> QED BY <3>1, PickedNext
    <2>2. q \in Seq(1..m) /\ Len(q) \in Nat
      BY PickedIs DEF IsPicked
    <2>3. m \in 0..n /\ m + 1 \in 0..n
      OBVIOUS
    <2>4. /\ v \in Seq(AskEvent) /\ Len(v) = Len(q) /\ w \in Seq(AskEvent) /\ Len(w) = Len(r)
          /\ \A j \in 1..Len(q) : v[j] = Ending(all[q[j]])
          /\ \A j \in 1..Len(r) : w[j] = Ending(all[r[j]])
      <3>1. v \in Seq(AskEvent) /\ Len(v) = Len(q)
        BY <1>3, <2>3
      <3>2. w \in Seq(AskEvent) /\ Len(w) = Len(r)
        BY <1>3, <2>3
      <3> QED BY <3>1, <3>2 DEF Endings
    <2>5. CASE m + 1 \in S
      <3> HIDE DEF q, r, v, w
      <3>1. /\ Len(r) = Len(q) + 1 /\ r[Len(q) + 1] = m + 1
            /\ \A j \in 1..Len(q) : r[j] = q[j]
        BY <2>1, <2>2, <2>5
      <3>2. ev \in AskEvent
        BY <1>2, <2>5
      <3> HIDE DEF ev
      <3>3. /\ Append(v, ev) \in Seq(AskEvent) /\ Len(Append(v, ev)) = Len(r)
            /\ \A j \in 1..Len(q) : Append(v, ev)[j] = v[j]
            /\ Append(v, ev)[Len(q) + 1] = ev
        <4>1. Append(v, ev)[Len(v) + 1] = ev
          BY <2>4, <3>2, AppendProperties
        <4> QED BY <2>2, <2>4, <3>1, <3>2, <4>1
      <3>4. w[Len(q) + 1] = ev
        BY <2>2, <2>4, <3>1 DEF ev
      <3>5. \A j \in 1..Len(q) : w[j] = v[j]
        <4>1. \A j \in 1..Len(q) : j \in 1..Len(r)
          BY <2>2, <3>1
        <4> QED BY <2>4, <3>1, <4>1
      <3>6. \A j \in 1..Len(r) : j \in 1..Len(q) \/ j = Len(q) + 1
        BY <2>2, <3>1
      <3>7. \A j \in 1..Len(r) : w[j] = Append(v, ev)[j]
        BY <3>3, <3>4, <3>5, <3>6
      <3>8. w = Append(v, ev)
        BY <2>4, <3>3, <3>7, SeqEqual
      <3> QED BY <2>5, <3>8 DEF w, v, ev
    <2>6. CASE m + 1 \notin S
      BY <2>1, <2>6 DEF Endings
    <2> QED BY <2>5, <2>6
  <1> QED BY <1>1, <1>3, <1>4

\* A section's endings, as one batch.
LEMMA ShowsEndings ==
  ASSUME NEW v, NEW out, NEW all, NEW n \in Nat, NEW T, T \subseteq 1..n, IdsUpto(all, n),
         Shows(v, out, all, n, T), NEW S,
         \A i \in S : /\ i \in 1..n /\ all[i].published \in BOOLEAN /\ (all[i].published <=> i \in T)
                      /\ \A j \in T : all[j].id = all[i].id => j = i
  PROVE  Shows(v, out \o Endings(all, n, S), all, n, T \ S)
  <1> DEFINE Left(m) == T \ (S \cap (1..m))
             M == {m \in Nat : m <= n => Shows(v, out \o Endings(all, m, S), all, n, Left(m))}
  <1>1. /\ Endings(all, 0, S) = <<>>
        /\ \A m \in 0..n : Endings(all, m, S) \in Seq(AskEvent)
        /\ \A m \in 0..(n - 1) : Endings(all, m + 1, S) = IF m + 1 \in S
                                                          THEN Append(Endings(all, m, S), Ending(all[m + 1]))
                                                          ELSE Endings(all, m, S)
    BY EndingsNext
  <1>2. 0 \in M
    <2>1. out \o <<>> = out /\ Left(0) = T
      BY DEF Shows
    <2> QED BY <1>1, <2>1
  <1>3. ASSUME NEW m \in Nat, m \in M PROVE m + 1 \in M
    <2> SUFFICES ASSUME m + 1 <= n PROVE Shows(v, out \o Endings(all, m + 1, S), all, n, Left(m + 1))
      OBVIOUS
    <2> DEFINE es == Endings(all, m, S)
               sofar == out \o es
               ev == Ending(all[m + 1])
               U == Left(m)
    <2>1. m \in 0..(n - 1) /\ m \in 0..n /\ m + 1 \in 1..n
      OBVIOUS
    <2>2. Shows(v, sofar, all, n, U) /\ U \subseteq 1..n /\ U \subseteq T
      BY <1>3, <2>1
    <2>3. es \in Seq(AskEvent) /\ out \in Seq(AskEvent)
      BY <1>1, <2>1 DEF Shows
    <2>4. CASE m + 1 \in S
      <3>1. Endings(all, m + 1, S) = Append(es, ev)
        BY <1>1, <2>1, <2>4
      <3>2. U \ {m + 1} = Left(m + 1)
        BY <2>4
      <3>3. m + 1 \in U <=> m + 1 \in T
        OBVIOUS
      <3> HIDE DEF es, U, sofar, Left
      <3>4. Shows(v, Append(sofar, ev), all, n, U \ {m + 1})
        <4> DEFINE i == m + 1
        <4>1. i \in 1..n /\ all[i].published \in BOOLEAN /\ (all[i].published <=> i \in U)
          BY <2>1, <2>4, <3>3
        <4>2. \A j \in U : all[j].id = all[i].id => j = i
          BY <2>2, <2>4
        <4> HIDE DEF i
        <4>3. Shows(v, Append(sofar, Ending(all[i])), all, n, U \ {i})
          BY <2>2, <4>1, <4>2, ShowsEnding
        <4> QED BY <4>3 DEF i
      <3>5. ev \in AskEvent
        <4>1. all[m + 1].id \in Ids /\ (~all[m + 1].published) \in BOOLEAN
          BY <2>1, <2>4 DEF IdsUpto
        <4> QED BY <4>1 DEF Ending, AskEvent
      <3> HIDE DEF ev
      <3>6. out \o Append(es, ev) = Append(sofar, ev)
        BY <2>3, <3>5 DEF sofar
      <3> QED BY <3>1, <3>2, <3>4, <3>6
    <2>5. CASE m + 1 \notin S
      <3>1. Endings(all, m + 1, S) = es
        BY <1>1, <2>1, <2>5
      <3>2. Left(m + 1) = U
        BY <2>5
      <3> QED BY <2>2, <3>1, <3>2
    <2> QED BY <2>4, <2>5
  <1>4. \A m \in Nat : m \in M
    <2> HIDE DEF M
    <2> QED BY <1>2, <1>3, Induction
  <1>5. Left(n) = T \ S
    OBVIOUS
  <1> QED BY <1>4, <1>5

\* What is shown does not change with what is not the id of an ask.
LEMMA ShowsSame ==
  ASSUME NEW v, NEW out, NEW all, NEW als, NEW n \in Nat, NEW T, T \subseteq 1..n,
         Shows(v, out, all, n, T), \A i \in T : als[i].id = all[i].id
  PROVE  Shows(v, out, als, n, T) /\ Shows(v, out, als, n + 1, T)
  <1>1. Told(als, n, T) = Told(all, n, T)
    BY ToldSame
  <1>2. n + 1 \notin T
    OBVIOUS
  <1>3. Told(als, n + 1, T) = Told(als, n, T)
    BY <1>2, ToldNext
  <1> QED BY <1>1, <1>3 DEF Shows

-----------------------------------------------------------------------------
(* The steps, by what they make of the asks *)

SameAsk(b, a) == b.id = a.id /\ b.published = a.published /\ b.adopted = a.adopted

\* The same asks, whatever their callers do.
SameAsks(all) ==
  /\ IsAsks(all) /\ DOMAIN all = DOMAIN asks
  /\ \A i \in DOMAIN asks : SameAsk(all[i], asks[i]) /\ all[i].outcome = asks[i].outcome

EndsOpen(all, S, outcome) ==
  /\ SameAsks(all) /\ S \subseteq OpenAsks /\ outcome \in Outcomes
  /\ Retire(all, S, outcome, <<>>)
  /\ (closed => closed') /\ UNCHANGED <<idVars, logVars>>

Drawn(kind, adopt, hidden, id) ==
  /\ kind \in Kinds /\ adopt \in AdoptIds \cup {NoId} /\ hidden \in BOOLEAN
  /\ id \in Candidates(kind, adopt, hidden) /\ Reserves(adopt, id)

Shown(id, published) == IF published THEN <<Opening(id)>> ELSE <<>>

MakesEnded(id, token, adopt, published, waiter, outcome) ==
  /\ outcome \in Outcomes
  /\ RetireNew(NewEntry(id, token, adopt, published, waiter), outcome, Shown(id, published))
  /\ UNCHANGED <<closed, logVars>>

MakesOpen(id, token, adopt) ==
  ~cut /\ Park(NewEntry(id, token, adopt, TRUE, "waiting")) /\ UNCHANGED <<closed, logVars>>

MakesNone ==
  /\ IsAsks(asks)' /\ DOMAIN asks' = DOMAIN asks
  /\ \A i \in DOMAIN asks : SameAsk(asks'[i], asks[i]) /\ asks'[i].outcome = asks[i].outcome
  /\ (closed => closed') /\ (cut' => cut \/ closed)
  /\ UNCHANGED <<open, keptVars, idVars, outbox, view>>

LEMMA SameThemselves == ASSUME IInv PROVE SameAsks(asks)
  BY DEF IInv, Books, SameAsks, SameAsk

LEMMA SamePlaced ==
  ASSUME IInv, NEW i \in DOMAIN asks, NEW waiter
  PROVE  SameAsks(Placed(i, waiter))
  <1> DEFINE all == Placed(i, waiter)
  <1>1. IsAsks(asks) /\ Books
    BY DEF IInv, Books
  <1>2. DOMAIN all = DOMAIN asks
    BY DEF Placed
  <1>3. ASSUME NEW j \in DOMAIN asks PROVE SameAsk(all[j], asks[j]) /\ all[j].outcome = asks[j].outcome
    <2>1. IsAsk(asks[j])
      BY <1>1 DEF IsAsks
    <2>2. all[j] = IF j = i THEN [asks[j] EXCEPT !.waiter = waiter] ELSE asks[j]
      BY DEF Placed
    <2> QED BY <2>1, <2>2 DEF IsAsk, SameAsk
  <1> HIDE DEF all
  <1>4. IsAsks(all)
    BY <1>1, Waited DEF all
  <1> QED BY <1>2, <1>3, <1>4 DEF SameAsks, all

LEMMA TurnShape ==
  ASSUME IInv, AsksAssumption, TurnStep
  PROVE  MakesNone \/ \E S, outcome : EndsOpen(asks, S, outcome)
  <1>1. CASE BeginTurn
    BY <1>1, SameThemselves DEF BeginTurn, MakesNone, SameAsks, SameAsk, IsAsks, IsAsk, keptVars, idVars, logVars
  <1>2. ASSUME NEW token \in 0..turnSeq, CancelTurn(token) \/ CancelOwnTurn(token) \/ EndTurn(token)
        PROVE  \E S, outcome : EndsOpen(asks, S, outcome)
    <2>1. OpenAsks \subseteq OpenAsks /\ OfTurn(token) \subseteq OpenAsks /\ {"cancelled", "turn_ended"} \subseteq Outcomes
      BY OfTurnOpen DEF Outcomes
    <2>2. UNCHANGED <<idVars, logVars>> /\ closed' = closed
      BY <1>2 DEF CancelTurn, CancelOwnTurn, EndTurn
    <2>3. PICK S, outcome : S \subseteq OpenAsks /\ outcome \in Outcomes /\ Retire(asks, S, outcome, <<>>)
      <3>1. CASE CancelTurn(token)
        BY <2>1, <3>1 DEF CancelTurn
      <3>2. CASE CancelOwnTurn(token)
        BY <2>1, <3>2 DEF CancelOwnTurn
      <3>3. CASE EndTurn(token)
        BY <2>1, <3>3 DEF EndTurn
      <3> QED BY <1>2, <3>1, <3>2, <3>3
    <2> QED BY <2>2, <2>3, SameThemselves DEF EndsOpen
  <1> QED BY <1>1, <1>2 DEF TurnStep

MakesOne ==
  \E kind, adopt, id :
    \/ \E published \in BOOLEAN : \E token, waiter, outcome :
         Drawn(kind, adopt, ~published, id) /\ MakesEnded(id, token, adopt, published, waiter, outcome)
    \/ \E token : Drawn(kind, adopt, FALSE, id) /\ MakesOpen(id, token, adopt)

LEMMA OpenShape ==
  ASSUME IInv, AsksAssumption, NEW kind \in Kinds, NEW adopt \in AdoptIds \cup {NoId},
         NEW token \in (0..turnSeq) \cup {Foreign}, Open(token, kind, adopt)
  PROVE  MakesOne
  <1> DEFINE why == Refusal(token)
             published == why = "none"
  <1>1. UNCHANGED <<closed, logVars>>
    BY DEF Open
  <1>2. PICK id \in Candidates(kind, adopt, why # "none") :
          /\ Reserves(adopt, id)
          /\ IF why = "none" THEN Park(NewEntry(id, token, adopt, why = "none", "waiting"))
             ELSE RetireNew(NewEntry(id, token, adopt, why = "none", "waiting"), why, <<>>)
    BY DEF Open
  <1>3. token \in 0..(MaxTurns + 1)
    BY DEF IInv, Turns, Foreign, AsksAssumption
  <1>4. Fate(token) \in {"live", "cancelled", "ended", "forgotten"}
    BY <1>3 DEF Fate, Foreign, NoTurn, IInv, Turns, TurnStates, AsksAssumption
  <1>5. why \in Outcomes \/ (why = "none" /\ ~cut)
    BY <1>4 DEF Refusal, Outcomes, Room
  <1>6. CASE why = "none"
    <2>1. (why # "none") = FALSE /\ (why = "none") = TRUE
      BY <1>6
    <2>2. "none" \notin Outcomes
      BY DEF Outcomes
    <2>3. Park(NewEntry(id, token, adopt, TRUE, "waiting")) /\ id \in Candidates(kind, adopt, FALSE)
      BY <1>2, <2>1
    <2>4. Drawn(kind, adopt, FALSE, id) /\ MakesOpen(id, token, adopt)
      BY <1>1, <1>2, <1>5, <1>6, <2>2, <2>3 DEF Drawn, MakesOpen
    <2> QED BY <2>4 DEF MakesOne
  <1>7. CASE why # "none"
    <2>1. (why # "none") = TRUE /\ (why = "none") = FALSE
      BY <1>7
    <2>2. RetireNew(NewEntry(id, token, adopt, FALSE, "waiting"), why, <<>>) /\ id \in Candidates(kind, adopt, TRUE)
      BY <1>2, <2>1
    <2>3. why \in Outcomes
      BY <1>5, <1>7
    <2> HIDE DEF why
    <2>4. Drawn(kind, adopt, ~FALSE, id) /\ MakesEnded(id, token, adopt, FALSE, "waiting", why)
      <3>1. Shown(id, FALSE) = <<>> /\ ~FALSE = TRUE
        BY DEF Shown
      <3>2. Drawn(kind, adopt, TRUE, id)
        BY <1>2, <2>2 DEF Drawn
      <3> QED BY <1>1, <2>2, <2>3, <3>1, <3>2 DEF MakesEnded
    <2> QED BY <2>4 DEF MakesOne
  <1> QED BY <1>6, <1>7

LEMMA AskShape == ASSUME IInv, AsksAssumption, AskStep PROVE MakesOne
  <1>1. ASSUME NEW kind \in Kinds, NEW adopt \in AdoptIds \cup {NoId},
               NEW token \in (0..turnSeq) \cup {Foreign}, Open(token, kind, adopt)
        PROVE  MakesOne
    BY <1>1, OpenShape
  <1>2. ASSUME NEW kind \in Kinds, NEW adopt \in AdoptIds \cup {NoId}, NEW fits \in BOOLEAN,
               Automatic(kind, adopt, fits)
        PROVE  MakesOne
    <2> DEFINE shown == fits /\ kind # "permission"
               adopted == IF adopt \in DOMAIN open THEN NoId ELSE adopt
               outcome == IF fits THEN "automatic" ELSE "cancelled"
    <2>1. PICK id \in Candidates(kind, adopted, ~shown) :
            /\ Reserves(adopted, id)
            /\ RetireNew(NewEntry(id, NoTurn, adopted, shown, "none"), outcome,
                         IF shown THEN <<Opening(id)>> ELSE <<>>)
      BY <1>2 DEF Automatic
    <2>2. UNCHANGED <<closed, logVars>>
      BY <1>2 DEF Automatic
    <2>3. shown \in BOOLEAN /\ adopted \in AdoptIds \cup {NoId} /\ outcome \in Outcomes
      BY DEF Outcomes
    <2> HIDE DEF shown, adopted, outcome
    <2>4. Drawn(kind, adopted, ~shown, id) /\ MakesEnded(id, NoTurn, adopted, shown, "none", outcome)
      BY <2>1, <2>2, <2>3 DEF Drawn, MakesEnded, Shown
    <2> QED BY <2>3, <2>4 DEF MakesOne
  <1>3. ASSUME NEW kind \in Kinds, NEW outcome \in EarlyOutcomes, AnsweredEarly(kind, outcome)
        PROVE  MakesOne
    <2>1. PICK id \in Candidates(kind, NoId, TRUE) :
            Mints(id) /\ RetireNew(NewEntry(id, NoTurn, NoId, FALSE, "none"), outcome, <<>>)
      BY <1>3 DEF AnsweredEarly
    <2>2. UNCHANGED <<closed, logVars>>
      BY <1>3 DEF AnsweredEarly
    <2>3. outcome \in Outcomes
      BY DEF Outcomes, AsksAssumption
    <2>4. Drawn(kind, NoId, ~FALSE, id) /\ MakesEnded(id, NoTurn, NoId, FALSE, "none", outcome)
      <3>1. Shown(id, FALSE) = <<>> /\ ~FALSE = TRUE
        BY DEF Shown
      <3>2. Drawn(kind, NoId, TRUE, id)
        BY <2>1 DEF Drawn, Reserves
      <3> QED BY <2>1, <2>2, <2>3, <3>1, <3>2 DEF MakesEnded
    <2> QED BY <2>4 DEF MakesOne
  <1> QED BY <1>1, <1>2, <1>3 DEF AskStep

LEMMA WaitShape ==
  ASSUME IInv, WaitStep
  PROVE  MakesNone \/ \E all, S, outcome : EndsOpen(all, S, outcome)
  <1>1. ASSUME NEW i \in DOMAIN asks, GiveUp(i) \/ Return(i)
        PROVE  MakesNone
    <2>1. PICK waiter : asks' = Placed(i, waiter)
      BY <1>1 DEF GiveUp, Return, Placed
    <2>2. SameAsks(Placed(i, waiter))
      BY SamePlaced
    <2>3. UNCHANGED <<open, keptVars, idVars, closed, outbox, logVars>>
      BY <1>1 DEF GiveUp, Return
    <2>4. IsAsks(asks)'
      BY <2>1, <2>2 DEF SameAsks, IsAsks, IsAsk
    <2> QED BY <2>1, <2>2, <2>3, <2>4 DEF MakesNone, SameAsks, logVars
  <1>2. ASSUME NEW i \in DOMAIN asks, CancelByCall(i)
        PROVE  \E all, S, outcome : EndsOpen(all, S, outcome)
    <2>1. /\ Retire(Placed(i, "stopping"), {i} \cap OpenAsks, "cancelled", <<>>)
          /\ UNCHANGED <<idVars, logVars>> /\ closed' = closed
      BY <1>2 DEF CancelByCall, Placed
    <2>2. SameAsks(Placed(i, "stopping")) /\ "cancelled" \in Outcomes
      BY SamePlaced DEF Outcomes
    <2>3. EndsOpen(Placed(i, "stopping"), {i} \cap OpenAsks, "cancelled")
      BY <2>1, <2>2 DEF EndsOpen
    <2> QED BY <2>3
  <1> QED BY <1>1, <1>2 DEF WaitStep

LEMMA Shapes ==
  ASSUME IInv, AsksAssumption, [Next]_vars
  PROVE  MakesNone \/ MakesOne \/ Commit \/ \E all, S, outcome : EndsOpen(all, S, outcome)
  <1>1. ASSUME UNCHANGED <<asks, open, keptVars, idVars, closed, outbox, view>>, cut' => cut \/ closed
        PROVE  MakesNone
    BY <1>1, SameThemselves DEF MakesNone, SameAsks, SameAsk, IsAsks, IsAsk
  <1>2. CASE TurnStep
    BY <1>2, TurnShape
  <1>3. CASE AskStep
    BY <1>3, AskShape
  <1>4. CASE WaitStep
    BY <1>4, WaitShape
  <1>5. ASSUME NEW id \in DOMAIN open, Answer(id)
        PROVE  \E all, S, outcome : EndsOpen(all, S, outcome)
    <2>1. PICK outcome \in Answers(id.kind) : Retire(asks, {open[id]}, outcome, <<>>)
      BY <1>5 DEF Answer
    <2>2. UNCHANGED <<idVars, logVars>> /\ closed' = closed
      BY <1>5 DEF Answer
    <2>3. outcome \in Outcomes /\ {open[id]} \subseteq OpenAsks
      BY DEF Answers, Outcomes, OpenAsks
    <2>4. EndsOpen(asks, {open[id]}, outcome)
      BY <2>1, <2>2, <2>3, SameThemselves DEF EndsOpen
    <2> QED BY <2>4
  <1>6. CASE Close
    <2>1. EndsOpen(asks, OpenAsks, "closing")
      BY <1>6, SameThemselves DEF Close, EndsOpen, Outcomes
    <2> QED BY <2>1
  <1>7. CASE CloseLog
    BY <1>1, <1>7 DEF CloseLog
  <1>8. CASE UNCHANGED vars
    BY <1>1, <1>8 DEF vars, logVars
  <1>9. CASE Terminated
    BY <1>8, <1>9 DEF Terminated
  <1> QED BY <1>2, <1>3, <1>4, <1>5, <1>6, <1>7, <1>8, <1>9 DEF Next

-----------------------------------------------------------------------------
(* What a client shows, step by step *)

\* The ids asks are given, and the numbers they come from.
Numbers ==
  /\ seq \in [Kinds -> [BOOLEAN -> Nat]] /\ reserved \in Seq(Ids)
  /\ \A i \in DOMAIN asks :
       asks[i].id \in Ids /\ asks[i].published \in BOOLEAN /\ asks[i].adopted \in BOOLEAN

\* What a client will show once it has folded the log is the open asks, each of
\* which was shown; the log is cut off only when there are none.
Showing ==
  /\ cut => closed
  /\ \A i \in OpenAsks : asks[i].published
  /\ Shows(view, outbox, asks, Len(asks), OpenAsks)

LEMMA OpenIs ==
  ASSUME IInv
  PROVE  /\ Len(asks) \in Nat /\ DOMAIN asks = 1..Len(asks) /\ OpenAsks \subseteq 1..Len(asks)
         /\ \A i \in OpenAsks : asks[i].outcome = "open" /\ asks[i].id \in DOMAIN open
         /\ \A i \in DOMAIN asks : asks[i].outcome = "open" => i \in OpenAsks
         /\ \A i, j \in OpenAsks : asks[i].id = asks[j].id => i = j
         /\ closed => OpenAsks = {}
  <1>1. IsAsks(asks) /\ AllOpen(asks) /\ \A i \in DOMAIN asks : Booked(asks, i)
    BY DEF IInv, Books
  <1>2. Len(asks) \in Nat /\ DOMAIN asks = 1..Len(asks)
    BY <1>1 DEF IsAsks
  <1>3. ASSUME NEW i \in OpenAsks
        PROVE  i \in DOMAIN asks /\ asks[i].outcome = "open" /\ asks[i].id \in DOMAIN open /\ open[asks[i].id] = i
    BY <1>1 DEF OpenAsks, AllOpen, Booked
  <1>4. \A i \in DOMAIN asks : asks[i].outcome = "open" => i \in OpenAsks
    BY <1>1 DEF OpenAsks, Booked
  <1>5. closed => OpenAsks = {}
    BY <1>3 DEF IInv, NoAskOutlivesItsTurn
  <1>6. \A i, j \in OpenAsks : asks[i].id = asks[j].id => i = j
    BY <1>3
  <1> QED BY <1>2, <1>3, <1>4, <1>5, <1>6

\* What Retire does to the asks and to the log.
LEMMA RetireAsks ==
  ASSUME NEW all, NEW S, NEW outcome, NEW pre, IsAsks(all), Retire(all, S, outcome, pre)
  PROVE  /\ DOMAIN asks' = DOMAIN all /\ OpenAsks' = OpenAsks \ S
         /\ \A i \in DOMAIN all : SameAsk(asks'[i], all[i])
  <1>1. /\ asks' = [i \in DOMAIN all |-> IF i \in S THEN [all[i] EXCEPT !.outcome = outcome] ELSE all[i]]
        /\ open' = [id \in {d \in DOMAIN open : open[d] \notin S} |-> open[id]]
    BY DEF Retire
  <1>2. DOMAIN asks' = DOMAIN all
    BY <1>1
  <1>3. ASSUME NEW i \in DOMAIN all PROVE SameAsk(asks'[i], all[i])
    <2>1. IsAsk(all[i])
      BY DEF IsAsks
    <2>2. asks'[i] = IF i \in S THEN [all[i] EXCEPT !.outcome = outcome] ELSE all[i]
      BY <1>1
    <2> QED BY <2>1, <2>2 DEF IsAsk, SameAsk
  <1>4. OpenAsks' = OpenAsks \ S
    BY <1>1 DEF OpenAsks
  <1> QED BY <1>2, <1>3, <1>4

LEMMA RetireLog ==
  ASSUME NEW all, NEW n \in Nat, DOMAIN all = 1..n, NEW S, NEW outcome, NEW pre, Retire(all, S, outcome, pre)
  PROVE  outbox' = IF cut THEN outbox ELSE outbox \o (pre \o Endings(all, n, S))
  <1>1. InOrder(all, S) = Picked(n, S)
    BY DEF InOrder, Picked, Upto
  <1> QED BY <1>1 DEF Retire, Enqueue, Endings

\* A section that makes no ask and ends some of the open ones.
LEMMA EndsOpenShows ==
  ASSUME IInv, IInv', Numbers, Showing, NEW all, NEW S, NEW outcome, EndsOpen(all, S, outcome)
  PROVE  Numbers' /\ Showing'
  <1> DEFINE n == Len(asks)
             T == OpenAsks
  <1>1. /\ n \in Nat /\ DOMAIN asks = 1..n /\ T \subseteq 1..n
        /\ \A i, j \in T : asks[i].id = asks[j].id => i = j
        /\ closed => T = {}
    BY OpenIs
  <1>2. IsAsks(all) /\ DOMAIN all = 1..n /\ \A i \in 1..n : SameAsk(all[i], asks[i])
    BY <1>1 DEF EndsOpen, SameAsks
  <1>3. /\ S \subseteq T /\ (closed => closed') /\ seq' = seq /\ reserved' = reserved /\ cut' = cut /\ view' = view
        /\ Retire(all, S, outcome, <<>>)
    BY DEF EndsOpen, idVars, logVars
  <1>4. DOMAIN asks' = 1..n /\ OpenAsks' = T \ S /\ \A i \in 1..n : SameAsk(asks'[i], all[i])
    BY <1>2, <1>3, RetireAsks
  <1>5. \A i \in 1..n : SameAsk(asks'[i], asks[i])
    BY <1>2, <1>4 DEF SameAsk
  <1>6. Len(asks') = n
    <2>1. DOMAIN asks' = 1..Len(asks') /\ Len(asks') \in Nat
      BY OpenIs DEF IInv, Books, IsAsks
    <2> QED BY <1>1, <1>4, <2>1
  <1>7. Numbers'
    BY <1>1, <1>3, <1>4, <1>5 DEF Numbers, SameAsk
  <1>8. IdsUpto(all, n) /\ \A i \in T : all[i].published \in BOOLEAN /\ all[i].published
    BY <1>1, <1>2 DEF Numbers, Showing, IdsUpto, SameAsk
  <1>9. Shows(view, outbox, asks, n, T)
    BY DEF Showing
  <1>10. \A i \in 1..n : all[i].id = asks[i].id /\ asks'[i].id = all[i].id
    BY <1>2, <1>4 DEF SameAsk
  <1>11. outbox \in Seq(AskEvent)
    BY <1>9 DEF Shows
  <1> HIDE DEF n, T
  <1>12. Shows(view, outbox, all, n, T)
    <2>1. \A i \in T : all[i].id = asks[i].id
      BY <1>1, <1>10
    <2> QED BY <1>1, <1>9, <2>1, ShowsSame
  <1>13. Shows(view, outbox', all, n, T \ S)
    <2>1. CASE cut
      <3>1. T = {} /\ T \ S = T
        BY <1>1, <2>1 DEF Showing
      <3>2. outbox' = outbox
        BY <1>1, <1>2, <1>3, <2>1, RetireLog
      <3> QED BY <1>12, <3>1, <3>2
    <2>2. CASE ~cut
      <3>1. outbox' = outbox \o (<<>> \o Endings(all, n, S))
        BY <1>1, <1>2, <1>3, <2>2, RetireLog
      <3>2. \A i \in S : i \in 1..n /\ all[i].published \in BOOLEAN /\ (all[i].published <=> i \in T)
        BY <1>1, <1>3, <1>8
      <3>3. \A i \in S : \A j \in T : all[j].id = all[i].id => j = i
        BY <1>1, <1>3, <1>10
      <3>4. Shows(view, outbox \o Endings(all, n, S), all, n, T \ S)
        BY <1>1, <1>8, <1>12, <3>2, <3>3, ShowsEndings
      <3>5. <<>> \o Endings(all, n, S) = Endings(all, n, S)
        <4>1. n \in 0..n
          BY <1>1
        <4>2. Endings(all, n, S) \in Seq(AskEvent)
          BY <1>1, <1>8, <3>2, <4>1, EndingsNext
        <4> HIDE DEF Endings
        <4> QED BY <4>2
      <3> QED BY <3>1, <3>4, <3>5
    <2> QED BY <2>1, <2>2
  <1>14. Shows(view, outbox', asks', n, T \ S)
    <2> DEFINE U == T \ S
    <2>1. U \subseteq 1..n /\ \A i \in U : asks'[i].id = all[i].id
      BY <1>1, <1>10
    <2>2. Shows(view, outbox', all, n, U)
      BY <1>13
    <2> HIDE DEF U
    <2>3. Shows(view, outbox', asks', n, U)
      BY <1>1, <2>1, <2>2, ShowsSame
    <2> QED BY <2>3 DEF U
  <1>15. \A i \in OpenAsks' : asks'[i].published
    BY <1>1, <1>4, <1>5 DEF Showing, SameAsk, T
  <1>16. cut' => closed'
    BY <1>3 DEF Showing
  <1>17. Shows(view, outbox, asks, Len(asks), OpenAsks)'
    BY <1>3, <1>4, <1>6, <1>14 DEF Shows, Bodied, Told, FoldAll
  <1> QED BY <1>7, <1>15, <1>16, <1>17 DEF Showing

\* Drawing an id keeps the counters and the reservations what they are.
LEMMA DrawnTyped ==
  ASSUME AsksAssumption, Numbers, Len(asks) \in Nat, NEW kind, NEW adopt, NEW hidden, NEW id,
         Drawn(kind, adopt, hidden, id)
  PROVE  /\ id \in Ids /\ id \notin DOMAIN open
         /\ seq' \in [Kinds -> [BOOLEAN -> Nat]] /\ reserved' \in Seq(Ids)
  <1>1. /\ kind \in Kinds /\ hidden \in BOOLEAN /\ id \in Candidates(kind, adopt, hidden)
        /\ Reserves(adopt, id) /\ (adopt = NoId \/ adopt \in AdoptIds)
    BY DEF Drawn
  <1>2. id \notin DOMAIN open
    BY <1>1, NewId
  <1>3. CASE adopt = NoId
    <2>1. Mints(id) /\ id \in Ahead(kind, hidden)
      BY <1>1, <1>3 DEF Reserves, Candidates
    <2>2. seq[kind][hidden] \in Nat /\ Len(reserved) \in Nat
      BY <1>1 DEF Numbers
    <2>3. PICK n \in (seq[kind][hidden] + 1)..(seq[kind][hidden] + Len(reserved) + Len(asks) + 1) :
            id = Numbered(kind, hidden, n)
      BY <2>1 DEF Ahead
    <2>4. n \in Nat
      BY <2>2
    <2>5. id \in Ids /\ id.kind = kind /\ id.hidden = hidden /\ id.n = n
      BY <1>1, <2>3, <2>4 DEF Numbered, Ids
    <2> DEFINE P == {r \in Ids : r.kind # id.kind \/ r.hidden # id.hidden \/ r.n > id.n}
    <2>6. seq' = [seq EXCEPT ![id.kind][id.hidden] = id.n] /\ reserved' = Within(reserved, P)
      BY <2>1 DEF Mints, CountsTo
    <2>7. Ids \cap P = P /\ P \subseteq Ids
      OBVIOUS
    <2> HIDE DEF P
    <2>8. Within(reserved, P) \in Seq(Ids \cap P)
      BY WithinTyped DEF Numbers
    <2>9. reserved' \in Seq(Ids)
      BY <2>6, <2>7, <2>8
    <2>10. seq' \in [Kinds -> [BOOLEAN -> Nat]]
      BY <1>1, <2>4, <2>5, <2>6 DEF Numbers
    <2> QED BY <1>2, <2>5, <2>9, <2>10
  <1>4. CASE adopt # NoId
    <2>1. id = adopt /\ id \in Ids /\ Adopts(id)
      BY <1>1, <1>4 DEF Candidates, Reserves, AsksAssumption
    <2>2. seq' = seq
      BY <2>1 DEF Adopts
    <2> DEFINE r == Append(reserved, id)
    <2>3. reserved' = reserved \/ reserved' = r \/ reserved' = Tail(r)
      BY <2>1 DEF Adopts
    <2>4. r \in Seq(Ids) /\ r # <<>>
      BY <2>1 DEF Numbers
    <2>5. Tail(r) \in Seq(Ids)
      BY <2>4
    <2> QED BY <1>2, <2>1, <2>2, <2>3, <2>4, <2>5 DEF Numbers
  <1> QED BY <1>3, <1>4

\* The ask that is made, after the others.
LEMMA NewIs ==
  ASSUME Books, NEW id, NEW token, NEW adopt, NEW published, NEW waiter, NEW e,
         e = NewEntry(id, token, adopt, published, waiter)
  PROVE  /\ IsAsks(Append(asks, e)) /\ e.id = id /\ e.published = published /\ e.adopted = (adopt # NoId)
         /\ Len(asks) \in Nat /\ DOMAIN asks = 1..Len(asks)
         /\ DOMAIN Append(asks, e) = 1..(Len(asks) + 1)
         /\ \A i \in 1..Len(asks) : Append(asks, e)[i] = asks[i]
         /\ Append(asks, e)[Len(asks) + 1] = e
  <1> DEFINE all == Append(asks, e)
             n == Len(asks) + 1
  <1>1. asks \in Seq(Range(asks)) /\ \A i \in DOMAIN asks : IsAsk(asks[i])
    BY DEF Books, IsAsks
  <1>2. IsAsk(e) /\ e.id = id /\ e.published = published /\ e.adopted = (adopt # NoId)
    BY DEF NewEntry, IsAsk
  <1>3. /\ all \in Seq(Range(all))
        /\ Len(asks) \in Nat /\ DOMAIN asks = 1..Len(asks)
        /\ DOMAIN all = 1..n
        /\ \A i \in 1..Len(asks) : all[i] = asks[i]
        /\ all[n] = e
    BY <1>1, Appended
  <1> HIDE DEF all
  <1>4. \A i \in DOMAIN all : i \in DOMAIN asks \/ i = n
    BY <1>3
  <1>5. IsAsks(all)
    BY <1>1, <1>2, <1>3, <1>4 DEF IsAsks
  <1> QED BY <1>2, <1>3, <1>5 DEF all

\* The numbers, with one more ask.
LEMMA NumbersNew ==
  ASSUME Numbers, NEW n \in Nat, DOMAIN asks = 1..n, DOMAIN asks' = 1..(n + 1),
         \A i \in 1..n : SameAsk(asks'[i], asks[i]),
         seq' \in [Kinds -> [BOOLEAN -> Nat]], reserved' \in Seq(Ids),
         asks'[n + 1].id \in Ids, asks'[n + 1].published \in BOOLEAN, asks'[n + 1].adopted \in BOOLEAN
  PROVE  Numbers'
  <1>1. \A i \in DOMAIN asks' : i \in 1..n \/ i = n + 1
    OBVIOUS
  <1> QED BY <1>1 DEF Numbers, SameAsk

\* What is told one after another may be grouped either way.
LEMMA ToldInTurn ==
  ASSUME NEW s \in Seq(AskEvent), NEW t \in Seq(AskEvent), NEW u \in Seq(AskEvent)
  PROVE  (s \o t) \o u = s \o (t \o u)
  BY ConcatAssociative

\* A section that makes an ask and ends it, shown or not.
LEMMA MakesEndedShows ==
  ASSUME IInv, IInv', AsksAssumption, Numbers, Showing,
         NEW kind, NEW adopt, NEW id, NEW published \in BOOLEAN, NEW token, NEW waiter, NEW outcome,
         Drawn(kind, adopt, ~published, id), MakesEnded(id, token, adopt, published, waiter, outcome)
  PROVE  Numbers' /\ Showing'
  <1> DEFINE n == Len(asks)
             T == OpenAsks
             e == NewEntry(id, token, adopt, published, waiter)
             all == Append(asks, e)
             S == {n + 1}
             pre == Shown(id, published)
  <1>1. /\ n \in Nat /\ DOMAIN asks = 1..n /\ T \subseteq 1..n
        /\ \A i \in T : asks[i].id \in DOMAIN open
        /\ closed => T = {}
    BY OpenIs
  <1>2. /\ IsAsks(all) /\ e.id = id /\ e.published = published /\ e.adopted = (adopt # NoId)
        /\ DOMAIN all = 1..(n + 1) /\ \A i \in 1..n : all[i] = asks[i]
        /\ all[n + 1] = e
    BY NewIs DEF IInv
  <1>3. /\ Retire(all, S, outcome, pre) /\ closed' = closed /\ cut' = cut /\ view' = view
    BY DEF MakesEnded, RetireNew, logVars
  <1>4. /\ id \in Ids /\ id \notin DOMAIN open
        /\ seq' \in [Kinds -> [BOOLEAN -> Nat]] /\ reserved' \in Seq(Ids)
    BY <1>1, DrawnTyped
  <1>5. Shows(view, outbox, asks, n, T)
    BY DEF Showing
  <1>6. IsAsks(asks)'
    BY DEF IInv, Books
  <1>7. outbox \in Seq(AskEvent)
    BY <1>5 DEF Shows
  <1> HIDE DEF n, T, e, all, S, pre
  <1>8. DOMAIN asks' = 1..(n + 1) /\ OpenAsks' = T \ S /\ \A i \in 1..(n + 1) : SameAsk(asks'[i], all[i])
    BY <1>2, <1>3, RetireAsks DEF T
  <1>9. outbox' = IF cut THEN outbox ELSE outbox \o (pre \o Endings(all, n + 1, S))
    <2>1. n + 1 \in Nat
      BY <1>1
    <2> QED BY <1>2, <1>3, <2>1, RetireLog
  <1>10. Len(asks') = n + 1
    BY <1>1, <1>6, <1>8 DEF IsAsks
  <1>11. \A i \in 1..n : SameAsk(asks'[i], asks[i])
    <2>1. \A i \in 1..n : i \in 1..(n + 1)
      BY <1>1
    <2> QED BY <1>2, <1>8, <2>1
  <1>12. SameAsk(asks'[n + 1], e) /\ n + 1 \in 1..(n + 1) /\ n + 1 \notin T
    BY <1>1, <1>2, <1>8
  <1>13. Numbers'
    BY <1>1, <1>2, <1>4, <1>8, <1>11, <1>12, NumbersNew DEF SameAsk
  <1>14. IdsUpto(all, n + 1)
    <2>1. \A i \in 1..(n + 1) : i \in 1..n \/ i = n + 1
      BY <1>1
    <2> QED BY <1>1, <1>2, <1>4, <2>1 DEF IdsUpto, Numbers
  <1>15. Shows(view, outbox, all, n + 1, T)
    <2>1. \A i \in T : all[i].id = asks[i].id
      BY <1>1, <1>2
    <2> QED BY <1>1, <1>5, <2>1, ShowsSame
  <1>16. \A j \in T : all[j].id # all[n + 1].id
    BY <1>1, <1>2, <1>4
  <1>17. T \subseteq 1..(n + 1) /\ T \ S = T /\ n + 1 \in Nat
    BY <1>1, <1>12 DEF S
  <1>18. Endings(all, n + 1, S) \in Seq(AskEvent)
    <2>1. \A i \in S : i \in 1..(n + 1) /\ all[i].published \in BOOLEAN
      BY <1>2, <1>12 DEF S
    <2>2. n + 1 \in 0..(n + 1)
      BY <1>1
    <2> QED BY <1>14, <1>17, <2>1, <2>2, EndingsNext
  <1>19. Shows(view, outbox', all, n + 1, T)
    <2> DEFINE U == IF published THEN T \cup {n + 1} ELSE T
               out == outbox \o pre
               es == Endings(all, n + 1, S)
    <2>1. CASE cut
      BY <1>9, <1>15, <2>1
    <2>2. CASE ~cut
      <3>1. Shows(view, out, all, n + 1, U) /\ pre \in Seq(AskEvent)
        <4>1. CASE published
          <5> DEFINE ev == Opening(all[n + 1].id)
          <5>1. pre = <<ev>> /\ U = T \cup {n + 1}
            BY <1>2, <4>1 DEF pre, Shown
          <5>2. Shows(view, Append(outbox, ev), all, n + 1, T \cup {n + 1})
            BY <1>1, <1>14, <1>15, <1>16, ShowsOpening
          <5>3. ev \in AskEvent
            BY <1>2, <1>4 DEF Opening, AskEvent
          <5> HIDE DEF ev
          <5>4. Append(outbox, ev) = outbox \o <<ev>> /\ <<ev>> \in Seq(AskEvent)
            BY <1>7, <5>3
          <5>5. out = Append(outbox, ev)
            BY <5>1, <5>4
          <5>6. pre \in Seq(AskEvent)
            BY <5>1, <5>4
          <5> HIDE DEF out, U, es
          <5> QED BY <5>1, <5>2, <5>5, <5>6
        <4>2. CASE ~published
          <5>1. pre = <<>> /\ U = T /\ outbox \o <<>> = outbox
            BY <1>7, <4>2 DEF pre, Shown
          <5>2. out = outbox /\ pre \in Seq(AskEvent)
            BY <5>1
          <5> HIDE DEF out, U, es
          <5> QED BY <1>15, <5>1, <5>2
        <4> QED BY <4>1, <4>2
      <3>2. U \subseteq 1..(n + 1) /\ U \ S = T
        BY <1>12, <1>17 DEF S
      <3>3. \A i \in S : i \in 1..(n + 1) /\ all[i].published \in BOOLEAN /\ (all[i].published <=> i \in U)
        BY <1>2, <1>12 DEF S
      <3>4. \A i \in S : \A j \in U : all[j].id = all[i].id => j = i
        BY <1>16 DEF S
      <3>5. outbox' = outbox \o (pre \o es) /\ es \in Seq(AskEvent)
        BY <1>9, <1>18, <2>2
      <3> HIDE DEF U, es
      <3>6. outbox \o (pre \o es) = out \o es
        <4>1. outbox \in Seq(AskEvent) /\ pre \in Seq(AskEvent) /\ es \in Seq(AskEvent)
          BY <1>7, <3>1, <3>5
        <4> HIDE DEF pre, out
        <4>2. (outbox \o pre) \o es = outbox \o (pre \o es)
          BY <4>1, ToldInTurn
        <4> QED BY <4>2 DEF out
      <3> HIDE DEF out
      <3>7. Shows(view, out \o Endings(all, n + 1, S), all, n + 1, U \ S)
        BY <1>14, <1>17, <3>1, <3>2, <3>3, <3>4, ShowsEndings
      <3> QED BY <3>2, <3>5, <3>6, <3>7 DEF es
    <2> QED BY <2>1, <2>2
  <1>20. Shows(view, outbox', asks', n + 1, T)
    <2>1. \A i \in T : asks'[i].id = all[i].id
      BY <1>8, <1>17 DEF SameAsk
    <2> QED BY <1>17, <1>19, <2>1, ShowsSame
  <1>21. \A i \in OpenAsks' : asks'[i].published
    <2>1. \A i \in T : i \in 1..n /\ asks[i].published
      BY <1>1 DEF Showing, T
    <2> QED BY <1>8, <1>11, <1>17, <2>1 DEF SameAsk
  <1>22. Shows(view, outbox, asks, Len(asks), OpenAsks)'
    BY <1>3, <1>8, <1>10, <1>17, <1>20 DEF Shows, Bodied, Told, FoldAll
  <1> QED BY <1>3, <1>13, <1>21, <1>22 DEF Showing

\* A section that parks one.
LEMMA MakesOpenShows ==
  ASSUME IInv, IInv', AsksAssumption, Numbers, Showing, NEW kind, NEW adopt, NEW id, NEW token,
         Drawn(kind, adopt, FALSE, id), MakesOpen(id, token, adopt)
  PROVE  Numbers' /\ Showing'
  <1> DEFINE n == Len(asks)
             T == OpenAsks
             e == NewEntry(id, token, adopt, TRUE, "waiting")
             ev == Opening(id)
  <1>1. /\ n \in Nat /\ DOMAIN asks = 1..n /\ T \subseteq 1..n
        /\ \A i \in T : asks[i].id \in DOMAIN open
    BY OpenIs
  <1>2. ~cut /\ Park(e) /\ closed' = closed /\ cut' = cut /\ view' = view
    BY DEF MakesOpen, logVars
  <1>3. asks' = Append(asks, e) /\ outbox' = outbox \o <<Opening(e.id)>>
    BY <1>2 DEF Park, Enqueue
  <1>4. /\ e.id = id /\ e.published = TRUE /\ e.adopted = (adopt # NoId)
        /\ DOMAIN asks' = 1..(n + 1) /\ \A i \in 1..n : asks'[i] = asks[i]
        /\ asks'[n + 1] = e
    <2> DEFINE shown == TRUE
    <2>1. Books /\ e = NewEntry(id, token, adopt, shown, "waiting")
      BY DEF IInv
    <2>2. shown = TRUE
      OBVIOUS
    <2> HIDE DEF e, shown
    <2>3. /\ e.id = id /\ e.published = shown /\ e.adopted = (adopt # NoId)
          /\ DOMAIN Append(asks, e) = 1..(n + 1)
          /\ \A i \in 1..n : Append(asks, e)[i] = asks[i]
          /\ Append(asks, e)[n + 1] = e
      BY <2>1, NewIs
    <2> QED BY <1>3, <2>2, <2>3
  <1>5. OpenAsks' = T \cup {n + 1}
    <2>1. open' = [d \in DOMAIN open \cup {id} |-> IF d = id THEN n + 1 ELSE open[d]]
      BY <1>2, <1>4 DEF Park
    <2>2. id \notin DOMAIN open
      BY <1>1, DrawnTyped
    <2> QED BY <2>1, <2>2 DEF OpenAsks
  <1>6. /\ id \in Ids /\ id \notin DOMAIN open
        /\ seq' \in [Kinds -> [BOOLEAN -> Nat]] /\ reserved' \in Seq(Ids)
    BY <1>1, DrawnTyped
  <1>7. Shows(view, outbox, asks, n, T) /\ outbox \in Seq(AskEvent)
    BY DEF Showing, Shows
  <1>8. Len(asks') = n + 1
    BY <1>1, <1>4 DEF IInv, Books, IsAsks
  <1>9. ev \in AskEvent
    BY <1>6 DEF Opening, AskEvent
  <1>10. \A i \in T : asks[i].published
    BY DEF Showing
  <1> HIDE DEF n, T, e, ev
  <1>11. outbox' = Append(outbox, ev)
    BY <1>3, <1>4, <1>7, <1>9 DEF ev
  <1>12. Numbers'
    BY <1>1, <1>4, <1>6, NumbersNew DEF SameAsk
  <1>13. IdsUpto(asks', n + 1)
    BY <1>4, <1>12 DEF IdsUpto, Numbers
  <1>14. Shows(view, outbox, asks', n + 1, T)
    <2>1. \A i \in T : asks'[i].id = asks[i].id
      BY <1>1, <1>4
    <2> QED BY <1>1, <1>7, <2>1, ShowsSame
  <1>15. \A j \in T : asks'[j].id # asks'[n + 1].id
    BY <1>1, <1>4, <1>6
  <1>16. Shows(view, outbox', asks', n + 1, T \cup {n + 1})
    <2>1. Shows(view, Append(outbox, Opening(asks'[n + 1].id)), asks', n + 1, T \cup {n + 1})
      BY <1>1, <1>13, <1>14, <1>15, ShowsOpening
    <2> QED BY <1>4, <1>11, <2>1 DEF ev
  <1>17. \A i \in OpenAsks' : asks'[i].published
    BY <1>1, <1>4, <1>5, <1>10
  <1>18. Shows(view, outbox, asks, Len(asks), OpenAsks)'
    BY <1>2, <1>5, <1>8, <1>16 DEF Shows, Bodied, Told, FoldAll
  <1> QED BY <1>2, <1>12, <1>17, <1>18 DEF Showing

\* A step that makes and ends none.
LEMMA MakesNoneShows ==
  ASSUME IInv, Numbers, Showing, MakesNone
  PROVE  Numbers' /\ Showing'
  <1> DEFINE n == Len(asks)
             T == OpenAsks
  <1>1. n \in Nat /\ DOMAIN asks = 1..n /\ T \subseteq 1..n
    BY OpenIs
  <1>2. /\ IsAsks(asks)' /\ DOMAIN asks' = DOMAIN asks
        /\ \A i \in DOMAIN asks : SameAsk(asks'[i], asks[i])
        /\ (closed => closed') /\ (cut' => cut \/ closed)
        /\ open' = open /\ seq' = seq /\ reserved' = reserved /\ outbox' = outbox /\ view' = view
    BY DEF MakesNone, idVars
  <1>3. OpenAsks' = T
    BY <1>2 DEF OpenAsks
  <1>4. Len(asks') = n
    BY <1>1, <1>2 DEF IsAsks
  <1>5. Numbers'
    BY <1>2 DEF Numbers, SameAsk
  <1>6. Shows(view, outbox, asks, n, T) /\ (cut => closed) /\ \A i \in T : asks[i].published
    BY DEF Showing
  <1> HIDE DEF n, T
  <1>7. Shows(view, outbox, asks', n, T)
    <2>1. \A i \in T : asks'[i].id = asks[i].id
      BY <1>1, <1>2 DEF SameAsk
    <2> QED BY <1>1, <1>6, <2>1, ShowsSame
  <1>8. \A i \in OpenAsks' : asks'[i].published
    BY <1>1, <1>2, <1>3, <1>6 DEF SameAsk
  <1>9. Shows(view, outbox, asks, Len(asks), OpenAsks)'
    BY <1>2, <1>3, <1>4, <1>7 DEF Shows, Bodied, Told, FoldAll
  <1> QED BY <1>2, <1>5, <1>6, <1>8, <1>9 DEF Showing

\* The client folds the oldest event.
LEMMA CommitShows ==
  ASSUME Numbers, Showing, Commit
  PROVE  Numbers' /\ Showing'
  <1>1. /\ outbox # <<>> /\ view' = Folded(view, Head(outbox)) /\ outbox' = Tail(outbox)
        /\ asks' = asks /\ open' = open /\ seq' = seq /\ reserved' = reserved /\ closed' = closed /\ cut' = cut
    BY DEF Commit, idVars
  <1>2. Numbers'
    BY <1>1 DEF Numbers
  <1>3. OpenAsks' = OpenAsks
    BY <1>1 DEF OpenAsks
  <1>4. /\ outbox \in Seq(AskEvent) /\ Bodied(view, outbox)
        /\ FoldAll(view, outbox) = Told(asks, Len(asks), OpenAsks)
    BY DEF Showing, Shows
  <1>5. outbox' \in Seq(AskEvent) /\ Bodied(view', outbox') /\ FoldAll(view', outbox') = FoldAll(view, outbox)
    BY <1>1, <1>4, BodiedTail
  <1>6. Shows(view', outbox', asks, Len(asks), OpenAsks)
    BY <1>4, <1>5 DEF Shows
  <1>7. Shows(view, outbox, asks, Len(asks), OpenAsks)'
    BY <1>1, <1>3, <1>6 DEF Shows, Bodied, Told, FoldAll
  <1> QED BY <1>1, <1>2, <1>3, <1>7 DEF Showing

LEMMA InitShows == ASSUME Init PROVE Numbers /\ Showing
  <1>1. /\ asks = <<>> /\ open = <<>> /\ outbox = <<>> /\ view = <<>> /\ reserved = <<>> /\ cut = FALSE
        /\ seq = [kind \in Kinds |-> [hidden \in BOOLEAN |-> 0]]
    BY DEF Init
  <1>2. Len(asks) = 0 /\ DOMAIN asks = {} /\ OpenAsks = {}
    BY <1>1 DEF OpenAsks
  <1>3. Numbers
    <2>1. reserved \in Seq(Ids) /\ seq \in [Kinds -> [BOOLEAN -> Nat]]
      BY <1>1
    <2> QED BY <1>2, <2>1 DEF Numbers
  <1>4. Shows(view, outbox, asks, 0, {})
    <2>1. Told(asks, 0, {}) = <<>>
      BY ToldNext
    <2>2. FoldAll(view, <<>>) = <<>>
      BY <1>1, FoldNothing
    <2>3. <<>> \in Seq(AskEvent) /\ Len(<<>>) = 0
      OBVIOUS
    <2>4. Bodied(view, <<>>)
      BY <2>3 DEF Bodied
    <2> QED BY <1>1, <2>1, <2>2, <2>3, <2>4 DEF Shows
  <1> QED BY <1>1, <1>2, <1>3, <1>4 DEF Showing

LEMMA NextShows ==
  ASSUME IInv, IInv', AsksAssumption, Numbers, Showing, [Next]_vars
  PROVE  Numbers' /\ Showing'
  <1>1. ASSUME NEW all, NEW S, NEW outcome, EndsOpen(all, S, outcome) PROVE Numbers' /\ Showing'
    BY <1>1, EndsOpenShows
  <1>2. CASE MakesOne
    BY <1>2, MakesEndedShows, MakesOpenShows DEF MakesOne
  <1>3. CASE MakesNone
    BY <1>3, MakesNoneShows
  <1>4. CASE Commit
    BY <1>4, CommitShows
  <1> QED BY <1>1, <1>2, <1>3, <1>4, Shapes

\* A client that has folded the log sees the open asks, in the order they were
\* opened, and every ending it will fold carries the body it has not been shown.
THEOREM ClientSeesOpenAsks == Spec => []ClientSeesAsks
  <1>1. Init => IInv /\ Numbers /\ Showing
    BY InitInv, InitShows, AsksAssumption
  <1>2. IInv /\ Numbers /\ Showing /\ [Next]_vars => (IInv /\ Numbers /\ Showing)'
    BY NextInv, NextShows, AsksAssumption
  <1>3. ASSUME IInv, Showing PROVE ClientSeesAsks
    <2> DEFINE n == Len(asks)
    <2>1. /\ outbox \in Seq(AskEvent) /\ Bodied(view, outbox)
          /\ FoldAll(view, outbox) = Told(asks, n, OpenAsks)
      BY <1>3 DEF Showing, Shows
    <2>2. InOrder(asks, OpenAsks) = Picked(n, OpenAsks)
      BY <1>3, OpenIs DEF InOrder, Picked, Upto
    <2>3. FoldLeft(Folded, view, outbox) =
            [j \in DOMAIN InOrder(asks, OpenAsks) |-> asks[InOrder(asks, OpenAsks)[j]].id]
      BY <2>1, <2>2 DEF FoldAll, Told
    <2>4. outbox # <<>> /\ ~Head(outbox).opening => (Head(outbox).body <=> Head(outbox).id \notin Range(view))
      BY <2>1, BodiedTail
    <2> QED BY <2>3, <2>4 DEF ClientSeesAsks
  <1> QED BY <1>1, <1>2, <1>3, PTL DEF Spec

-----------------------------------------------------------------------------
(* The kept endings *)

\* The kept endings k are of asks of E, each once, and every one of them is
\* found by its id, or a later one of the same id is.
Memory(all, k, E) ==
  /\ k.order \in Seq(E)
  /\ \A j, l \in 1..Len(k.order) : j < l => k.order[j] # k.order[l]
  /\ \A j \in 1..Len(k.order) : \E l \in j..Len(k.order) :
       all[k.order[j]].id \in DOMAIN k.map /\ k.map[all[k.order[j]].id] = k.order[l]
  /\ \A d \in DOMAIN k.map : \E i \in E : all[i].id = d

\* Only the ids of the asks matter, and it may be of more of them.
LEMMA MemorySame ==
  ASSUME NEW all, NEW als, NEW k, NEW E, NEW F, E \subseteq F, Memory(all, k, E),
         \A i \in E : als[i].id = all[i].id
  PROVE  Memory(als, k, F)
  <1>1. Len(k.order) \in Nat /\ k.order \in Seq(F) /\ \A j \in 1..Len(k.order) : k.order[j] \in E
    BY DEF Memory
  <1>2. \A j \in 1..Len(k.order) : all[k.order[j]].id = als[k.order[j]].id
    BY <1>1
  <1>3. \A d \in DOMAIN k.map : \E i \in F : als[i].id = d
    BY DEF Memory
  <1>4. \A j \in 1..Len(k.order) : \E l \in j..Len(k.order) :
          als[k.order[j]].id \in DOMAIN k.map /\ k.map[als[k.order[j]].id] = k.order[l]
    <2> SUFFICES ASSUME NEW j \in 1..Len(k.order)
                 PROVE  \E l \in j..Len(k.order) :
                          als[k.order[j]].id \in DOMAIN k.map /\ k.map[als[k.order[j]].id] = k.order[l]
      OBVIOUS
    <2>1. als[k.order[j]].id = all[k.order[j]].id
      BY <1>2
    <2>2. \E l \in j..Len(k.order) :
            all[k.order[j]].id \in DOMAIN k.map /\ k.map[all[k.order[j]].id] = k.order[l]
      BY DEF Memory
    <2> QED BY <2>1, <2>2
  <1> QED BY <1>1, <1>3, <1>4 DEF Memory

\* One more ending is kept, and names its id.
LEMMA MemoryGrows ==
  ASSUME NEW all, NEW k, NEW E, Memory(all, k, E), NEW i, i \notin E, NEW new,
         new.order = Append(k.order, i), DOMAIN new.map = DOMAIN k.map \cup {all[i].id},
         \A d \in DOMAIN new.map : new.map[d] = IF d = all[i].id THEN i ELSE k.map[d]
  PROVE  Memory(all, new, E \cup {i})
  <1> DEFINE F == E \cup {i}
             n == Len(k.order)
  <1>1. /\ n \in Nat /\ k.order \in Seq(F) /\ \A j \in 1..n : k.order[j] \in E
        /\ \A j, l \in 1..n : j < l => k.order[j] # k.order[l]
    BY DEF Memory
  <1>2. /\ new.order \in Seq(F) /\ Len(new.order) = n + 1
        /\ \A j \in 1..n : new.order[j] = k.order[j]
        /\ new.order[n + 1] = i
    <2>1. i \in F
      OBVIOUS
    <2> HIDE DEF F
    <2> QED BY <1>1, <2>1, AppendProperties
  <1>3. \A j \in 1..(n + 1) : j \in 1..n \/ j = n + 1
    BY <1>1
  <1>4. \A j, l \in 1..(n + 1) : j < l => new.order[j] # new.order[l]
    <2> SUFFICES ASSUME NEW j \in 1..(n + 1), NEW l \in 1..(n + 1), j < l
                 PROVE  new.order[j] # new.order[l]
      OBVIOUS
    <2>1. j \in 1..n
      BY <1>1
    <2> QED BY <1>1, <1>2, <1>3, <2>1
  <1>5. \A d \in DOMAIN new.map : new.map[d] = IF d = all[i].id THEN i ELSE k.map[d]
    OBVIOUS
  <1>6. ASSUME NEW j \in 1..(n + 1)
        PROVE  \E l \in j..(n + 1) : /\ all[new.order[j]].id \in DOMAIN new.map
                                     /\ new.map[all[new.order[j]].id] = new.order[l]
    <2>1. CASE j = n + 1
      <3>1. j \in j..(n + 1) /\ all[new.order[j]].id = all[i].id
        BY <1>1, <1>2, <2>1
      <3> QED BY <1>2, <1>5, <2>1, <3>1
    <2>2. CASE j \in 1..n
      <3> DEFINE d == all[k.order[j]].id
      <3>1. PICK l \in j..n : d \in DOMAIN k.map /\ k.map[d] = k.order[l]
        BY <2>2 DEF Memory
      <3>2. l \in 1..n /\ l \in j..(n + 1) /\ n + 1 \in j..(n + 1)
        BY <1>1, <2>2
      <3>3. all[new.order[j]].id = d /\ d \in DOMAIN new.map
        BY <1>2, <2>2, <3>1
      <3>4. new.map[d] = i \/ new.map[d] = k.order[l]
        BY <1>5, <3>1, <3>3
      <3> QED BY <1>2, <3>2, <3>3, <3>4
    <2> QED BY <1>3, <2>1, <2>2
  <1>7. \A d \in DOMAIN new.map : \E h \in F : all[h].id = d
    <2>1. \A d \in DOMAIN new.map : d \in DOMAIN k.map \/ d = all[i].id
      OBVIOUS
    <2> QED BY <2>1 DEF Memory
  <1> HIDE DEF F, n
  <1>8. Memory(all, new, F)
    <2> DEFINE t == new.order
    <2>1. t \in Seq(F) /\ Len(t) = n + 1
      BY <1>2
    <2>2. \A j, l \in 1..Len(t) : j < l => t[j] # t[l]
      BY <1>4, <2>1
    <2>3. \A j \in 1..Len(t) : \E l \in j..Len(t) :
            all[t[j]].id \in DOMAIN new.map /\ new.map[all[t[j]].id] = t[l]
      BY <1>6, <2>1
    <2> QED BY <1>7, <2>1, <2>2, <2>3 DEF Memory
  <1> QED BY <1>8 DEF F

\* The oldest goes, and its id unless a later ending has it.
LEMMA MemoryDrops ==
  ASSUME NEW all, NEW k, NEW E, Memory(all, k, E), k.order # <<>>, NEW new,
         new.order = Tail(k.order),
         new.map = [id \in {d \in DOMAIN k.map : k.map[d] # Head(k.order)} |-> k.map[id]]
  PROVE  Memory(all, new, E)
  <1> DEFINE n == Len(k.order)
             q == k.order
             t == new.order
  <1>1. /\ q \in Seq(E) /\ n \in Nat /\ n >= 1 /\ Head(q) = q[1]
        /\ \A j, l \in 1..n : j < l => q[j] # q[l]
    BY DEF Memory
  <1>2. t \in Seq(E) /\ Len(t) = n - 1 /\ \A j \in 1..(n - 1) : t[j] = q[j + 1]
    BY <1>1, HeadTailProperties
  <1>3. \A j, l \in 1..(n - 1) : j < l => t[j] # t[l]
    <2> SUFFICES ASSUME NEW j \in 1..(n - 1), NEW l \in 1..(n - 1), j < l PROVE t[j] # t[l]
      OBVIOUS
    <2>1. j + 1 \in 1..n /\ l + 1 \in 1..n /\ j + 1 < l + 1
      BY <1>1
    <2>2. q[j + 1] # q[l + 1]
      BY <1>1, <2>1
    <2> QED BY <1>2, <2>2
  <1>4. ASSUME NEW j \in 1..(n - 1)
        PROVE  \E l \in j..(n - 1) : all[t[j]].id \in DOMAIN new.map /\ new.map[all[t[j]].id] = t[l]
    <2> DEFINE d == all[q[j + 1]].id
    <2>1. j + 1 \in 1..n
      BY <1>1
    <2>2. PICK l \in (j + 1)..n : d \in DOMAIN k.map /\ k.map[d] = q[l]
      BY <2>1 DEF Memory
    <2>3. 1 < l /\ l \in 1..n /\ 1 \in 1..n /\ l - 1 \in j..(n - 1) /\ l - 1 \in 1..(n - 1) /\ (l - 1) + 1 = l
      BY <1>1, <2>2
    <2>4. q[1] # q[l]
      BY <1>1, <2>3
    <2>5. k.map[d] # Head(q)
      BY <1>1, <2>2, <2>4
    <2>6. d \in DOMAIN new.map /\ new.map[d] = q[l]
      BY <2>2, <2>5
    <2>7. t[l - 1] = q[l] /\ t[j] = q[j + 1]
      BY <1>2, <2>3
    <2> QED BY <2>3, <2>6, <2>7
  <1>5. \A d \in DOMAIN new.map : \E i \in E : all[i].id = d
    <2>1. \A d \in DOMAIN new.map : d \in DOMAIN k.map
      OBVIOUS
    <2> QED BY <2>1 DEF Memory
  <1>6. /\ t \in Seq(E) /\ \A j, l \in 1..Len(t) : j < l => t[j] # t[l]
        /\ \A j \in 1..Len(t) : \E l \in j..Len(t) :
             all[t[j]].id \in DOMAIN new.map /\ new.map[all[t[j]].id] = t[l]
    <2>1. Len(t) = n - 1
      BY <1>2
    <2> HIDE DEF n, q, t
    <2> QED BY <1>2, <1>3, <1>4, <2>1
  <1> QED BY <1>5, <1>6 DEF Memory

LEMMA KeptMemory ==
  ASSUME NEW all, NEW k, NEW E, Memory(all, k, E), NEW i, i \notin E
  PROVE  Memory(all, Kept(all, k, i), E \cup {i})
  <1> DEFINE order == Append(k.order, i)
             map == [id \in DOMAIN k.map \cup {all[i].id} |-> IF id = all[i].id THEN i ELSE k.map[id]]
             new == [order |-> order, map |-> map]
             less == [order |-> Tail(order), map |-> [id \in {d \in DOMAIN map : map[d] # Head(order)} |-> map[id]]]
             F == E \cup {i}
  <1>1. new.order = order /\ new.map = map /\ less.order = Tail(order)
        /\ less.map = [id \in {d \in DOMAIN map : map[d] # Head(order)} |-> map[id]]
    OBVIOUS
  <1>2. order # <<>>
    <2>1. k.order \in Seq(F) /\ i \in F
      BY DEF Memory
    <2> HIDE DEF F
    <2> QED BY <2>1
  <1>3. Kept(all, k, i) = IF Len(order) <= KeptAsks THEN new ELSE less
    BY DEF Kept
  <1>4. Memory(all, new, F)
    <2>1. /\ new.order = Append(k.order, i)
          /\ DOMAIN new.map = DOMAIN k.map \cup {all[i].id}
          /\ \A d \in DOMAIN new.map : new.map[d] = IF d = all[i].id THEN i ELSE k.map[d]
      OBVIOUS
    <2> HIDE DEF new
    <2> QED BY <2>1, MemoryGrows
  <1> HIDE DEF new, less, F
  <1> HIDE DEF order, map
  <1>5. Memory(all, less, F)
    BY <1>1, <1>2, <1>4, MemoryDrops
  <1> QED BY <1>3, <1>4, <1>5 DEF F

\* A section keeps the endings of the asks S, one after the other.
LEMMA KeepAllMemory ==
  ASSUME NEW all, NEW k, NEW E, Memory(all, k, E), NEW n \in Nat, NEW S, S \subseteq 1..n, S \cap E = {}
  PROVE  Memory(all, KeepAll(all, k, Picked(n, S)), E \cup S)
  <1> DEFINE Sofar(m) == E \cup (S \cap (1..m))
             M == {m \in Nat : Memory(all, KeepAll(all, k, Picked(m, S)), Sofar(m))}
  <1>1. 0 \in M
    <2>1. Sofar(0) = E
      OBVIOUS
    <2> QED BY <2>1, PickedNext, KeepNothing
  <1>2. ASSUME NEW m \in Nat, m \in M PROVE m + 1 \in M
    <2> DEFINE q == Picked(m, S)
               j == KeepAll(all, k, q)
               D == Sofar(m)
    <2>1. Memory(all, j, D)
      BY <1>2
    <2>2. q \in Seq(1..m)
      BY PickedIs DEF IsPicked
    <2>3. Picked(m + 1, S) = IF m + 1 \in S THEN Append(q, m + 1) ELSE q
      BY PickedNext
    <2>4. CASE m + 1 \in S
      <3>1. m + 1 \notin D /\ Sofar(m + 1) = D \cup {m + 1}
        BY <2>4
      <3> HIDE DEF q, D, Sofar
      <3>2. KeepAll(all, k, Append(q, m + 1)) = Kept(all, j, m + 1)
        <4>1. q \in Seq(1..(m + 1)) /\ m + 1 \in 1..(m + 1)
          BY <2>2
        <4> QED BY <4>1, KeepAppend
      <3> HIDE DEF j
      <3>3. Memory(all, Kept(all, j, m + 1), D \cup {m + 1})
        BY <2>1, <3>1, KeptMemory
      <3>4. Memory(all, KeepAll(all, k, Picked(m + 1, S)), Sofar(m + 1))
        BY <2>3, <2>4, <3>1, <3>2, <3>3
      <3> QED BY <3>4
    <2>5. CASE m + 1 \notin S
      <3>1. Sofar(m + 1) = D
        BY <2>5
      <3> HIDE DEF Sofar
      <3>2. Memory(all, KeepAll(all, k, Picked(m + 1, S)), Sofar(m + 1))
        BY <2>1, <2>3, <2>5, <3>1
      <3> QED BY <3>2
    <2> QED BY <2>4, <2>5
  <1>3. \A m \in Nat : m \in M
    <2> HIDE DEF M
    <2> QED BY <1>1, <1>2, Induction
  <1>4. Sofar(n) = E \cup S
    OBVIOUS
  <1> QED BY <1>3, <1>4

KeptNow == [order |-> doneOrder, map |-> done]

LEMMA RetireKept ==
  ASSUME NEW all, NEW n \in Nat, DOMAIN all = 1..n, NEW S, NEW outcome, NEW pre, Retire(all, S, outcome, pre)
  PROVE  LET k == KeepAll(all, KeptNow, Picked(n, S)) IN done' = k.map /\ doneOrder' = k.order
  <1>1. InOrder(all, S) = Picked(n, S)
    BY DEF InOrder, Picked, Upto
  <1> QED BY <1>1 DEF Retire, KeepAll, KeptNow

\* The same, of the endings as the next state has them.
LEMMA RetireMemory ==
  ASSUME NEW all, NEW n \in Nat, DOMAIN all = 1..n, NEW S, S \subseteq 1..n, NEW outcome, NEW pre,
         Retire(all, S, outcome, pre), NEW E, Memory(all, KeptNow, E), S \cap E = {}
  PROVE  Memory(all, KeptNow', E \cup S)
  <1> DEFINE k == KeepAll(all, KeptNow, Picked(n, S))
  <1>1. Memory(all, k, E \cup S)
    BY KeepAllMemory
  <1>2. KeptNow'.order = k.order /\ KeptNow'.map = k.map
    BY RetireKept DEF KeptNow
  <1> HIDE DEF k
  <1> QED BY <1>1, <1>2 DEF Memory

-----------------------------------------------------------------------------
(* What the ids tell *)

\* An ask had this id, and was shown or adopted if its number is a visible one.
Had(id) ==
  \E i \in DOMAIN asks : asks[i].id = id /\ (~id.hidden => asks[i].published \/ asks[i].adopted)

\* The books' ids are their asks'.
Named == \A d \in DOMAIN open : asks[open[d]].id = d

\* A minted number is behind its counter,
Minted ==
  \A i \in DOMAIN asks : ~asks[i].adopted => asks[i].id.n \in 1..seq[asks[i].id.kind][asks[i].id.hidden]

\* every number behind its counter was an ask's,
Spent ==
  \A kind \in Kinds, hidden \in BOOLEAN : \A n \in 1..seq[kind][hidden] : Had(Numbered(kind, hidden, n))

\* and so was every reserved one: a counter only passes over numbers that were
\* given.
Reserved == \A r \in Range(reserved) : Had(r)

Ended == DOMAIN asks \ OpenAsks

Remembered == Memory(asks, KeptNow, Ended)

History == Named /\ Minted /\ Spent /\ Reserved /\ Remembered

LEMMA HadStays ==
  ASSUME DOMAIN asks \subseteq DOMAIN asks', \A i \in DOMAIN asks : SameAsk(asks'[i], asks[i]),
         NEW id, Had(id)
  PROVE  Had(id)'
  BY DEF Had, SameAsk

LEMMA OpenHad ==
  ASSUME IInv, Showing, Named, NEW d \in DOMAIN open
  PROVE  Had(d)
  <1>1. open[d] \in DOMAIN asks /\ open[d] \in OpenAsks
    BY DEF IInv, Books, AllOpen, OpenAsks
  <1>2. asks[open[d]].published
    BY <1>1 DEF Showing
  <1> QED BY <1>1, <1>2 DEF Named, Had

\* A step that makes no ask.
LEMMA CountersSame ==
  ASSUME Minted, Spent, Reserved, UNCHANGED <<seq, reserved>>, DOMAIN asks' = DOMAIN asks,
         \A i \in DOMAIN asks : SameAsk(asks'[i], asks[i])
  PROVE  Minted' /\ Spent' /\ Reserved'
  <1>1. \A id : Had(id) => Had(id)'
    BY HadStays
  <1>2. seq' = seq /\ reserved' = reserved
    OBVIOUS
  <1>3. Minted'
    BY <1>2 DEF Minted, SameAsk
  <1>4. Spent'
    BY <1>1, <1>2 DEF Spent
  <1>5. Reserved'
    BY <1>1, <1>2 DEF Reserved
  <1> QED BY <1>3, <1>4, <1>5

\* A step that makes one.
LEMMA CountersNew ==
  ASSUME AsksAssumption, IInv, Numbers, Showing, Named, Minted, Spent, Reserved,
         NEW kind, NEW adopt, NEW hidden, NEW id, Drawn(kind, adopt, hidden, id),
         NEW n \in Nat, n = Len(asks), DOMAIN asks = 1..n, DOMAIN asks' = 1..(n + 1),
         \A i \in 1..n : SameAsk(asks'[i], asks[i]),
         asks'[n + 1].id = id, ~hidden => asks'[n + 1].published, asks'[n + 1].adopted = (adopt # NoId)
  PROVE  Minted' /\ Spent' /\ Reserved'
  <1>1. \A x : Had(x) => Had(x)'
    <2>1. DOMAIN asks \subseteq DOMAIN asks' /\ \A i \in DOMAIN asks : SameAsk(asks'[i], asks[i])
      OBVIOUS
    <2> QED BY <2>1, HadStays
  <1>2. /\ kind \in Kinds /\ hidden \in BOOLEAN /\ id \in Candidates(kind, adopt, hidden)
        /\ Reserves(adopt, id) /\ (adopt = NoId \/ adopt \in AdoptIds)
    BY DEF Drawn
  <1>3. \A i \in 1..(n + 1) : i \in 1..n \/ i = n + 1
    OBVIOUS
  <1>4. n + 1 \in DOMAIN asks'
    OBVIOUS
  <1>5. CASE adopt = NoId
    <2>1. Mints(id) /\ id \in Ahead(kind, hidden)
      BY <1>2, <1>5 DEF Reserves, Candidates
    <2>2. seq[kind][hidden] \in Nat /\ Len(reserved) \in Nat
      BY <1>2 DEF Numbers
    <2> DEFINE s == seq[kind][hidden]
               held == Len(reserved)
               last == s + held + n + 1
    <2>3. s \in Nat /\ last \in Nat
      <3>1. s \in Nat /\ held \in Nat
        BY <2>2
      <3> HIDE DEF s, held
      <3> QED BY <3>1
    <2>4. PICK m \in (s + 1)..last : id = Numbered(kind, hidden, m)
      BY <2>1 DEF Ahead
    <2>5. id.kind = kind /\ id.hidden = hidden /\ id.n = m /\ m \in Nat /\ s < m
      <3> HIDE DEF s, last
      <3>1. m \in Nat /\ s < m
        BY <2>3
      <3> QED BY <2>4, <3>1 DEF Numbered
    <2>6. Had(id)'
      BY <1>4, <2>5 DEF Had
    <2> DEFINE P == {r \in Ids : r.kind # id.kind \/ r.hidden # id.hidden \/ r.n > id.n}
    <2>7. /\ seq' = [seq EXCEPT ![kind][hidden] = m] /\ reserved' = Within(reserved, P)
          /\ \A other \in Ahead(kind, hidden) : other.n < m => other \in Range(reserved) \/ other \in DOMAIN open
      BY <2>1, <2>5 DEF Mints, CountsTo
    <2> HIDE DEF P, s, held, last
    <2>8. m <= last
      BY <2>3
    <2>9. \A k \in Kinds, h \in BOOLEAN : seq'[k][h] = IF k = kind /\ h = hidden THEN m ELSE seq[k][h]
      BY <1>2, <2>7 DEF Numbers
    <2>10. Minted'
      <3> SUFFICES ASSUME NEW i \in 1..(n + 1), ~asks'[i].adopted
                   PROVE  asks'[i].id.n \in 1..seq'[asks'[i].id.kind][asks'[i].id.hidden]
        BY DEF Minted
      <3>1. CASE i = n + 1
        <4>1. asks'[i].id.n = m /\ seq'[asks'[i].id.kind][asks'[i].id.hidden] = m
          BY <1>2, <2>5, <2>9, <3>1
        <4> QED BY <2>2, <2>5, <4>1 DEF s
      <3>2. CASE i \in 1..n
        <4> DEFINE d == asks[i].id
        <4>1. asks'[i].id = d /\ d \in Ids /\ ~asks[i].adopted
          BY <3>2 DEF SameAsk, Numbers
        <4>2. d.n \in 1..seq[d.kind][d.hidden] /\ d.kind \in Kinds /\ d.hidden \in BOOLEAN
          BY <3>2, <4>1 DEF Minted, Ids
        <4> HIDE DEF d
        <4>3. d.n \in 1..seq'[d.kind][d.hidden]
          <5>1. CASE d.kind = kind /\ d.hidden = hidden
            <6>1. seq'[d.kind][d.hidden] = m /\ d.n \in 1..s
              BY <2>9, <4>2, <5>1 DEF s
            <6> QED BY <2>3, <2>5, <6>1
          <5>2. CASE ~(d.kind = kind /\ d.hidden = hidden)
            <6>1. seq'[d.kind][d.hidden] = seq[d.kind][d.hidden]
              BY <2>9, <4>2, <5>2
            <6> QED BY <4>2, <6>1
          <5> QED BY <5>1, <5>2
        <4> QED BY <4>1, <4>3
      <3> QED BY <1>3, <3>1, <3>2
    <2>11. Spent'
      <3> SUFFICES ASSUME NEW k \in Kinds, NEW h \in BOOLEAN, NEW j \in 1..seq'[k][h]
                   PROVE  Had(Numbered(k, h, j))'
        BY DEF Spent
      <3>1. CASE k = kind /\ h = hidden
        <4>1. j \in 1..m
          BY <2>9, <3>1
        <4>2. CASE j = m
          BY <2>4, <2>6, <3>1, <4>2
        <4>3. CASE j \in 1..s
          BY <1>1, <3>1, <4>3 DEF Spent, s
        <4>4. CASE j \in (s + 1)..(m - 1)
          <5> DEFINE other == Numbered(kind, hidden, j)
          <5>1. j \in (s + 1)..last /\ j < m
            BY <2>5, <2>8, <2>3, <4>4
          <5>2. other \in Ahead(kind, hidden) /\ other.n = j
            BY <5>1 DEF Ahead, Numbered, s, held, last
          <5>3. other \in Range(reserved) \/ other \in DOMAIN open
            BY <2>7, <5>1, <5>2
          <5> HIDE DEF other
          <5>4. Had(other)
            BY <5>3, OpenHad DEF Reserved
          <5> QED BY <1>1, <3>1, <5>4 DEF other
        <4>5. j = m \/ j \in 1..s \/ j \in (s + 1)..(m - 1)
          BY <2>2, <2>5, <4>1 DEF s
        <4> QED BY <4>2, <4>3, <4>4, <4>5
      <3>2. CASE ~(k = kind /\ h = hidden)
        <4>1. j \in 1..seq[k][h]
          BY <2>9, <3>2
        <4> QED BY <1>1, <4>1 DEF Spent
      <3> QED BY <3>1, <3>2
    <2>12. Reserved'
      <3> DEFINE R == Range(reserved)
      <3>1. reserved \in Seq(R)
        BY DEF Numbers, Range
      <3> HIDE DEF R
      <3>2. reserved' \in Seq(R \cap P)
        BY <2>7, <3>1, WithinTyped
      <3>3. \A x \in Range(reserved') : x \in R
        BY <3>2 DEF Range
      <3> QED BY <1>1, <3>3 DEF Reserved, R
    <2> QED BY <2>10, <2>11, <2>12
  <1>6. CASE adopt # NoId
    <2>1. id = adopt /\ Adopts(id)
      BY <1>2, <1>6 DEF Candidates, Reserves
    <2>2. Had(id)'
      BY <1>4, <1>6 DEF Had
    <2>3. seq' = seq
      BY <2>1 DEF Adopts
    <2>4. Minted'
      <3> SUFFICES ASSUME NEW i \in 1..(n + 1), ~asks'[i].adopted
                   PROVE  asks'[i].id.n \in 1..seq[asks'[i].id.kind][asks'[i].id.hidden]
        BY <2>3 DEF Minted
      <3>1. i \in 1..n
        BY <1>3, <1>6
      <3> QED BY <3>1 DEF SameAsk, Minted
    <2>5. Spent'
      BY <1>1, <2>3 DEF Spent
    <2>6. \A r \in Range(reserved') : r \in Range(reserved) \/ r = id
      <3> DEFINE r == Append(reserved, id)
                 R == Range(reserved) \cup {id}
      <3>1. reserved' = reserved \/ reserved' = r \/ reserved' = Tail(r)
        BY <2>1 DEF Adopts
      <3>2. reserved \in Seq(R) /\ id \in R
        BY DEF Numbers, Range
      <3> HIDE DEF R
      <3>3. r \in Seq(R) /\ r # <<>>
        BY <3>2
      <3> HIDE DEF r
      <3>4. Tail(r) \in Seq(R)
        BY <3>3
      <3>5. reserved' \in Seq(R)
        BY <3>1, <3>2, <3>3, <3>4
      <3>6. \A x \in Range(reserved') : x \in R
        BY <3>5 DEF Range
      <3> QED BY <3>6 DEF R
    <2>7. Reserved'
      BY <1>1, <2>2, <2>6 DEF Reserved
    <2> QED BY <2>4, <2>5, <2>7
  <1> QED BY <1>5, <1>6

\* What Retire does to the books and to the memory, whatever the asks S are.
LEMMA RetireRemembers ==
  ASSUME NEW all, IsAsks(all), NEW n \in Nat, DOMAIN all = 1..n, NEW S, S \subseteq 1..n,
         NEW outcome, NEW pre, Retire(all, S, outcome, pre),
         NEW E, E \subseteq 1..n, Memory(all, KeptNow, E), S \cap E = {},
         \A d \in DOMAIN open : open[d] \in 1..n /\ all[open[d]].id = d
  PROVE  Named' /\ Memory(asks', KeptNow', E \cup S)
  <1>1. DOMAIN asks' = 1..n /\ \A i \in 1..n : asks'[i].id = all[i].id
    BY RetireAsks DEF SameAsk
  <1>2. open' = [d \in {d \in DOMAIN open : open[d] \notin S} |-> open[d]]
    BY DEF Retire
  <1>3. Named'
    BY <1>1, <1>2 DEF Named
  <1>4. Memory(all, KeptNow', E \cup S)
    BY RetireMemory
  <1> DEFINE F == E \cup S
  <1>5. \A i \in F : asks'[i].id = all[i].id
    BY <1>1
  <1>6. Memory(all, KeptNow', F)
    BY <1>4
  <1> HIDE DEF F
  <1>7. Memory(asks', KeptNow', F)
    BY <1>5, <1>6, MemorySame
  <1> QED BY <1>3, <1>7 DEF F

LEMMA EndsOpenHistory ==
  ASSUME IInv, History, NEW all, NEW S, NEW outcome, EndsOpen(all, S, outcome)
  PROVE  History'
  <1> DEFINE n == Len(asks)
             T == OpenAsks
             E == Ended
  <1>1. n \in Nat /\ DOMAIN asks = 1..n /\ T \subseteq 1..n
    BY OpenIs
  <1>2. IsAsks(all) /\ DOMAIN all = 1..n /\ \A i \in 1..n : SameAsk(all[i], asks[i])
    BY <1>1 DEF EndsOpen, SameAsks
  <1>3. S \subseteq T /\ seq' = seq /\ reserved' = reserved /\ Retire(all, S, outcome, <<>>)
    BY DEF EndsOpen, idVars
  <1>4. DOMAIN asks' = 1..n /\ OpenAsks' = T \ S /\ \A i \in 1..n : SameAsk(asks'[i], all[i])
    BY <1>2, <1>3, RetireAsks
  <1>5. \A i \in 1..n : SameAsk(asks'[i], asks[i]) /\ all[i].id = asks[i].id
    BY <1>2, <1>4 DEF SameAsk
  <1>6. Minted' /\ Spent' /\ Reserved'
    <2>1. UNCHANGED <<seq, reserved>> /\ DOMAIN asks' = DOMAIN asks
      BY <1>1, <1>3, <1>4
    <2> QED BY <1>1, <1>5, <2>1, CountersSame DEF History
  <1>7. E \subseteq 1..n /\ S \subseteq 1..n /\ S \cap E = {}
    BY <1>1, <1>3 DEF Ended
  <1>8. \A d \in DOMAIN open : open[d] \in 1..n /\ all[open[d]].id = d
    BY <1>1, <1>5 DEF History, Named, IInv, Books, AllOpen
  <1>9. Ended' = E \cup S
    BY <1>1, <1>3, <1>4 DEF Ended
  <1>10. Memory(asks, KeptNow, E)
    BY DEF History, Remembered
  <1> HIDE DEF n, T, E
  <1>11. Memory(all, KeptNow, E)
    <2>1. \A i \in E : all[i].id = asks[i].id
      BY <1>5, <1>7
    <2> QED BY <1>10, <2>1, MemorySame
  <1>12. Named' /\ Memory(asks', KeptNow', E \cup S)
    BY <1>1, <1>2, <1>3, <1>7, <1>8, <1>11, RetireRemembers
  <1> QED BY <1>6, <1>9, <1>12 DEF History, Remembered

LEMMA MakesEndedHistory ==
  ASSUME IInv, AsksAssumption, Numbers, Showing, History,
         NEW kind, NEW adopt, NEW id, NEW published \in BOOLEAN, NEW token, NEW waiter, NEW outcome,
         Drawn(kind, adopt, ~published, id), MakesEnded(id, token, adopt, published, waiter, outcome)
  PROVE  History'
  <1> DEFINE n == Len(asks)
             T == OpenAsks
             E == Ended
             e == NewEntry(id, token, adopt, published, waiter)
             all == Append(asks, e)
             S == {n + 1}
             pre == Shown(id, published)
  <1>1. n \in Nat /\ DOMAIN asks = 1..n /\ T \subseteq 1..n
    BY OpenIs
  <1>2. /\ IsAsks(all) /\ e.id = id /\ e.published = published /\ e.adopted = (adopt # NoId)
        /\ DOMAIN all = 1..(n + 1) /\ \A i \in 1..n : all[i] = asks[i]
        /\ all[n + 1] = e
    BY NewIs DEF IInv
  <1>3. Retire(all, S, outcome, pre)
    BY DEF MakesEnded, RetireNew
  <1>4. E \subseteq 1..n /\ Memory(asks, KeptNow, E) /\ E = 1..n \ T
    BY <1>1 DEF Ended, History, Remembered
  <1>5. \A d \in DOMAIN open : open[d] \in 1..n /\ asks[open[d]].id = d
    BY <1>1 DEF History, Named, IInv, Books, AllOpen
  <1>6. Ended' = DOMAIN asks' \ OpenAsks'
    BY DEF Ended
  <1> HIDE DEF n, T, E, e, all, S, pre
  <1>7. DOMAIN asks' = 1..(n + 1) /\ OpenAsks' = T \ S /\ \A i \in 1..(n + 1) : SameAsk(asks'[i], all[i])
    BY <1>2, <1>3, RetireAsks DEF T
  <1>8. n + 1 \in Nat /\ n + 1 \in 1..(n + 1) /\ n + 1 \notin T /\ n + 1 \notin E
    BY <1>1, <1>4
  <1>9. \A i \in 1..n : SameAsk(asks'[i], asks[i]) /\ all[i].id = asks[i].id
    <2>1. \A i \in 1..n : i \in 1..(n + 1)
      BY <1>1
    <2> QED BY <1>2, <1>7, <2>1
  <1>10. /\ asks'[n + 1].id = id /\ (asks'[n + 1].published <=> ~(~published))
         /\ asks'[n + 1].adopted = (adopt # NoId)
    BY <1>2, <1>7, <1>8 DEF SameAsk
  <1>11. Minted' /\ Spent' /\ Reserved'
    <2> DEFINE hidden == ~published
    <2>1. Drawn(kind, adopt, hidden, id) /\ (~hidden => asks'[n + 1].published)
      BY <1>10
    <2> HIDE DEF hidden
    <2>2. n = Len(asks) /\ Named /\ Minted /\ Spent /\ Reserved
      BY DEF n, History
    <2>3. DOMAIN asks' = 1..(n + 1) /\ \A i \in 1..n : SameAsk(asks'[i], asks[i])
      BY <1>7, <1>9
    <2>4. asks'[n + 1].id = id /\ asks'[n + 1].adopted = (adopt # NoId)
      BY <1>10
    <2> QED BY <1>1, <2>1, <2>2, <2>3, <2>4, CountersNew
  <1>12. S \subseteq 1..(n + 1) /\ S \cap E = {} /\ E \subseteq 1..(n + 1)
    BY <1>1, <1>4, <1>8 DEF S
  <1>13. \A d \in DOMAIN open : open[d] \in 1..(n + 1) /\ all[open[d]].id = d
    BY <1>1, <1>5, <1>9
  <1>14. Memory(all, KeptNow, E)
    <2>1. \A i \in E : all[i].id = asks[i].id
      BY <1>4, <1>9
    <2> QED BY <1>4, <2>1, MemorySame
  <1>15. Named' /\ Memory(asks', KeptNow', E \cup S)
    <2> DEFINE m == n + 1
    <2>1. /\ m \in Nat /\ DOMAIN all = 1..m /\ S \subseteq 1..m /\ E \subseteq 1..m
          /\ \A d \in DOMAIN open : open[d] \in 1..m /\ all[open[d]].id = d
      BY <1>2, <1>8, <1>12, <1>13
    <2> HIDE DEF m
    <2> QED BY <1>2, <1>3, <1>12, <1>14, <2>1, RetireRemembers
  <1>16. Ended' = E \cup S
    <2>1. T \ S = T
      BY <1>8 DEF S
    <2>2. 1..(n + 1) = (1..n) \cup {n + 1}
      BY <1>1
    <2> QED BY <1>4, <1>6, <1>7, <1>8, <2>1, <2>2 DEF S
  <1> QED BY <1>11, <1>15, <1>16 DEF History, Remembered

LEMMA MakesOpenHistory ==
  ASSUME IInv, AsksAssumption, Numbers, Showing, History, NEW kind, NEW adopt, NEW id, NEW token,
         Drawn(kind, adopt, FALSE, id), MakesOpen(id, token, adopt)
  PROVE  History'
  <1> DEFINE n == Len(asks)
             T == OpenAsks
             E == Ended
             e == NewEntry(id, token, adopt, TRUE, "waiting")
  <1>1. n \in Nat /\ DOMAIN asks = 1..n /\ T \subseteq 1..n
    BY OpenIs
  <1>2. Park(e)
    BY DEF MakesOpen
  <1>3. asks' = Append(asks, e) /\ done' = done /\ doneOrder' = doneOrder
    BY <1>2 DEF Park, keptVars
  <1>4. /\ e.id = id /\ e.published = TRUE /\ e.adopted = (adopt # NoId)
        /\ DOMAIN asks' = 1..(n + 1) /\ \A i \in 1..n : asks'[i] = asks[i]
        /\ asks'[n + 1] = e
    <2> DEFINE shown == TRUE
    <2>1. Books /\ e = NewEntry(id, token, adopt, shown, "waiting")
      BY DEF IInv
    <2>2. shown = TRUE
      OBVIOUS
    <2> HIDE DEF e, shown
    <2>3. /\ e.id = id /\ e.published = shown /\ e.adopted = (adopt # NoId)
          /\ DOMAIN Append(asks, e) = 1..(n + 1)
          /\ \A i \in 1..n : Append(asks, e)[i] = asks[i]
          /\ Append(asks, e)[n + 1] = e
      BY <2>1, NewIs
    <2> QED BY <1>3, <2>2, <2>3
  <1>5. open' = [d \in DOMAIN open \cup {id} |-> IF d = id THEN n + 1 ELSE open[d]]
    BY <1>2, <1>4 DEF Park
  <1>6. id \notin DOMAIN open
    BY <1>1, DrawnTyped
  <1>7. \A d \in DOMAIN open : open[d] \in 1..n /\ asks[open[d]].id = d
    BY <1>1 DEF History, Named, IInv, Books, AllOpen
  <1>8. E \subseteq 1..n /\ Memory(asks, KeptNow, E)
    BY <1>1 DEF Ended, History, Remembered
  <1>9. OpenAsks' = T \cup {n + 1}
    BY <1>5, <1>6 DEF OpenAsks
  <1>10. E \subseteq Ended'
    BY <1>1, <1>4, <1>9 DEF Ended
  <1>11. n = Len(asks)
    OBVIOUS
  <1> HIDE DEF n, T, E, e
  <1>12. Named'
    <2> SUFFICES ASSUME NEW d \in DOMAIN open' PROVE asks'[open'[d]].id = d
      BY DEF Named
    <2>1. CASE d = id
      BY <1>4, <1>5, <2>1
    <2>2. CASE d # id
      <3>1. d \in DOMAIN open /\ open'[d] = open[d]
        BY <1>5, <2>2
      <3> QED BY <1>4, <1>7, <3>1
    <2> QED BY <2>1, <2>2
  <1>13. Minted' /\ Spent' /\ Reserved'
    <2> DEFINE hidden == FALSE
    <2>1. Drawn(kind, adopt, hidden, id) /\ (~hidden => asks'[n + 1].published)
      BY <1>4
    <2> HIDE DEF hidden
    <2>2. \A i \in 1..n : SameAsk(asks'[i], asks[i])
      BY <1>4 DEF SameAsk
    <2>3. Named /\ Minted /\ Spent /\ Reserved
      BY DEF History
    <2>4. DOMAIN asks' = 1..(n + 1) /\ asks'[n + 1].id = id /\ asks'[n + 1].adopted = (adopt # NoId)
      BY <1>4
    <2> QED BY <1>1, <1>11, <2>1, <2>2, <2>3, <2>4, CountersNew
  <1>14. Memory(asks', KeptNow', Ended')
    <2>1. KeptNow' = KeptNow
      BY <1>3 DEF KeptNow
    <2>2. \A i \in E : asks'[i].id = asks[i].id
      BY <1>4, <1>8
    <2> DEFINE F == Ended'
    <2>3. E \subseteq F
      BY <1>10
    <2> HIDE DEF F
    <2>4. Memory(asks', KeptNow, F)
      BY <1>8, <2>2, <2>3, MemorySame
    <2> QED BY <2>1, <2>4 DEF F
  <1> QED BY <1>12, <1>13, <1>14 DEF History, Remembered

\* A step that changes neither the books nor what the ids say.
LEMMA SameHistory ==
  ASSUME IInv, History, UNCHANGED <<open, keptVars, idVars>>, DOMAIN asks' = DOMAIN asks,
         \A i \in DOMAIN asks : SameAsk(asks'[i], asks[i])
  PROVE  History'
  <1>1. open' = open /\ done' = done /\ doneOrder' = doneOrder /\ seq' = seq /\ reserved' = reserved
    BY DEF keptVars, idVars
  <1>2. Minted' /\ Spent' /\ Reserved'
    <2>1. UNCHANGED <<seq, reserved>>
      BY <1>1
    <2> QED BY <2>1, CountersSame DEF History
  <1>3. Named'
    BY <1>1 DEF History, Named, SameAsk, IInv, Books, AllOpen
  <1>4. KeptNow' = KeptNow /\ Ended' = Ended /\ Ended \subseteq Ended
    BY <1>1 DEF KeptNow, Ended, OpenAsks
  <1>5. \A i \in Ended : asks'[i].id = asks[i].id
    BY DEF SameAsk, Ended
  <1>6. Memory(asks', KeptNow, Ended)
    BY <1>4, <1>5, MemorySame DEF History, Remembered
  <1> QED BY <1>2, <1>3, <1>4, <1>6 DEF History, Remembered

LEMMA InitHistory == ASSUME Init PROVE History
  <1>1. /\ asks = <<>> /\ open = <<>> /\ done = <<>> /\ doneOrder = <<>> /\ reserved = <<>>
        /\ seq = [kind \in Kinds |-> [hidden \in BOOLEAN |-> 0]]
    BY DEF Init
  <1>2. Named /\ Minted
    BY <1>1 DEF Named, Minted
  <1>3. Spent
    <2>1. \A kind \in Kinds, hidden \in BOOLEAN : 1..seq[kind][hidden] = {}
      BY <1>1
    <2> QED BY <2>1 DEF Spent
  <1>4. Reserved
    <2>1. Range(reserved) = {}
      BY <1>1 DEF Range
    <2> QED BY <2>1 DEF Reserved
  <1>5. Remembered
    <2>1. KeptNow.order = <<>> /\ KeptNow.map = <<>>
      BY <1>1 DEF KeptNow
    <2>2. Len(<<>>) = 0 /\ DOMAIN <<>> = {} /\ <<>> \in Seq(Ended)
      OBVIOUS
    <2> QED BY <2>1, <2>2 DEF Remembered, Memory
  <1> QED BY <1>2, <1>3, <1>4, <1>5 DEF History

LEMMA NextHistory ==
  ASSUME IInv, AsksAssumption, Numbers, Showing, History, [Next]_vars
  PROVE  History'
  <1>1. ASSUME NEW all, NEW S, NEW outcome, EndsOpen(all, S, outcome) PROVE History'
    BY <1>1, EndsOpenHistory
  <1>2. CASE MakesOne
    BY <1>2, MakesEndedHistory, MakesOpenHistory DEF MakesOne
  <1>3. CASE MakesNone
    <2>1. /\ UNCHANGED <<open, keptVars, idVars>> /\ DOMAIN asks' = DOMAIN asks
          /\ \A i \in DOMAIN asks : SameAsk(asks'[i], asks[i])
      BY <1>3 DEF MakesNone
    <2> QED BY <2>1, SameHistory
  <1>4. CASE Commit
    <2>1. UNCHANGED <<open, keptVars, idVars>> /\ asks' = asks
      BY <1>4 DEF Commit
    <2> QED BY <2>1, SameHistory DEF SameAsk
  <1> QED BY <1>1, <1>2, <1>3, <1>4, Shapes

\* An ended ask that is still kept is found by its id.
LEMMA KeptIsFound ==
  ASSUME History, NEW i \in Range(doneOrder)
  PROVE  asks[i].id \in DOMAIN done
  <1>1. doneOrder \in Seq(Ended) /\ Len(doneOrder) \in Nat
    BY DEF History, Remembered, Memory, KeptNow
  <1>2. PICK j \in 1..Len(doneOrder) : i = doneOrder[j]
    BY <1>1 DEF Range
  <1> QED BY <1>2 DEF History, Remembered, Memory, KeptNow

\* The registry calls an id already resolved exactly when an ask of the session
\* had it, forgetting only adopted ones, and no visible number is passed over.
THEOREM IdsTellTheHistory == Spec => []IdsTellHistory
  <1>1. Init => IInv /\ Numbers /\ Showing /\ History
    BY InitInv, InitShows, InitHistory, AsksAssumption
  <1>2. IInv /\ Numbers /\ Showing /\ History /\ [Next]_vars => (IInv /\ Numbers /\ Showing /\ History)'
    BY NextInv, NextShows, NextHistory, AsksAssumption
  <1>3. ASSUME IInv, Numbers, History PROVE IdsTellHistory
    <2>1. ASSUME NEW i \in DOMAIN asks
          PROVE  \/ asks[i].id \in DOMAIN open \/ Verdict(asks[i].id) = "already_resolved"
                 \/ asks[i].adopted /\ i \notin Range(doneOrder)
      <3> DEFINE d == asks[i].id
      <3>1. d \in Ids /\ asks[i].adopted \in BOOLEAN
        BY <1>3 DEF Numbers
      <3>2. CASE ~asks[i].adopted
        <4>1. d.kind \in Kinds /\ d.hidden \in BOOLEAN /\ d.n \in Nat
          BY <3>1 DEF Ids
        <4>2. seq[d.kind][d.hidden] \in Nat
          BY <1>3, <4>1 DEF Numbers
        <4>3. d.n \in 1..seq[d.kind][d.hidden]
          BY <1>3, <3>2 DEF History, Minted
        <4> HIDE DEF d
        <4>4. d.n > 0 /\ d.n <= seq[d.kind][d.hidden]
          BY <4>1, <4>2, <4>3
        <4>5. Issued(d)
          BY <4>4 DEF Issued, Canonical
        <4>6. Verdict(d) = "already_resolved"
          BY <4>5 DEF Verdict
        <4> QED BY <4>6 DEF d
      <3>3. CASE asks[i].adopted /\ i \in Range(doneOrder)
        BY <1>3, <3>3, KeptIsFound DEF Verdict
      <3> QED BY <3>1, <3>2, <3>3
    <2>2. ASSUME NEW id \in [kind : Kinds, hidden : BOOLEAN, n : 0..(MaxAsks + 2)],
                 Verdict(id) = "already_resolved"
          PROVE  \E i \in DOMAIN asks : asks[i].id = id
      <3>1. id \in DOMAIN done \/ Issued(id)
        <4>1. "already_resolved" # "unknown_ask"
          OBVIOUS
        <4> QED BY <2>2, <4>1 DEF Verdict
      <3>2. CASE id \in DOMAIN done
        BY <1>3, <3>2 DEF History, Remembered, Memory, KeptNow, Ended
      <3>3. CASE Issued(id) /\ id \in Range(reserved)
        BY <1>3, <3>3 DEF History, Reserved, Had
      <3>4. CASE Issued(id) /\ id \notin Range(reserved)
        <4>1. /\ id.kind \in Kinds /\ id.hidden \in BOOLEAN /\ id.n \in Nat
              /\ id = Numbered(id.kind, id.hidden, id.n)
          BY AsksAssumption DEF Numbered, AsksAssumption
        <4>2. seq[id.kind][id.hidden] \in Nat
          BY <1>3, <4>1 DEF Numbers
        <4>3. id.n > 0 /\ id.n <= seq[id.kind][id.hidden]
          BY <3>4 DEF Issued, Canonical
        <4>4. id.n \in 1..seq[id.kind][id.hidden]
          BY <4>1, <4>2, <4>3
        <4>5. Had(id)
          BY <1>3, <4>1, <4>4 DEF History, Spent
        <4> QED BY <4>5 DEF Had
      <3> QED BY <3>1, <3>2, <3>3, <3>4
    <2>3. ASSUME NEW kind \in Kinds, NEW n \in 1..seq[kind][FALSE]
          PROVE  \E i \in DOMAIN asks :
                   asks[i].id = Numbered(kind, FALSE, n) /\ (asks[i].published \/ asks[i].adopted)
      <3>1. Had(Numbered(kind, FALSE, n)) /\ ~Numbered(kind, FALSE, n).hidden
        BY <1>3 DEF History, Spent, Numbered
      <3> QED BY <3>1 DEF Had
    <2> QED BY <2>1, <2>2, <2>3 DEF IdsTellHistory
  <1> QED BY <1>1, <1>2, <1>3, PTL DEF Spec
=============================================================================
