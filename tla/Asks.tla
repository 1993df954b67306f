-------------------------------- MODULE Asks --------------------------------
(***************************************************************************)
(* A session's ask registry (src/internal/agent/asks.go): a permission, a  *)
(* question or a plan is parked until a client answers it, its turn is     *)
(* cancelled or ends, its caller gives up, or the session closes.  Every   *)
(* section under r.mu is one step, and what it enqueues it enqueues in it. *)
(*                                                                         *)
(*   asks       every ask ever made, oldest first: what *askEntry points   *)
(*              at, with where its caller is in Ask.Wait.  The registry    *)
(*              holds only the ones in open and doneOrder                  *)
(*   open       the parked ask of each id.  r.order is left out: asks park *)
(*              in the order they are made                                 *)
(*   done       the kept ending each id names now; doneOrder all of them   *)
(*   seq        the two id counters of a kind                              *)
(*   reserved   r.reservedOrder, whose elements are r.reserved             *)
(*   turnSeq, turns, retired, closed   as in the source                    *)
(*   outbox, cut   the log's outbox, and whether Close has cut it off      *)
(*   view       the open asks of a client that folds the log               *)
(*              (src/internal/transcript/fold.go)                          *)
(*                                                                         *)
(* Bodies, answers and Report's delivery marks are left out: the registry  *)
(* takes no decision from them beyond whether an answer fits.              *)
(***************************************************************************)
EXTENDS Naturals, Sequences, FiniteSets, SequencesExt

CONSTANTS
  Kinds,            \* AskKind
  AdoptIds,         \* the ids callers choose for themselves
  EarlyOutcomes,    \* how the provider ends a request no handler saw
  KeptAsks, KeptReservations, KeptTurns,   \* 256, 256 and 64 in the source
  OutboxMax,        \* the outbox's soft bound
  MaxAsks, MaxTurns \* bounds

Ids == [kind : Kinds, hidden : BOOLEAN, n : Nat]

ASSUME AsksAssumption ==
  /\ AdoptIds \subseteq Ids
  /\ EarlyOutcomes \subseteq {"cancelled", "turn_ended", "closing"}
  /\ {KeptAsks, KeptReservations, KeptTurns, OutboxMax, MaxAsks, MaxTurns} \subseteq Nat
  /\ KeptAsks > 0

VARIABLES asks, open, done, doneOrder, seq, reserved,
          turnSeq, turns, retired, closed, outbox, cut, view

turnVars == <<turnSeq, turns, retired>>
idVars == <<seq, reserved>>
keptVars == <<done, doneOrder>>
logVars == <<cut, view>>
vars == <<asks, open, keptVars, idVars, turnVars, closed, outbox, logVars>>

\* The empty adopted id; the token of no turn, and one of another registry.
NoId == [kind |-> "none", hidden |-> FALSE, n |-> 0]
NoTurn == 0
Foreign == MaxTurns + 1

Outcomes == {"answered", "automatic", "cancelled", "turn_ended", "closing"}

\* A token's state; "forgotten" once keptTurns later ones have retired.
TurnStates == {"unminted", "live", "cancelled", "ended", "forgotten"}

Init ==
  /\ asks = <<>>
  /\ open = <<>> /\ done = <<>> /\ doneOrder = <<>>
  /\ seq = [kind \in Kinds |-> [hidden \in BOOLEAN |-> 0]]
  /\ reserved = <<>>
  /\ turnSeq = 0 /\ turns = [t \in 1..MaxTurns |-> "unminted"] /\ retired = <<>>
  /\ closed = FALSE
  /\ outbox = <<>> /\ cut = FALSE /\ view = <<>>

-----------------------------------------------------------------------------
(* The log *)

Room == ~cut /\ Len(outbox) < OutboxMax

Enqueue(evs) == outbox' = IF cut THEN outbox ELSE outbox \o evs

Opening(id) == [id |-> id, opening |-> TRUE, body |-> TRUE]

\* Mutant: an ending always carries its body.
EndingWithBody(e) == [id |-> e.id, opening |-> FALSE, body |-> TRUE]

\* An ending carries the body only when no opening did.
Ending(e) == [id |-> e.id, opening |-> FALSE, body |-> ~e.published]

\* The elements of s that are in S, in the order of s.
Within(s, S) == FoldLeft(LAMBDA t, x : IF x \in S THEN Append(t, x) ELSE t, <<>>, s)

\* The fold: an opening takes its place or a new one, an ending removes it.
Folded(shown, ev) ==
  IF ~ev.opening THEN Within(shown, Ids \ {ev.id})
  ELSE IF ev.id \in Range(shown) THEN shown ELSE Append(shown, ev.id)

-----------------------------------------------------------------------------
(* Ids *)

\* An id a counter accounts for; the others (n = 0) are custom names.
Canonical(id) == id.n > 0

Issued(id) ==
  Canonical(id) /\ (id.n <= seq[id.kind][id.hidden] \/ id \in Range(reserved))

Numbered(kind, hidden, n) == [kind |-> kind, hidden |-> hidden, n |-> n]

\* The numbers a counter may stop at: past it, and no further than every number
\* that could be taken.
Ahead(kind, hidden) ==
  {Numbered(kind, hidden, n) : n \in (seq[kind][hidden] + 1)
                                     ..(seq[kind][hidden] + Len(reserved) + Len(asks) + 1)}

\* The counter reaches id, past numbers all of which were taken; they are spent,
\* and their reservations dropped.
CountsTo(id, taken) ==
  /\ id \in Ahead(id.kind, id.hidden) \ taken
  /\ \A other \in Ahead(id.kind, id.hidden) : other.n < id.n => other \in taken
  /\ seq' = [seq EXCEPT ![id.kind][id.hidden] = id.n]
  /\ reserved' = Within(reserved, {r \in Ids : r.kind # id.kind \/ r.hidden # id.hidden \/ r.n > id.n})

\* mintLocked: the next number that is neither reserved nor an open ask's.
Mints(id) == CountsTo(id, Range(reserved) \cup DOMAIN open)

\* Mutant: an adopted number moves its counter up to it.
AdoptsByCounting(id) ==
  /\ seq' = IF Issued(id) \/ ~Canonical(id) THEN seq ELSE [seq EXCEPT ![id.kind][id.hidden] = id.n]
  /\ UNCHANGED reserved

\* accountForLocked: an adopted id ahead of its counter is remembered, and the
\* oldest of too many is not.
Adopts(id) ==
  /\ reserved' = IF Issued(id) \/ ~Canonical(id) THEN reserved
                 ELSE LET r == Append(reserved, id)
                      IN  IF Len(r) > KeptReservations THEN Tail(r) ELSE r
  /\ UNCHANGED seq

\* reserveLocked: an adopted id that no open ask holds, or a minted one.
Candidates(kind, adopt, hidden) == IF adopt = NoId THEN Ahead(kind, hidden) ELSE {adopt}

Reserves(adopt, id) ==
  IF adopt = NoId THEN Mints(id) ELSE id \notin DOMAIN open /\ Adopts(id)

-----------------------------------------------------------------------------
(* Endings *)

OpenAsks == {open[id] : id \in DOMAIN open}

\* The asks S of all, in the order they were opened.
InOrder(all, S) == Within([i \in DOMAIN all |-> i], S)

NewEntry(id, token, adopt, published, waiter) ==
  [id |-> id, token |-> token, adopted |-> adopt # NoId, published |-> published,
   outcome |-> "open", waiter |-> waiter]

\* keepLocked: the ending joins the kept ones and is what its id names; the
\* oldest goes, and its id with it only when it still names that ask.
Kept(all, k, i) ==
  LET order == Append(k.order, i)
      map   == [id \in DOMAIN k.map \cup {all[i].id} |-> IF id = all[i].id THEN i ELSE k.map[id]]
  IN  IF Len(order) <= KeptAsks THEN [order |-> order, map |-> map]
      ELSE [order |-> Tail(order),
            map |-> [id \in {d \in DOMAIN map : map[d] # Head(order)} |-> map[id]]]

\* retire, for each of the asks S of all in the order they were opened: the
\* record ends, the books forget it, the ending is kept and enqueued.  Their
\* endings follow the events pre in one batch.
Retire(all, S, outcome, pre) ==
  LET inOrder == InOrder(all, S)
      kept    == FoldLeft(LAMBDA k, i : Kept(all, k, i), [order |-> doneOrder, map |-> done], inOrder)
  IN  /\ asks' = [i \in DOMAIN all |-> IF i \in S THEN [all[i] EXCEPT !.outcome = outcome] ELSE all[i]]
      /\ open' = [id \in {d \in DOMAIN open : open[d] \notin S} |-> open[id]]
      /\ done' = kept.map /\ doneOrder' = kept.order
      /\ Enqueue(pre \o [j \in 1..Len(inOrder) |-> Ending(all[inOrder[j]])])

\* An ask that is never parked: opened and ended in one section.
RetireNew(e, outcome, pre) ==
  Retire(Append(asks, e), {Len(asks) + 1}, outcome, pre)

-----------------------------------------------------------------------------
(* Turns *)

BeginTurn ==
  /\ turnSeq < MaxTurns
  /\ turnSeq' = turnSeq + 1
  /\ turns' = [turns EXCEPT ![turnSeq + 1] = "live"]
  /\ UNCHANGED <<asks, open, keptVars, idVars, retired, closed, outbox, logVars>>

\* markLocked: the first end of a turn stays, for as long as it is kept.
Marks(token, how) ==
  /\ UNCHANGED turnSeq
  /\ IF token # NoTurn /\ turns[token] = "live"
     THEN LET ended == Append(retired, token)
              full  == Len(ended) > KeptTurns
          IN  /\ retired' = IF full THEN Tail(ended) ELSE ended
              /\ turns' = [t \in 1..MaxTurns |->
                             IF full /\ t = Head(ended) THEN "forgotten"
                             ELSE IF t = token THEN how ELSE turns[t]]
     ELSE UNCHANGED <<turns, retired>>

OfTurn(token) == {i \in OpenAsks : asks[i].token = token}

\* Every open ask ends, whatever its turn: nobody else would answer it.
CancelTurn(token) ==
  /\ Marks(token, "cancelled")
  /\ Retire(asks, OpenAsks, "cancelled", <<>>)
  /\ UNCHANGED <<idVars, closed, logVars>>

CancelOwnTurn(token) ==
  /\ token # NoTurn
  /\ Marks(token, "cancelled")
  /\ Retire(asks, OfTurn(token), "cancelled", <<>>)
  /\ UNCHANGED <<idVars, closed, logVars>>

EndTurn(token) ==
  /\ token # NoTurn
  /\ Marks(token, "ended")
  /\ Retire(asks, OfTurn(token), "turn_ended", <<>>)
  /\ UNCHANGED <<idVars, closed, logVars>>

\* The session closes its asks before it closes the log.
Close ==
  /\ ~closed /\ closed' = TRUE
  /\ Retire(asks, OpenAsks, "closing", <<>>)
  /\ UNCHANGED <<idVars, turnVars, logVars>>

CloseLog ==
  /\ closed /\ ~cut /\ cut' = TRUE
  /\ UNCHANGED <<asks, open, keptVars, idVars, turnVars, closed, outbox, view>>

-----------------------------------------------------------------------------
(* Asking *)

\* What is known of a token's turn: nothing, of another registry's.
Fate(token) ==
  IF token = NoTurn THEN "live" ELSE IF token = Foreign THEN "forgotten" ELSE turns[token]

\* Mutant: a turn nothing is known of is taken for a live one.
RefusalOfKnownTurn(token) ==
  CASE closed -> "closing"
    [] ~closed /\ Fate(token) = "ended" -> "turn_ended"
    [] ~closed /\ Fate(token) = "cancelled" -> "cancelled"
    [] ~closed /\ Fate(token) \in {"live", "forgotten"} -> IF Room THEN "none" ELSE "cancelled"

\* refusalLocked: why an Open cannot park.  A live turn's needs room in the log.
Refusal(token) ==
  CASE closed -> "closing"
    [] ~closed /\ Fate(token) \in {"ended", "forgotten"} -> "turn_ended"
    [] ~closed /\ Fate(token) = "cancelled" -> "cancelled"
    [] ~closed /\ Fate(token) = "live" -> IF Room THEN "none" ELSE "cancelled"

Park(e) ==
  /\ asks' = Append(asks, e)
  /\ open' = [id \in DOMAIN open \cup {e.id} |-> IF id = e.id THEN Len(asks) + 1 ELSE open[id]]
  /\ Enqueue(<<Opening(e.id)>>)
  /\ UNCHANGED keptVars

\* The token is one its handler read earlier: it may be stale by now.
Open(token, kind, adopt) ==
  /\ Len(asks) < MaxAsks
  /\ LET why == Refusal(token)
     IN  \E id \in Candidates(kind, adopt, why # "none") :
           LET e == NewEntry(id, token, adopt, why = "none", "waiting")
           IN  /\ Reserves(adopt, id)
               /\ IF why = "none" THEN Park(e) ELSE RetireNew(e, why, <<>>)
  /\ UNCHANGED <<turnVars, closed, logVars>>

\* The approval policy answers.  A question or plan it can answer is shown with
\* its answer; an id an open ask holds is minted over.
Automatic(kind, adopt, fits) ==
  LET shown == fits /\ kind # "permission"
      adopted == IF adopt \in DOMAIN open THEN NoId ELSE adopt
  IN  /\ Len(asks) < MaxAsks
      /\ \E id \in Candidates(kind, adopted, ~shown) :
           /\ Reserves(adopted, id)
           /\ RetireNew(NewEntry(id, NoTurn, adopted, shown, "none"),
                        IF fits THEN "automatic" ELSE "cancelled",
                        IF shown THEN <<Opening(id)>> ELSE <<>>)
      /\ UNCHANGED <<turnVars, closed, logVars>>

\* The provider answered before any handler ran.
AnsweredEarly(kind, outcome) ==
  /\ Len(asks) < MaxAsks
  /\ \E id \in Candidates(kind, NoId, TRUE) :
       /\ Mints(id)
       /\ RetireNew(NewEntry(id, NoTurn, NoId, FALSE, "none"), outcome, <<>>)
  /\ UNCHANGED <<turnVars, closed, logVars>>

\* A client answers; only a permission's answer may be a cancel.  An answer that
\* does not fit, and one the log has no room for, change nothing.
Answers(kind) == IF kind = "permission" THEN {"answered", "cancelled"} ELSE {"answered"}

Answer(id) ==
  /\ id \in DOMAIN open /\ Room
  /\ \E outcome \in Answers(id.kind) : Retire(asks, {open[id]}, outcome, <<>>)
  /\ UNCHANGED <<idVars, turnVars, closed, logVars>>

\* What Answer says of an id that no open ask holds.
Verdict(id) ==
  IF id \in DOMAIN done \/ Issued(id) THEN "already_resolved" ELSE "unknown_ask"

-----------------------------------------------------------------------------
(* Waiting *)

\* Wait's select takes the end of its caller's context, ready whenever it is.
GiveUp(i) ==
  /\ asks[i].waiter = "waiting"
  /\ asks' = [asks EXCEPT ![i].waiter = "givenUp"]
  /\ UNCHANGED <<open, keptVars, idVars, turnVars, closed, outbox, logVars>>

\* Mutant: the ask given up on is ended, whatever ended it before.
CancelsByCallAgain(i) ==
  /\ asks[i].waiter = "givenUp"
  /\ Retire([asks EXCEPT ![i].waiter = "stopping"], {i}, "cancelled", <<>>)
  /\ UNCHANGED <<idVars, turnVars, closed, logVars>>

\* Mutant: an ask of a turn is left to the turn's end.
CancelsByCallOutsideTurns(i) ==
  /\ asks[i].waiter = "givenUp"
  /\ Retire([asks EXCEPT ![i].waiter = "stopping"],
            IF asks[i].token = NoTurn THEN {i} \cap OpenAsks ELSE {}, "cancelled", <<>>)
  /\ UNCHANGED <<idVars, turnVars, closed, logVars>>

\* cancelByCall: the ask itself, if it is still open, and not what its id names.
CancelByCall(i) ==
  /\ asks[i].waiter = "givenUp"
  /\ Retire([asks EXCEPT ![i].waiter = "stopping"], {i} \cap OpenAsks, "cancelled", <<>>)
  /\ UNCHANGED <<idVars, turnVars, closed, logVars>>

\* e.done is closed: the waiter takes the record and marks it consumed.
Return(i) ==
  /\ asks[i].waiter \in {"waiting", "stopping"} /\ asks[i].outcome # "open"
  /\ asks' = [asks EXCEPT ![i].waiter = "returned"]
  /\ UNCHANGED <<open, keptVars, idVars, turnVars, closed, outbox, logVars>>

\* The drainer commits the oldest event, and the client folds it.
Commit ==
  /\ outbox # <<>>
  /\ view' = Folded(view, Head(outbox))
  /\ outbox' = Tail(outbox)
  /\ UNCHANGED <<asks, open, keptVars, idVars, turnVars, closed, cut>>

\* The session has gone and every caller has been answered.
Terminated ==
  /\ cut /\ outbox = <<>>
  /\ \A i \in DOMAIN asks : asks[i].waiter \in {"none", "returned"}
  /\ UNCHANGED vars

TurnStep ==
  \/ BeginTurn
  \/ \E token \in 0..turnSeq : CancelTurn(token) \/ CancelOwnTurn(token) \/ EndTurn(token)

AskStep ==
  \E kind \in Kinds :
    \/ \E adopt \in AdoptIds \cup {NoId} :
         \/ \E token \in (0..turnSeq) \cup {Foreign} : Open(token, kind, adopt)
         \/ \E fits \in BOOLEAN : Automatic(kind, adopt, fits)
    \/ \E outcome \in EarlyOutcomes : AnsweredEarly(kind, outcome)

WaitStep == \E i \in DOMAIN asks : GiveUp(i) \/ CancelByCall(i) \/ Return(i)

Next ==
  \/ TurnStep \/ AskStep \/ WaitStep
  \/ \E id \in DOMAIN open : Answer(id)
  \/ Close \/ CloseLog \/ Commit \/ Terminated

Spec == Init /\ [][Next]_vars

\* A goroutine in Wait runs on once it can: weak fairness of Waits(i), with what
\* enables it written out.
Waits(i) == i \in DOMAIN asks /\ (CancelByCall(i) \/ Return(i))

CanRun(i) ==
  /\ i \in DOMAIN asks
  /\ \/ asks[i].waiter = "givenUp"
     \/ asks[i].waiter \in {"waiting", "stopping"} /\ asks[i].outcome # "open"

FairSpec ==
  Spec /\ \A i \in 1..MaxAsks : []<>~CanRun(i) \/ []<><<Waits(i)>>_asks

-----------------------------------------------------------------------------
(* Properties *)

\* An ask that has not ended belongs to a session that has not closed and to no
\* turn that has: a request that raced its turn's end never parks, the agent
\* never waits on a card that nothing will take down.
NoAskOutlivesItsTurn ==
  \A i \in DOMAIN asks : asks[i].outcome = "open" =>
    ~closed /\ Fate(asks[i].token) = "live"

\* A client that has folded every event sees the open asks, in the order they
\* were opened, and the ending it folds next carries the body exactly when it
\* was not shown the opening.
ClientSeesAsks ==
  /\ LET parked == InOrder(asks, OpenAsks)
     IN  FoldLeft(Folded, view, outbox) = [j \in DOMAIN parked |-> asks[parked[j]].id]
  /\ outbox # <<>> /\ ~Head(outbox).opening =>
       (Head(outbox).body <=> Head(outbox).id \notin Range(view))

\* An id is "already resolved" exactly when an ask of this session had it: of a
\* minted id never anything else, of an adopted one as long as it is kept, and
\* of an id nobody was given never.  A visible number a counter has spent was shown, or
\* had been adopted: what no user sees does not renumber what they see.
IdsTellHistory ==
  /\ \A i \in DOMAIN asks :
       asks[i].id \in DOMAIN open \/ Verdict(asks[i].id) = "already_resolved"
       \/ (asks[i].adopted /\ i \notin Range(doneOrder))
  /\ \A id \in [kind : Kinds, hidden : BOOLEAN, n : 0..(MaxAsks + 2)] :
       Verdict(id) = "already_resolved" => \E i \in DOMAIN asks : asks[i].id = id
  /\ \A kind \in Kinds : \A n \in 1..seq[kind][FALSE] :
       \E i \in DOMAIN asks :
         asks[i].id = Numbered(kind, FALSE, n) /\ (asks[i].published \/ asks[i].adopted)

\* The first ending of an ask is its only one: a late cancel, a turn's end or a
\* second answer never changes what its caller took.
EndingIsFinal ==
  [][\A i \in DOMAIN asks : asks[i].outcome # "open" => asks'[i].outcome = asks[i].outcome]_vars

\* A caller that gives up, or whose ask has ended, comes back from Wait: no
\* other ask ever takes its place in the books.
WaitersReturn ==
  \A i \in 1..MaxAsks :
    (i \in DOMAIN asks /\ (asks[i].waiter = "givenUp" \/ (asks[i].waiter = "waiting" /\ asks[i].outcome # "open")))
      ~> (i \in DOMAIN asks /\ asks[i].waiter = "returned")
=============================================================================
