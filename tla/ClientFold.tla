----------------------------- MODULE ClientFold -----------------------------
(***************************************************************************)
(* What a client makes of the engine's events: the fold of the transcript  *)
(* model (src/internal/transcript/fold.go, foldQueue and foldTurn), which  *)
(* is the only view of the engine a client over a socket has.              *)
(*                                                                         *)
(*   rows      the queue band, in send order                               *)
(*   open      the turn whose started has been seen and whose ended has    *)
(*             not, 0 for none                                             *)
(*   promised  the successor the last ended named (Next), until its        *)
(*             started arrives                                             *)
(*   armed     a send-now is shown as waiting                              *)
(*   ok        no event has contradicted what the ones before it said      *)
(***************************************************************************)
EXTENDS Naturals, SequencesExt, PromptQueue

EmptyView == [rows |-> <<>>, open |-> 0, promised |-> 0, armed |-> FALSE, ok |-> TRUE]

FoldQueue(v, ev) ==
  LET known == Has(v.rows, ev.row.id)
      at == IF known THEN Position(v.rows, ev.row.id) ELSE 0
  IN  CASE ev.k = "queued" ->
             [v EXCEPT !.rows = IF known THEN [@ EXCEPT ![at] = ev.row]
                                ELSE InsertAt(@, (IF ev.pos > Len(@) THEN Len(@) ELSE ev.pos) + 1, ev.row),
                       !.ok = @ /\ ~known]
        [] ev.k = "edited" ->
             [v EXCEPT !.rows = IF known THEN [@ EXCEPT ![at] = ev.row] ELSE @,
                       !.ok = @ /\ known]
        [] OTHER ->
             [v EXCEPT !.rows = Take(@, ev.row.id), !.ok = @ /\ known]

\* A turn's brackets: one turn is open at a time, an ended closes the open
\* one, counts the rows the client then shows, and the successor it names is
\* the next to start.  A started whose origin is a send-now ends the arm: the
\* engine says nothing else when an armed send fires.
FoldTurn(v, ev) ==
  IF ev.k = "started"
  THEN [v EXCEPT !.open = ev.turn, !.promised = 0,
                 !.armed = @ /\ ev.origin # "send_now",
                 !.ok = @ /\ v.open = 0 /\ v.promised \in {0, ev.turn}]
  ELSE [v EXCEPT !.open = IF @ = ev.turn THEN 0 ELSE @, !.promised = ev.next,
                 !.ok = @ /\ v.open = ev.turn /\ v.promised = 0 /\ ev.pending = Len(v.rows)]

FoldSendNow(v, ev) ==
  [v EXCEPT !.armed = (ev.k = "armed"), !.ok = @ /\ v.armed = (ev.k = "disarmed")]

Fold(v, ev) ==
  IF ev.k \in {"queued", "edited", "sent", "removed"} THEN FoldQueue(v, ev)
  ELSE IF ev.k \in {"started", "ended"} THEN FoldTurn(v, ev)
  ELSE FoldSendNow(v, ev)

FoldAll(v, evs) == FoldLeft(Fold, v, evs)
=============================================================================
