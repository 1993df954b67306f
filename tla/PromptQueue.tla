---------------------------- MODULE PromptQueue ----------------------------
(***************************************************************************)
(* The queue of follow-up prompts (src/internal/agent/queue.go) as a value:*)
(* a sequence of rows in send order.  The engine holds the queue under its *)
(* own mutex, so every method is one operator on the sequence.             *)
(*                                                                         *)
(* A row is its identity and its version.  The text of a row is what its   *)
(* version stands for: an edit makes a new version, so two versions of one *)
(* row are two texts.                                                      *)
(***************************************************************************)
EXTENDS Naturals, SequencesExt

CONSTANT QueueCap      \* queueCap: what Add refuses beyond (32 in the source)

ASSUME QueueCapAssumption == QueueCap \in Nat \ {0}

Row == [id : Nat \ {0}, ver : Nat]
NoRow == [id |-> 0, ver |-> 0]

Has(q, id) == \E i \in DOMAIN q : q[i].id = id
Position(q, id) == CHOOSE i \in DOMAIN q : q[i].id = id

\* The row an id names, as it stands; NoRow when it is not in the queue.
Lookup(q, id) == IF Has(q, id) THEN q[Position(q, id)] ELSE NoRow
HeadRow(q) == IF q = <<>> THEN NoRow ELSE Head(q)

\* Room in the queue for a row a client adds by hand.
HasRoom(q) == Len(q) < QueueCap

Add(q, row) == Append(q, row)

\* Back at the head, as it was; not bounded by the cap.
Restore(q, row) == <<row>> \o q

Edit(q, id) ==
  LET i == Position(q, id) IN [q EXCEPT ![i] = [id |-> id, ver |-> q[i].ver + 1]]
Take(q, id) == IF Has(q, id) THEN RemoveAt(q, Position(q, id)) ELSE q

(***************************************************************************)
(* The events of a change: what a client is told, with the position that a *)
(* client inserts at.                                                      *)
(***************************************************************************)
QueuedEvent(row, pos) == [k |-> "queued", row |-> row, pos |-> pos]
EditedEvent(row, pos) == [k |-> "edited", row |-> row, pos |-> pos]
SentEvent(row, pos) == [k |-> "sent", row |-> row, pos |-> pos]
RemovedEvent(row, pos) == [k |-> "removed", row |-> row, pos |-> pos]

\* Clear drops head first: each row was the head when it went.
ClearEvents(q) == [i \in DOMAIN q |-> RemovedEvent(q[i], 0)]
=============================================================================
