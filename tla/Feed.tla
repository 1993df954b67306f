--------------------------------- MODULE Feed ---------------------------------
(***************************************************************************)
(* What an event log promises the readers of its sequence: a reader gets   *)
(* every record after its start, in order and once, until it leaves or is  *)
(* ended with a reason; and once the log is shut, a reader the shutting    *)
(* ended is owed exactly the records it had not been given, or is told     *)
(* that they cannot be had because it was still catching up.               *)
(***************************************************************************)
EXTENDS Naturals

CONSTANT Readers

VARIABLES
  head,     \* how many records the log holds
  open,     \* whether it takes more
  reader    \* of each reader: where it stands, and what it is owed

Reading == {"catching_up", "following"}

Idle == [st |-> "idle", at |-> 0, owed |-> {}]

Init ==
  /\ head = 0 /\ open = TRUE
  /\ reader = [r \in Readers |-> Idle]

Commit ==
  /\ open /\ head' = head + 1
  /\ UNCHANGED <<open, reader>>

Shut ==
  /\ open /\ open' = FALSE
  /\ UNCHANGED <<head, reader>>

Stands(r, st, at, owed) ==
  /\ reader' = [reader EXCEPT ![r] = [st |-> st, at |-> at, owed |-> owed]]
  /\ UNCHANGED <<head, open>>

\* A reader starts after a record of its choice, or after the last one.
Join(r, from, st) ==
  /\ open /\ reader[r] = Idle /\ from <= head
  /\ Stands(r, st, from, {})

\* It is given the next record, and may have caught up by it.
Deliver(r) ==
  /\ reader[r].st \in Reading /\ reader[r].at < head
  /\ \E st \in {reader[r].st, "following"} : Stands(r, st, reader[r].at + 1, {})

\* It leaves, or is ended for a reason of its own: it is owed nothing.
Leave(r) ==
  /\ reader[r].st \in Reading
  /\ Stands(r, "left", reader[r].at, {})

LastWords(r) ==
  /\ ~open /\ reader[r].st = "following"
  /\ Stands(r, "closed", reader[r].at, (reader[r].at + 1)..head)

NoLastWords(r) ==
  /\ ~open /\ reader[r].st = "catching_up"
  /\ Stands(r, "unavailable", reader[r].at, {})

ReaderStep(r) ==
  \/ \E from \in 0..head, st \in Reading : Join(r, from, st)
  \/ Deliver(r) \/ Leave(r) \/ LastWords(r) \/ NoLastWords(r)

Next == Commit \/ Shut \/ \E r \in Readers : ReaderStep(r)

vars == <<head, open, reader>>

Spec == Init /\ [][Next]_vars
=============================================================================
