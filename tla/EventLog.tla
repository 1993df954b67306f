------------------------------ MODULE EventLog ------------------------------
(***************************************************************************)
(* A session's event log (src/internal/agent/eventlog.go): goroutines      *)
(* publish directly or leave batches in an outbox its drainer publishes,   *)
(* under one publishing boundary held across the blocking primary send;    *)
(* subscriptions replay from the journal file and the ring and go on live; *)
(* Close ends everything though nobody reads.                              *)
(*                                                                         *)
(*   log        the records committed: the batch each belongs to, or       *)
(*              Direct.  l.next is its length, a seq an index of it        *)
(*   ring       the recent seqs; lost and written what the journal's       *)
(*              writer lost and wrote of the records given to it           *)
(*   primary    how many events wait in the primary's buffer               *)
(*   sem        who holds the boundary                                     *)
(*   pc, made   where each publisher is in Publish; what was published     *)
(*   done       the session's own done channel                             *)
(*   outbox     the batches accepted and not taken; sizes those of all     *)
(*              accepted, and ticket the first seq each was told           *)
(*   enqueued, drained   the running totals a Flush compares               *)
(*   drainer, wake   the drainer and its wake-up                           *)
(*   flush      each Flush, and the count it waits for                     *)
(*   sub, registered   each subscription, and which of them are l.subs     *)
(*   phase, ending     how far Close is, and whom it has still to end      *)
(*                                                                         *)
(* A record's weight is one.  Notes, prompt attempts, the observer and the *)
(* counters are left out.  TryPublish is in one step: it never waits.      *)
(***************************************************************************)
EXTENDS Naturals, Sequences, FiniteSets

CONSTANTS
  Publishers, Flushers, Subs,
  NoPrimary, Journal,               \* the log's options
  PrimaryCap, RingCap,              \* 256 and 4096 in the source
  MaxItems, MaxBytes,               \* of a subscription
  BatchSizes,
  MaxPublishes, MaxBatches, MaxLost \* bounds

ASSUME EventLogAssumption ==
  /\ NoPrimary \in BOOLEAN /\ Journal \in BOOLEAN
  /\ {PrimaryCap, RingCap, MaxItems, MaxBytes, MaxPublishes, MaxBatches, MaxLost} \subseteq Nat
  /\ RingCap > 0
  /\ BatchSizes \subseteq Nat \ {0}
  /\ "free" \notin Publishers /\ "drainer" \notin Publishers

VARIABLES log, ring, lost, written, primary, sem, pc, made, done,
          outbox, sizes, ticket, enqueued, drained, drainer, wake, flush,
          sub, registered, phase, ending

recordVars == <<log, ring, sub, registered>>
fileVars == <<lost, written>>
publishVars == <<pc, made, done>>
outboxVars == <<outbox, sizes, ticket, enqueued, drained>>
drainVars == <<drainer, wake>>
closeVars == <<phase, ending>>
vars == <<recordVars, fileVars, primary, sem, publishVars, outboxVars, drainVars, flush, closeVars>>

\* A record that no batch holds.
Direct == 0

\* The three cutoffs Close sets on its way, and the end of its last section
\* under the boundary.
Cut == phase # "open"
Closed == phase \notin {"open", "cut"}
Closing == phase \in {"closing", "unregistered", "ended"}
Shut == phase \in {"unregistered", "ended"}

NotOpened ==
  [st |-> "none", prev |-> 0, hto |-> 0, leg |-> "pin", local |-> <<>>, live |-> <<>>,
   sending |-> 0, items |-> 0, bytes |-> 0, notify |-> FALSE,
   cause |-> "none", byLog |-> FALSE, tail |-> <<>>, tailErr |-> "no_rest"]

Init ==
  /\ log = <<>> /\ ring = <<>> /\ lost = {} /\ written = 0
  /\ primary = 0 /\ sem = "free"
  /\ pc = [p \in Publishers |-> "out"] /\ made = 0 /\ done = FALSE
  /\ outbox = <<>> /\ sizes = <<>> /\ ticket = <<>> /\ enqueued = 0 /\ drained = 0
  /\ drainer = [at |-> "none", batch |-> 0, left |-> 0, first |-> 0] /\ wake = FALSE
  /\ flush = [f \in Flushers |-> [st |-> "idle", target |-> 0]]
  /\ sub = [s \in Subs |-> NotOpened] /\ registered = {}
  /\ phase = "open" /\ ending = {}

-----------------------------------------------------------------------------
(* A commit *)

Last == Len(log)

Pushed(seq) ==
  IF Len(ring) >= RingCap THEN Append(Tail(ring), seq) ELSE Append(ring, seq)

Ended(s, cause) == IF s.cause = "none" THEN [s EXCEPT !.cause = cause] ELSE s

\* Mutant: the owner is not woken.
OfferSilently(s, seq) ==
  IF s.cause # "none" THEN s
  ELSE IF s.items >= MaxItems \/ s.bytes + 1 > MaxBytes THEN Ended(s, "slow")
  ELSE [s EXCEPT !.live = Append(@, seq), !.items = @ + 1, !.bytes = @ + 1]

\* What a publisher leaves of a subscription it offers a record to.
Offer(s, seq) ==
  IF s.cause # "none" THEN s
  ELSE IF s.items >= MaxItems \/ s.bytes + 1 > MaxBytes THEN Ended(s, "slow")
  ELSE [s EXCEPT !.live = Append(@, seq), !.items = @ + 1, !.bytes = @ + 1, !.notify = TRUE]

Commit(batch) ==
  LET seq == Last + 1
      offered == [s \in Subs |-> IF s \in registered THEN Offer(sub[s], seq) ELSE sub[s]]
  IN /\ log' = Append(log, batch)
     /\ ring' = Pushed(seq)
     /\ sub' = offered
     /\ registered' = {s \in registered : offered[s].cause = "none"}

\* The event goes to the primary first, unless there is none.
PrimaryRoom == NoPrimary \/ primary < PrimaryCap

Sent == primary' = IF NoPrimary THEN primary ELSE primary + 1

ReadPrimary ==
  /\ primary > 0 /\ primary' = primary - 1
  /\ UNCHANGED <<recordVars, fileVars, sem, publishVars, outboxVars, drainVars, flush, closeVars>>

-----------------------------------------------------------------------------
(* Direct publishers *)

\* Past the door of the in-flight region, to wait for the boundary.
Publish(p) ==
  /\ pc[p] = "out" /\ made < MaxPublishes
  /\ made' = made + 1
  /\ pc' = [pc EXCEPT ![p] = IF Closing THEN "out" ELSE "waiting"]
  /\ UNCHANGED <<recordVars, fileVars, primary, sem, done, outboxVars, drainVars, flush, closeVars>>

\* The cutoff and the session's end are looked at again inside.
Enter(p) ==
  /\ pc[p] = "waiting" /\ sem = "free"
  /\ IF Closed \/ done
       THEN pc' = [pc EXCEPT ![p] = "out"] /\ UNCHANGED sem
       ELSE pc' = [pc EXCEPT ![p] = "inside"] /\ sem' = p
  /\ UNCHANGED <<recordVars, fileVars, primary, made, done, outboxVars, drainVars, flush, closeVars>>

SendAndCommit(p) ==
  /\ pc[p] = "inside" /\ PrimaryRoom /\ Sent
  /\ Commit(Direct)
  /\ sem' = "free" /\ pc' = [pc EXCEPT ![p] = "out"]
  /\ UNCHANGED <<fileVars, made, done, outboxVars, drainVars, flush, closeVars>>

\* Where a publisher's wait selects on what gives its event up.
GivesUp(p) == pc[p] = "waiting" \/ (pc[p] = "inside" /\ ~NoPrimary)

\* Given up for everyone, on its context, on done or on the cutoff: nothing
\* was sent and no number is taken.
Abandon(p) ==
  /\ GivesUp(p)
  /\ sem' = IF sem = p THEN "free" ELSE sem
  /\ pc' = [pc EXCEPT ![p] = "out"]
  /\ UNCHANGED <<recordVars, fileVars, primary, made, done, outboxVars, drainVars, flush, closeVars>>

\* The abandonment that needs no context to end.
Freed(p) == (Closed \/ done) /\ Abandon(p)

TryPublish ==
  /\ made < MaxPublishes /\ made' = made + 1
  /\ ~Closed /\ sem = "free" /\ PrimaryRoom /\ Sent
  /\ Commit(Direct)
  /\ UNCHANGED <<fileVars, sem, pc, done, outboxVars, drainVars, flush, closeVars>>

CloseDone ==
  /\ ~done /\ done' = TRUE
  /\ UNCHANGED <<recordVars, fileVars, primary, sem, pc, made, outboxVars, drainVars, flush, closeVars>>

-----------------------------------------------------------------------------
(* The outbox, its drainer and the flushes *)

\* A batch after the cut is counted and dropped.
Enqueue(n) ==
  /\ Len(sizes) < MaxBatches /\ ~Cut
  /\ sizes' = Append(sizes, n) /\ ticket' = Append(ticket, 0)
  /\ outbox' = Append(outbox, Len(sizes) + 1)
  /\ enqueued' = enqueued + n
  /\ drainer' = IF drainer.at = "none" THEN [drainer EXCEPT !.at = "ready"] ELSE drainer
  /\ wake' = TRUE
  /\ UNCHANGED <<recordVars, fileVars, primary, sem, publishVars, drained, flush, closeVars>>

TakeBatch ==
  /\ drainer.at = "ready" /\ outbox # <<>>
  /\ outbox' = Tail(outbox)
  /\ drainer' = [at |-> "waiting", batch |-> Head(outbox), left |-> sizes[Head(outbox)], first |-> 0]
  /\ UNCHANGED <<recordVars, fileVars, primary, sem, publishVars, sizes, ticket, enqueued, drained,
                 wake, flush, closeVars>>

\* Nothing to take: it waits for a wake-up, or for the cut.
Park ==
  /\ drainer.at = "ready" /\ outbox = <<>> /\ ~Cut
  /\ drainer' = [drainer EXCEPT !.at = "parked"]
  /\ UNCHANGED <<recordVars, fileVars, primary, sem, publishVars, outboxVars, wake, flush, closeVars>>

Unpark ==
  /\ drainer.at = "parked" /\ (wake \/ Cut)
  /\ drainer' = [drainer EXCEPT !.at = "ready"] /\ wake' = FALSE
  /\ UNCHANGED <<recordVars, fileVars, primary, sem, publishVars, outboxVars, flush, closeVars>>

\* Mutant: the ticket counts from the last record before the batch.
EnterBatchAtLast ==
  /\ drainer.at = "waiting" /\ sem = "free"
  /\ sem' = "drainer"
  /\ drainer' = [drainer EXCEPT !.at = "inside", !.first = Last]
  /\ UNCHANGED <<recordVars, fileVars, primary, publishVars, outboxVars, wake, flush, closeVars>>

EnterBatch ==
  /\ drainer.at = "waiting" /\ sem = "free"
  /\ sem' = "drainer"
  /\ drainer' = [drainer EXCEPT !.at = "inside", !.first = Last + 1]
  /\ UNCHANGED <<recordVars, fileVars, primary, publishVars, outboxVars, wake, flush, closeVars>>

\* Mutant: the drainer's send does not select on the cut.
UnblockedByRoom == PrimaryRoom

\* From the cut on the primary is only tried.
Unblocked == PrimaryRoom \/ Cut

\* The ticket is answered once the whole batch is committed, inside.
CommitNext ==
  /\ drainer.at = "inside" /\ Unblocked
  /\ IF PrimaryRoom THEN Sent ELSE UNCHANGED primary
  /\ Commit(drainer.batch)
  /\ IF drainer.left = 1
       THEN /\ ticket' = [ticket EXCEPT ![drainer.batch] = drainer.first]
            /\ drainer' = [drainer EXCEPT !.at = "accounting", !.left = 0]
            /\ sem' = "free"
       ELSE /\ drainer' = [drainer EXCEPT !.left = @ - 1]
            /\ UNCHANGED <<ticket, sem>>
  /\ UNCHANGED <<fileVars, publishVars, outbox, sizes, enqueued, drained, wake, flush, closeVars>>

\* The flushes still parked are answered up to a total, and the rest with err.
Answered(total, err) ==
  [f \in Flushers |-> IF flush[f].st # "parked" THEN flush[f]
                      ELSE IF flush[f].target <= total THEN [flush[f] EXCEPT !.st = "flushed"]
                      ELSE [flush[f] EXCEPT !.st = err]]

CommitBatch ==
  /\ drainer.at = "accounting"
  /\ drained' = drained + sizes[drainer.batch]
  /\ flush' = Answered(drained', "parked")
  /\ drainer' = [drainer EXCEPT !.at = "ready"]
  /\ UNCHANGED <<recordVars, fileVars, primary, sem, publishVars, outbox, sizes, ticket, enqueued,
                 wake, closeVars>>

\* Mutant: it leaves at the cut.
ExitAtCut ==
  /\ drainer.at = "ready" /\ Cut
  /\ flush' = Answered(drained, "lost")
  /\ drainer' = [drainer EXCEPT !.at = "exited"]
  /\ UNCHANGED <<recordVars, fileVars, primary, sem, publishVars, outboxVars, wake, closeVars>>

\* Its only way out, with the waiters answered first.
Exit ==
  /\ drainer.at = "ready" /\ outbox = <<>> /\ Cut
  /\ flush' = Answered(drained, "lost")
  /\ drainer' = [drainer EXCEPT !.at = "exited"]
  /\ UNCHANGED <<recordVars, fileVars, primary, sem, publishVars, outboxVars, wake, closeVars>>

\* Mutant: an empty outbox is taken for a drained one.
FlushWhenEmpty(f) ==
  /\ flush[f].st = "idle"
  /\ flush' = [flush EXCEPT ![f] =
       [target |-> enqueued,
        st |-> IF Cut THEN "refused" ELSE IF outbox = <<>> THEN "flushed" ELSE "parked"]]
  /\ UNCHANGED <<recordVars, fileVars, primary, sem, publishVars, outboxVars, drainVars, closeVars>>

Flush(f) ==
  /\ flush[f].st = "idle"
  /\ flush' = [flush EXCEPT ![f] =
       [target |-> enqueued,
        st |-> IF Cut THEN "refused" ELSE IF drained >= enqueued THEN "flushed" ELSE "parked"]]
  /\ UNCHANGED <<recordVars, fileVars, primary, sem, publishVars, outboxVars, drainVars, closeVars>>

\* On its context or the session's done, unless it has just been answered.
GiveUpFlush(f) ==
  /\ flush[f].st = "parked"
  /\ flush' = [flush EXCEPT ![f].st = "gave_up"]
  /\ UNCHANGED <<recordVars, fileVars, primary, sem, publishVars, outboxVars, drainVars, closeVars>>

-----------------------------------------------------------------------------
(* Subscriptions *)

\* The ring's records after a seq.
RingAfter(a) ==
  LET first == IF ring # <<>> /\ a >= ring[1] THEN a - ring[1] + 2 ELSE 1
  IN SubSeq(ring, first, Len(ring))

Opened(prev, hto, pinned) ==
  [NotOpened EXCEPT !.st = "running", !.prev = prev, !.hto = hto,
                    !.leg = IF hto > prev THEN "head" ELSE "pin",
                    !.local = pinned, !.bytes = Len(pinned)]

\* Those that ended since the last sweep go with it.
Register(s, opened) ==
  /\ sub[s].st = "none" /\ sem = "free" /\ ~Closed
  /\ sub' = [sub EXCEPT ![s] = opened]
  /\ registered' = {r \in registered : sub[r].cause = "none"} \cup {s}
  /\ UNCHANGED <<log, ring, fileVars, primary, sem, publishVars, outboxVars, drainVars, flush, closeVars>>

SubscribeLive(s) == Register(s, Opened(Last, Last, <<>>))

\* The head the ring no longer holds comes from the file, which must have
\* recorded no gap in it.
Resume(s, a) ==
  LET pinned == RingAfter(a)
      hto == Last - Len(pinned)
  IN /\ Len(pinned) <= MaxBytes
     /\ hto > a => Journal /\ lost \cap (a + 1)..hto = {}
     /\ Register(s, Opened(a, hto, pinned))

\* Mutant: the record being sent is forgotten.
UndeliveredBuffered(s) == s.local \o s.live

\* Only the owner goroutine stops a subscription, and says what it still held.
Undelivered(s) ==
  (IF s.sending = 0 THEN <<>> ELSE <<s.sending>>) \o s.local \o s.live

Follows(prev, tail) == \A i \in DOMAIN tail : tail[i] = prev + i

Finished(s) ==
  LET tail == Undelivered(s)
      stopped == [s EXCEPT !.st = "finished", !.live = <<>>, !.local = <<>>, !.sending = 0]
  IN IF ~s.byLog THEN stopped
     ELSE IF s.leg = "head" THEN [stopped EXCEPT !.tailErr = "unavailable"]
     ELSE IF Follows(s.prev, tail) THEN [stopped EXCEPT !.tailErr = "none", !.tail = tail]
     ELSE [stopped EXCEPT !.tailErr = "hole"]

Step(s, next) ==
  /\ sub[s].st = "running" /\ sub' = [sub EXCEPT ![s] = next]
  /\ UNCHANGED <<log, ring, registered, fileVars, primary, sem, publishVars, outboxVars, drainVars,
                 flush, closeVars>>

\* The file's part, once the file has reached its end.
SendHead(s) ==
  /\ sub[s].leg = "head" /\ sub[s].sending = 0 /\ sub[s].cause = "none"
  /\ written >= sub[s].hto /\ sub[s].prev + 1 \notin lost
  /\ Step(s, [sub[s] EXCEPT !.sending = sub[s].prev + 1])

\* A gap, a writer that is late or failed, or an I/O error.
FailHead(s) ==
  /\ sub[s].leg = "head" /\ sub[s].sending = 0 /\ sub[s].cause = "none"
  /\ Step(s, Finished(Ended(sub[s], "cursor")))

\* Mutant: its bytes are released, and its place among the items is not.
HandOverKeepingItem(s) ==
  [s EXCEPT !.local = Tail(@), !.sending = Head(s.local), !.bytes = @ - 1]

\* A record's charge is released as its sending begins.
HandOver(s) ==
  [s EXCEPT !.local = Tail(@), !.sending = Head(s.local), !.bytes = @ - 1,
            !.items = IF s.leg = "live" THEN @ - 1 ELSE @]

Send(s) ==
  /\ sub[s].leg # "head" /\ sub[s].local # <<>> /\ sub[s].sending = 0 /\ sub[s].cause = "none"
  /\ Step(s, IF Head(sub[s].local) = sub[s].prev + 1 THEN HandOver(sub[s])
             ELSE Finished(Ended(sub[s], "hole")))

\* The reader takes it, though the subscription may just have ended.
Deliver(s) ==
  LET seq == sub[s].sending
  IN /\ seq # 0
     /\ Step(s, [sub[s] EXCEPT !.prev = seq, !.sending = 0,
                               !.leg = IF @ = "head" /\ seq = sub[s].hto THEN "pin" ELSE @])

TakeLive(s) ==
  /\ sub[s].leg \in {"pin", "live"} /\ sub[s].local = <<>> /\ sub[s].sending = 0
  /\ sub[s].cause = "none"
  /\ Step(s, IF sub[s].live = <<>> THEN [sub[s] EXCEPT !.leg = "parked"]
             ELSE [sub[s] EXCEPT !.leg = "live", !.local = sub[s].live, !.live = <<>>])

Notified(s) ==
  /\ sub[s].leg = "parked" /\ sub[s].notify
  /\ Step(s, [sub[s] EXCEPT !.leg = "live", !.notify = FALSE])

\* Every point the owner blocks at selects on the subscription's end.
Stop(s) == sub[s].cause # "none" /\ Step(s, Finished(sub[s]))

Detach(s) == sub[s].cause = "none" /\ Step(s, Ended(sub[s], "closed"))

OwnerStep(s) == SendHead(s) \/ FailHead(s) \/ Send(s) \/ TakeLive(s) \/ Notified(s) \/ Stop(s)

SubStep(s) ==
  \/ SubscribeLive(s)
  \/ \E a \in 0..Last : Resume(s, a)
  \/ OwnerStep(s) \/ Deliver(s) \/ Detach(s)

\* The journal's writer, behind its own queue: it writes a record or loses it.
WriteFile ==
  /\ Journal /\ written < Last
  /\ written' = written + 1
  /\ \/ UNCHANGED lost
     \/ Cardinality(lost) < MaxLost /\ lost' = lost \cup {written + 1}
  /\ UNCHANGED <<recordVars, primary, sem, publishVars, outboxVars, drainVars, flush, closeVars>>

-----------------------------------------------------------------------------
(* Close *)

CloseStep(from, to) ==
  /\ phase = from /\ phase' = to
  /\ UNCHANGED <<log, ring, fileVars, primary, sem, publishVars, outboxVars, drainVars, flush>>

\* Close is called: the outbox takes no more.
CutOutbox == CloseStep("open", "cut") /\ UNCHANGED <<sub, registered, ending>>

CutAdmission == CloseStep("cut", "closed") /\ UNCHANGED <<sub, registered, ending>>

\* The drainer is joined, and the in-flight region shut.
JoinDrainer ==
  /\ drainer.at \in {"none", "exited"}
  /\ CloseStep("closed", "closing") /\ UNCHANGED <<sub, registered, ending>>

\* Once the last publisher has left the in-flight region.
Unregister ==
  /\ \A p \in Publishers : pc[p] = "out"
  /\ sem = "free"
  /\ CloseStep("closing", "unregistered")
  /\ ending' = registered /\ registered' = {} /\ UNCHANGED sub

ClosedByLog(s) == IF s.cause = "none" THEN [s EXCEPT !.cause = "closed", !.byLog = TRUE] ELSE s

EndSubscription(s) ==
  /\ s \in ending /\ ending' = ending \ {s}
  /\ sub' = [sub EXCEPT ![s] = ClosedByLog(@)]
  /\ CloseStep("unregistered", "unregistered") /\ UNCHANGED registered

JoinOwners ==
  /\ ending = {} /\ \A s \in Subs : sub[s].st # "running"
  /\ CloseStep("unregistered", "ended") /\ UNCHANGED <<sub, registered, ending>>

Close ==
  \/ CutAdmission \/ JoinDrainer \/ Unregister \/ JoinOwners
  \/ \E s \in Subs : EndSubscription(s)

-----------------------------------------------------------------------------

DrainerStep == TakeBatch \/ Park \/ Unpark \/ EnterBatch \/ CommitNext \/ CommitBatch \/ Exit

PublisherStep(p) == Publish(p) \/ Enter(p) \/ SendAndCommit(p) \/ Abandon(p)

Next ==
  \/ \E p \in Publishers : PublisherStep(p)
  \/ TryPublish \/ CloseDone \/ ReadPrimary \/ WriteFile
  \/ \E n \in BatchSizes : Enqueue(n)
  \/ DrainerStep
  \/ \E f \in Flushers : Flush(f) \/ GiveUpFlush(f)
  \/ \E s \in Subs : SubStep(s)
  \/ CutOutbox \/ Close

Spec == Init /\ [][Next]_vars

\* The goroutines run; nobody has to read the primary or a subscription.
Fairness ==
  /\ WF_vars(DrainerStep) /\ WF_vars(Close)
  /\ \A p \in Publishers : WF_vars(Enter(p)) /\ WF_vars(SendAndCommit(p)) /\ WF_vars(Freed(p))
  /\ \A s \in Subs : WF_vars(OwnerStep(s))

FairSpec == Spec /\ Fairness

-----------------------------------------------------------------------------
(* Properties *)

TypeOK ==
  /\ log \in Seq(0..MaxBatches)
  /\ ring \in Seq(1..Last) /\ Len(ring) <= RingCap
  /\ lost \subseteq 1..Last /\ written \in 0..Last
  /\ primary \in 0..PrimaryCap
  /\ sem \in Publishers \cup {"free", "drainer"}
  /\ pc \in [Publishers -> {"out", "waiting", "inside"}] /\ made \in 0..MaxPublishes
  /\ phase \in {"open", "cut", "closed", "closing", "unregistered", "ended"}
  /\ ending \subseteq Subs /\ registered \subseteq Subs
  /\ \A s \in Subs : Len(sub[s].live) <= MaxItems /\ sub[s].bytes <= MaxBytes

\* What a reader of the log's sequence has of it.
FeedStatus(s) ==
  IF s.st = "none" THEN "idle"
  ELSE IF s.st = "running" THEN IF s.leg = "head" THEN "catching_up" ELSE "following"
  ELSE IF s.byLog THEN IF s.tailErr = "none" THEN "closed" ELSE s.tailErr
  ELSE IF s.cause = "hole" THEN "hole" ELSE "left"

FeedReader(s) ==
  [st |-> FeedStatus(s), at |-> s.prev, owed |-> {s.tail[i] : i \in DOMAIN s.tail}]

Shared == INSTANCE Feed WITH
  Readers <- Subs, head <- Last, open <- ~Shut,
  reader <- [s \in Subs |-> FeedReader(sub[s])]

\* The log keeps what it promises its readers: whatever the ring evicts, the
\* journal loses or the end interrupts, a subscription is given every record
\* after its start in order, never a hole, and one that Close ended is owed
\* exactly the rest (Subscribe, run, pump, send, finish, Rest).
ImplementsFeed == Shared!Spec

\* Batches are committed in the order they were enqueued, each one whole
\* before any other record, and a ticket is answered with the first number of
\* a batch that is committed to its end (publishBatch, Ticket).
BatchesWhole ==
  /\ \A i, j \in 1..Last : i < j /\ log[i] # Direct /\ log[j] # Direct => log[i] <= log[j]
  /\ \A i, j, k \in 1..Last : i < j /\ j < k /\ log[i] # Direct /\ log[i] = log[k] => log[j] = log[i]
  /\ \A b \in DOMAIN ticket :
       ticket[b] # 0 => {i \in 1..Last : log[i] = b} = ticket[b]..(ticket[b] + sizes[b] - 1)

\* A Flush returns nil only once everything enqueued before it is in the
\* record, and one that has parked is never told it came too late (Flush,
\* commitBatch, endWaiters).
FlushMeansCommitted ==
  \A f \in Flushers :
    /\ flush[f].st = "flushed" => Cardinality({i \in 1..Last : log[i] # Direct}) >= flush[f].target
    /\ flush[f].st # "lost"

\* What the outbox accepted is in the record, whole, before Close goes past
\* the drainer: closing skips the primary, and never an event (drain, Close).
AcceptedIsRecorded ==
  Closing =>
    \A b \in DOMAIN sizes : Cardinality({i \in 1..Last : log[i] = b}) = sizes[b]

\* A subscription is dropped for being slow only when the records it holds,
\* not counting one its reader may already have, fill its budget (offer,
\* handOver).
SlowOnlyWhenFull ==
  [][\A s \in Subs :
       sub[s].cause = "none" /\ sub'[s].cause = "slow" =>
         \/ Len(sub[s].live) + (IF sub[s].leg = "live" THEN Len(sub[s].local) ELSE 0) >= MaxItems
         \/ Len(sub[s].live) + Len(sub[s].local) >= MaxBytes]_vars

\* Close returns though nobody reads the primary or any subscription, with no
\* publisher, no flush and no owner left waiting (Close, awaitInFlight).
CloseEnds ==
  Cut ~> /\ phase = "ended"
         /\ \A p \in Publishers : pc[p] = "out"
         /\ \A f \in Flushers : flush[f].st # "parked"

\* A reader that keeps taking what it is sent comes to the end of the log, or
\* its subscription has ended: no wake-up of its owner is lost (offer, pump).
ReaderCatchesUp ==
  \A s \in Subs : WF_vars(Deliver(s)) =>
    []<>(sub[s].st = "running" /\ sub[s].cause = "none" => sub[s].prev = Last)

=============================================================================
