------------------------------- MODULE Engine -------------------------------
(***************************************************************************)
(* The turn driver of the engine (src/internal/engine): admission, the     *)
(* current turn and its settlement, the queue behind it, the armed         *)
(* send-now, cancels, the close fence and the exit fence, composed with    *)
(* the session below it (Session) and the client above it (ClientFold).    *)
(*                                                                         *)
(* Everything the engine decides it decides in sections under one mutex,   *)
(* so a section is one step.  A section is written as a composition of     *)
(* operators on a section value x, one operator per function of the code:  *)
(*                                                                         *)
(*   x.e, x.s         the engine's and the session's state so far          *)
(*   x.log            the events enqueued so far                           *)
(*   x.qev, x.dis, x.st   the queue events, disarm deltas and started      *)
(*                    events a batch still has to place                    *)
(*                                                                         *)
(* eng is the state under e.mu; calls are the Cancel and Stop calls in     *)
(* flight, each of which holds the engine from its validation to its       *)
(* release; hosts are the callers of FenceClose.                           *)
(***************************************************************************)
EXTENDS Session, ClientFold

CONSTANTS
  RetryForeignTurn, StopOnNonEndTurn,   \* the ChainPolicy
  Commands,                             \* the commands this instance's clients send
  Calls,                                \* bound: cancels in flight at once
  Hosts,                                \* bound: close fences up at once
  MaxPrompts, MaxCancels, MaxEdits, MaxSteers, MaxFences   \* bounds on what clients send

ASSUME EngineAssumption ==
  /\ RetryForeignTurn \in BOOLEAN /\ StopOnNonEndTurn \in BOOLEAN
  /\ {MaxPrompts, MaxCancels, MaxEdits, MaxSteers, MaxFences} \subseteq Nat

VARIABLES eng, calls, hosts, used, view

vars == <<eng, ses, calls, hosts, used, view>>
Activities == {"starting", "idle", "working", "error", "closing"}

\* The current turn; id 0 is no turn.
NoTurn == [id |-> 0, row |-> NoRow, cancelAsked |-> FALSE, returned |-> FALSE, res |-> "none",
           unanswered |-> 0, retry |-> FALSE, retryDue |-> FALSE, givenUp |-> FALSE]
Turn == [id : Nat, row : Row \cup {NoRow}, cancelAsked : BOOLEAN, returned : BOOLEAN,
         res : Results \cup {"none"}, unanswered : Nat, retry : BOOLEAN, retryDue : BOOLEAN,
         givenUp : BOOLEAN]

\* The armed send-now: the turn it was armed against and the row it is (0: text
\* a client holds).
NoSend == [turn |-> 0, from |-> 0]
Send == [turn : Nat, from : Nat]

\* The exit fence: the fenced prompt's row while it waits, its turn once it runs.
NoFence == [up |-> FALSE, row |-> 0, turn |-> 0, ended |-> FALSE]
ExitFence == [up : BOOLEAN, row : Nat, turn : Nat, ended : BOOLEAN]

EngType ==
  [activity : Activities, startFailed : BOOLEAN, replaying : BOOLEAN,
   closed : BOOLEAN, stopped : BOOLEAN,
   cur : Turn, turnSeq : Nat,
   queue : Seq(Row), rowSeq : Nat,
   armed : Send, exit : ExitFence,
   holds : SUBSET Calls,          \* cancelsInFlight, as the calls it counts
   closeFences : SUBSET Hosts,    \* closeFences, as the hosts it counts
   passHeld : BOOLEAN,
   admitting : BOOLEAN,           \* bound: one interjection in flight
   fenced : BOOLEAN, drainOwed : BOOLEAN, sawForeign : BOOLEAN,
   recheck : BOOLEAN, kick : BOOLEAN, rearm : BOOLEAN, tick : BOOLEAN]

\* A Cancel or Stop: held from its validation, marked once the session has its
\* mark.  turn is the turn it was validated against, slot and wake the claim it
\* waits on in the session.
NoCall == [phase |-> "idle", turn |-> 0, stop |-> FALSE, slot |-> 0, wake |-> FALSE]
Call == [phase : {"idle", "held", "marked"}, turn : Nat, stop : BOOLEAN, slot : Nat, wake : BOOLEAN]

\* A host's fence: raised with the engine's facts, then decided.
NoHost == [phase |-> "none", busy |-> FALSE, nothingStarts |-> FALSE]
Host == [phase : {"none", "raised", "busy", "idle"}, busy : BOOLEAN, nothingStarts : BOOLEAN]

EngInit(loads) ==
  [activity |-> "starting", startFailed |-> FALSE, replaying |-> loads,
   closed |-> FALSE, stopped |-> FALSE, cur |-> NoTurn, turnSeq |-> 0,
   queue |-> <<>>, rowSeq |-> 0, armed |-> NoSend, exit |-> NoFence,
   holds |-> {}, closeFences |-> {}, passHeld |-> FALSE, admitting |-> FALSE,
   fenced |-> FALSE, drainOwed |-> FALSE, sawForeign |-> FALSE,
   recheck |-> FALSE, kick |-> FALSE, rearm |-> FALSE, tick |-> FALSE]

Init ==
  /\ SesInit
  /\ calls = [c \in Calls |-> NoCall]
  /\ hosts = [h \in Hosts |-> NoHost]
  /\ used = [prompts |-> 0, cancels |-> 0, edits |-> 0, steers |-> 0, fences |-> 0]
  /\ view = EmptyView
  /\ \E loads \in BOOLEAN : (loads => "Load" \in Commands) /\ eng = EngInit(loads)

-----------------------------------------------------------------------------
(* Events, and the section value *)

StartedEvent(t, origin) == [k |-> "started", turn |-> t, origin |-> origin]
EndedEvent(t, next, pending) == [k |-> "ended", turn |-> t, next |-> next, pending |-> pending]
ArmedEvent == [k |-> "armed"]
DisarmedEvent == [k |-> "disarmed"]

Enter == [e |-> eng, s |-> ses, log |-> <<>>, qev |-> <<>>, dis |-> <<>>, st |-> <<>>]
Place(x, evs) == [x EXCEPT !.log = @ \o evs, !.qev = <<>>, !.dis = <<>>, !.st = <<>>]

-----------------------------------------------------------------------------
(* Gates *)

\* Mutant: commands are not refused under a close fence.
RefusesButNotFenced(e) ==
  e.closed \/ e.stopped \/ e.startFailed \/ e.replaying \/ e.activity = "starting"

\* refusalLocked: what every command is refused by.
Refuses(e) ==
  \/ e.closed \/ e.stopped \/ e.startFailed \/ e.replaying
  \/ e.activity = "starting" \/ e.closeFences # {}

ExitFenceEnded(e) == e.exit.up /\ e.exit.ended

\* The exit fence lets through only a prompt that is a row at or ahead of the
\* fenced row while that one waits.
ExitFenced(e, from) ==
  /\ e.exit.up
  /\ ~ /\ from # 0 /\ e.exit.turn = 0 /\ ~e.exit.ended
       /\ Has(e.queue, from)
       /\ Has(e.queue, e.exit.row) => Position(e.queue, from) <= Position(e.queue, e.exit.row)

\* Mutant: a turn may start while a cancel is on its way to the session.
FreeUnderCancel(e) == e.cur.id = 0 /\ ~Refuses(e) /\ ~ExitFenceEnded(e)

\* canStartLocked but for its last term, the session's flag.
Free(e) == e.cur.id = 0 /\ e.holds = {} /\ ~Refuses(e) /\ ~ExitFenceEnded(e)
CanStart(x) == Free(x.e) /\ ~ForeignTurn(x.s)

\* Mutant: the retrying client is not held back by a cancel either.
CanSubmitUnderCancel(x) ==
  IF RetryForeignTurn THEN x.e.cur.id = 0 /\ ~Refuses(x.e) ELSE CanStart(x)

\* A client that waits a refusal out is not gated by the flag it would wait for.
CanSubmit(x) ==
  IF RetryForeignTurn THEN x.e.cur.id = 0 /\ x.e.holds = {} /\ ~Refuses(x.e) ELSE CanStart(x)

\* foreignLocked: a TRUE answer is noted for the section's fence sync.
Look(x) == [x EXCEPT !.e.sawForeign = @ \/ (Native /\ ForeignTurn(x.s))]
LookIf(x, reads) == IF reads THEN Look(x) ELSE x

-----------------------------------------------------------------------------
(* The admission fence: raised first in a section that reads the flag,     *)
(* claims or validates a cancel, and brought to what the engine then is on *)
(* every section's way out.                                                *)

Raise(x) == IF Native THEN [x EXCEPT !.e.fenced = TRUE, !.s = FenceUp(@)] ELSE x
Lower(x) == IF x.e.fenced THEN [x EXCEPT !.e.fenced = FALSE, !.s = FenceDown(@)] ELSE x

\* Mutant: nothing lifts a fence whose row is gone.
NeverLifted(x) == x

\* A fence whose row left the queue without becoming a turn is lifted.
LiftExitFence(x) ==
  IF x.e.exit.up /\ ~x.e.exit.ended /\ x.e.exit.turn = 0 /\ ~Has(x.e.queue, x.e.exit.row)
  THEN [x EXCEPT !.e.exit = NoFence] ELSE x

\* The owed-drain latch: rows queued on an idle engine behind the agent's turn.
SettleOwedDrain(x) ==
  LET y == [x EXCEPT !.e.sawForeign = FALSE]
  IN  IF x.e.cur.id # 0 \/ x.e.activity # "idle" \/ x.e.queue = <<>> \/ Refuses(x.e)
      THEN [y EXCEPT !.e.drainOwed = FALSE]
      ELSE IF x.e.drainOwed THEN y
      ELSE IF x.e.sawForeign THEN [y EXCEPT !.e.drainOwed = TRUE]
      ELSE IF x.e.holds = {} THEN [Raise(y) EXCEPT !.e.drainOwed = ForeignTurn(x.s)]
      ELSE y

\* Mutant: the ended turn of the exit fence does not hold the session back.
FenceWantBeforeExit(e) ==
  \/ e.closed \/ e.stopped \/ e.cur.id # 0 \/ e.holds # {} \/ e.closeFences # {}
  \/ e.drainOwed

FenceWant(e) ==
  \/ e.closed \/ e.stopped \/ e.cur.id # 0 \/ e.holds # {} \/ e.closeFences # {}
  \/ ExitFenceEnded(e) \/ e.drainOwed

Sync(x) ==
  LET y == LiftExitFence(x)
      z == SettleOwedDrain(y)
  IN  IF ~Native THEN y ELSE IF FenceWant(z.e) THEN Raise(z) ELSE Lower(z)

\* The agent's own turn can end while a section runs: it takes s.mu, not e.mu.
Meanwhile(x) ==
  {x} \cup (IF Wake(x.s) /\ x.s.agent = "running" THEN {[x EXCEPT !.s = WakeEnded(@)]} ELSE {})

\* The ways out of a section, with the fence's sync and without.
Commit(x) == eng' = x.e /\ ses' = x.s /\ view' = FoldAll(view, x.log)
Leave(x) == \E y \in Meanwhile(x) : Commit(Sync(y))
-----------------------------------------------------------------------------
(* The queue and the armed send, as a section changes them *)

\* takeRowLocked and the drain's pop: a row leaves to be prompted.
SendRow(x, id) ==
  [x EXCEPT !.qev = Append(@, SentEvent(Lookup(x.e.queue, id), Position(x.e.queue, id) - 1)),
            !.e.queue = Take(@, id)]

ClearQueue(x) == [x EXCEPT !.qev = @ \o ClearEvents(x.e.queue), !.e.queue = <<>>]

\* Mutant: the send is disarmed and no delta says so.
DisarmSilently(x) == [x EXCEPT !.e.armed = NoSend]

\* disarmLocked: the delta is placed by the batch it belongs to.
Disarm(x) ==
  IF x.e.armed = NoSend THEN x
  ELSE [x EXCEPT !.e.armed = NoSend, !.dis = Append(@, DisarmedEvent)]

-----------------------------------------------------------------------------
(* Claiming *)

\* claimLocked: Begin first, then the turn is current.  A turn made of the
\* fenced row is the fenced turn from here.
Claim(x, row, origin) ==
  LET id == x.e.turnSeq + 1
      exit == x.e.exit
      fencedRow == exit.up /\ exit.turn = 0 /\ row # NoRow /\ row.id = exit.row
  IN  [x EXCEPT !.s = Begin(Raced(@), id, row.id),
                !.e.turnSeq = id,
                !.e.cur = [NoTurn EXCEPT !.id = id, !.row = row],
                !.e.activity = "working",
                !.e.exit = IF fencedRow THEN [exit EXCEPT !.turn = id] ELSE exit,
                !.st = Append(@, StartedEvent(id, origin))]

\* The armed send takes its row as it stands now; text a client holds has none.
FireArmed(x) ==
  LET from == x.e.armed.from
      y == Claim([x EXCEPT !.e.armed = NoSend], Lookup(x.e.queue, from), "send_now")
  IN  IF from = 0 THEN y ELSE SendRow(y, from)

DrainHead(x) == SendRow(Claim(x, HeadRow(x.e.queue), "drain"), HeadRow(x.e.queue).id)

ArmedRowGone(e) == e.armed # NoSend /\ e.armed.from # 0 /\ ~Has(e.queue, e.armed.from)

\* nextLocked: the armed send first, then the head of the queue if it may run.
Successor(x, mayRun) ==
  LET y == LookIf(x, x.e.activity = "idle" /\ Free(x.e))
      z == IF ArmedRowGone(y.e) THEN Disarm(y) ELSE y
  IN  IF y.e.activity # "idle" \/ ~CanStart(y)
      THEN [y EXCEPT !.e.passHeld = @ \/ y.e.closeFences # {}]
      ELSE IF z.e.armed # NoSend THEN FireArmed(z)
      ELSE IF mayRun /\ z.e.queue # <<>> THEN DrainHead(z)
      ELSE z

\* drainLocked
Drain(x) == LET y == Successor(x, TRUE) IN Place(y, y.dis \o y.qev \o y.st)

-----------------------------------------------------------------------------
(* Settling *)

\* A row the agent's own turn refused, under a policy that does not wait for it.
RowRefused(t) == t.row # NoRow /\ t.res = "foreign" /\ ~RetryForeignTurn
\* Mutant: any failure of a row's turn puts the row back.
RestoresAnyFailure(e, t) == t.row # NoRow /\ t.res \notin StopReasons /\ ~t.cancelAsked /\ ~e.stopped
Restores(e, t) == RowRefused(t) /\ ~t.cancelAsked /\ ~e.stopped
CancelledRefusal(t) == RowRefused(t) /\ t.cancelAsked

\* The steers a turn could not answer go back to the head, oldest first: each is
\* a row of its own, minted last first.
SteerRows(seq, n) == [i \in 1..n |-> [id |-> seq + n + 1 - i, ver |-> 0]]

\* Mutant: announced first to last, each at the head.
PutBackSteersReversed(x, n) ==
  LET rows == SteerRows(x.e.rowSeq, n)
  IN  [x EXCEPT !.qev = @ \o [i \in 1..n |-> QueuedEvent(rows[i], 0)],
                !.e.queue = rows \o @, !.e.rowSeq = @ + n]

PutBackSteers(x, n) ==
  LET rows == SteerRows(x.e.rowSeq, n)
  IN  [x EXCEPT !.qev = @ \o [i \in 1..n |-> QueuedEvent(rows[n + 1 - i], 0)],
                !.e.queue = rows \o @, !.e.rowSeq = @ + n]

\* restoreLocked: the row is back as it was, nothing is claimed, and a paced
\* recheck is asked for.
RestoreTurn(x, t) ==
  LET y == [x EXCEPT !.e.queue = Restore(@, t.row),
                     !.qev = Append(@, QueuedEvent(t.row, 0)),
                     !.e.exit = IF @.up /\ @.turn = t.id THEN [@ EXCEPT !.turn = 0] ELSE @,
                     !.e.cur = NoTurn, !.e.activity = "idle",
                     !.e.recheck = TRUE, !.e.rearm = TRUE]
      z == IF y.e.armed.turn # t.id THEN Disarm(y) ELSE y
  IN  Place(z, z.qev \o <<EndedEvent(t.id, 0, Len(z.e.queue))>> \o z.dis)

\* How a turn that is over ended, and whether its ending clears the queue.
EndsExitFence(e, t) == e.exit.up /\ ~e.exit.ended /\ e.exit.turn = t.id
Withdrawn(t) == t.res = "withdrawn" \/ CancelledRefusal(t)
Failed(t) == ~Withdrawn(t) /\ t.res \notin StopReasons
StopReason(t) == IF Withdrawn(t) THEN "cancelled" ELSE t.res
Clears(e, t) ==
  \/ EndsExitFence(e, t)
  \/ IF Failed(t) THEN t.res \notin Refusals
     ELSE e.stopped \/ (StopOnNonEndTurn /\ StopReason(t) # "end_turn")

EndTheTurn(x, t) ==
  [x EXCEPT !.e.exit = IF EndsExitFence(x.e, t) THEN [@ EXCEPT !.ended = TRUE] ELSE @,
            !.e.cur = NoTurn, !.e.activity = IF Failed(t) THEN "error" ELSE "idle"]

\* The rest of settleLocked: an ending that is one, and its successor.
FinishTurn(x, t) ==
  LET clears == Clears(x.e, t)
      y == EndTheTurn(x, t)
      z == IF Failed(t) \/ y.e.armed.turn # t.id THEN Disarm(y) ELSE y
      next == Successor(z, ~clears)
      done == IF clears THEN ClearQueue(next) ELSE next
  IN  Place(done, done.qev \o <<EndedEvent(t.id, done.e.cur.id, Len(done.e.queue))>>
                  \o done.dis \o done.st)

\* Mutant: the refused turn is left to wait and the driver not woken.
SettleUnkicked(x) ==
  LET t == x.e.cur
      y == PutBackSteers(x, t.unanswered)
  IN  IF RetryForeignTurn /\ ~x.e.stopped /\ ~t.givenUp /\ t.res = "foreign"
      THEN [x EXCEPT !.e.cur.retry = TRUE]
      ELSE IF Restores(x.e, t) THEN RestoreTurn(y, t) ELSE FinishTurn(y, t)

\* settleLocked: a refusal this policy waits out is not an ending.
Settle(x) ==
  LET t == x.e.cur
      y == PutBackSteers(x, t.unanswered)
  IN  IF RetryForeignTurn /\ ~x.e.stopped /\ ~t.givenUp /\ t.res = "foreign"
      THEN [x EXCEPT !.e.cur = [t EXCEPT !.retry = TRUE], !.e.kick = TRUE]
      ELSE IF Restores(x.e, t) THEN RestoreTurn(y, t) ELSE FinishTurn(y, t)

\* retryLocked: take the claim of a waiting turn again, once a tick has passed.
Retry(x) ==
  LET t == x.e.cur
      due == t.retryDue /\ x.e.holds = {}
      y == LookIf(x, due)
  IN  IF x.e.stopped
      THEN LET z == [x EXCEPT !.e.cur = [t EXCEPT !.retry = FALSE]] IN IF x.e.holds = {} THEN Settle(z) ELSE z
      ELSE IF ~due \/ ForeignTurn(x.s) THEN y
      ELSE [y EXCEPT !.s = Begin(Raced(@), t.id, t.row.id),
                     !.e.cur = [t EXCEPT !.retry = FALSE, !.retryDue = FALSE, !.returned = FALSE]]

\* passLocked: one pass of the driver.
Pass(x) ==
  IF x.e.closed THEN x
  ELSE IF x.e.cur.id = 0 THEN Drain(x)
  ELSE IF x.e.cur.retry THEN Retry(x)
  ELSE IF x.e.cur.returned /\ x.e.holds = {} THEN Settle(x)
  ELSE x

-----------------------------------------------------------------------------
(* The engine's own steps *)

\* A continuation has come back: runTurn's section.  A turn that is no longer
\* current (Close ended it) has nobody to tell.
Return(c) ==
  /\ c \in ses.conts /\ c.phase = "back"
  /\ LET x == Raise([Enter EXCEPT !.s.conts = @ \ {c}])
         back == [x EXCEPT !.e.cur = [@ EXCEPT !.returned = TRUE, !.res = c.res, !.unanswered = c.steers]]
     IN  Leave(Pass(IF eng.cur.id = c.turn THEN back ELSE x))
  /\ UNCHANGED <<calls, hosts, used>>

\* The driver's section, on a kick or on its tick.  Its tick is armed again
\* while a refused claim or a restored row waits for time to pass.
DriverPass(ticked) ==
  LET x == [Raise(Enter) EXCEPT !.e.cur.retryDue = @ \/ (ticked /\ eng.cur.retry),
                                !.e.recheck = @ /\ ~ticked]
      y == Pass([x EXCEPT !.e.kick = @ /\ ticked])
  IN  /\ ~eng.closed
      /\ Leave([y EXCEPT !.e.tick = y.e.cur.retry \/ y.e.recheck])
      /\ UNCHANGED <<calls, hosts, used>>

Kicked == eng.kick /\ DriverPass(FALSE)
Ticked == eng.tick /\ DriverPass(TRUE)

\* Mutant: the request is taken and the tick not armed.
RearmedInVain ==
  /\ eng.rearm /\ ~eng.closed
  /\ eng' = [eng EXCEPT !.rearm = FALSE]
  /\ UNCHANGED <<ses, calls, hosts, used, view>>

\* A restoring settlement asked for the tick; no pass is made.
Rearmed ==
  /\ eng.rearm /\ ~eng.closed
  /\ eng' = [eng EXCEPT !.rearm = FALSE, !.tick = TRUE]
  /\ UNCHANGED <<ses, calls, hosts, used, view>>

\* The observer: the end of the agent's turn, and of a replay, wake the driver.
AgentEndObserved ==
  /\ ses.agent = "ended"
  /\ ses' = AgentEndSeen(ses)
  /\ eng' = [eng EXCEPT !.kick = TRUE]
  /\ UNCHANGED <<calls, hosts, used, view>>

ReplayEnds ==
  /\ eng.replaying
  /\ eng' = [eng EXCEPT !.replaying = FALSE, !.kick = TRUE]
  /\ UNCHANGED <<ses, calls, hosts, used, view>>

\* Started opens the gate, or records the failed start and retires its replay.
Started(ok) ==
  /\ eng.activity = "starting"
  /\ ~eng.closed
  /\ Leave([Enter EXCEPT !.e.activity = IF ok THEN "idle" ELSE "error",
                         !.e.startFailed = ~ok, !.e.replaying = @ /\ ok])
  /\ UNCHANGED <<calls, hosts, used>>
-----------------------------------------------------------------------------
(* Commands that admit a prompt *)

\* What Submit makes of a prompt: text a client holds (from = 0), or a row.
\* refused covers every error it answers, and a row that cannot start now, which
\* stays queued where it is.
SubmitOutcome(x, mode, from) ==
  IF Refuses(x.e) \/ ExitFenced(x.e, from) THEN "refused"
  ELSE IF mode = "send_now" /\ (x.e.armed # NoSend \/ ForeignTurn(x.s)) THEN "refused"
  ELSE IF CanSubmit(x) THEN IF from # 0 /\ ~Has(x.e.queue, from) THEN "refused" ELSE "start"
  ELSE IF mode = "send_now"
       THEN IF x.e.cur.id = 0 \/ x.e.cur.retry \/ (from # 0 /\ ~Has(x.e.queue, from))
            THEN "refused" ELSE "arm"
  ELSE IF from # 0 \/ ~HasRoom(x.e.queue) THEN "refused" ELSE "queue"

\* Submit's section up to its verdict: the fence up, the flag read where the
\* verdict needs it.
Admission(mode) ==
  LET x == Raise(Enter)
  IN  LookIf(x, ~Refuses(eng) /\ (mode = "send_now" \/ (~RetryForeignTurn /\ Free(eng))))

CountPrompt(from) == used' = [used EXCEPT !.prompts = IF from = 0 THEN @ + 1 ELSE @]
MaySubmit(from) == from = 0 => used.prompts < MaxPrompts

\* It starts: the claim, the row leaving, and the exit fence over the new turn,
\* in one section.
SubmitStarts(mode, from, fence) ==
  LET x == Admission(mode)
      y == Claim(x, Lookup(eng.queue, from), IF mode = "send_now" THEN "send_now" ELSE "submit")
      z == IF from = 0 THEN y ELSE SendRow(y, from)
      w == IF fence THEN [z EXCEPT !.e.exit = [NoFence EXCEPT !.up = TRUE, !.turn = z.e.cur.id]] ELSE z
  IN  /\ MaySubmit(from) /\ SubmitOutcome(x, mode, from) = "start"
      /\ Leave(Place(w, w.qev \o w.st))
      /\ CountPrompt(from)
      /\ UNCHANGED <<calls, hosts>>

\* It is queued behind what runs.
AddRow(x) ==
  LET row == [id |-> x.e.rowSeq + 1, ver |-> 0]
  IN  [x EXCEPT !.e.queue = Add(@, row), !.e.rowSeq = row.id,
                !.log = Append(@, QueuedEvent(row, Len(x.e.queue)))]

SubmitQueues(fence) ==
  LET x == Admission("queue")
      y == AddRow(x)
  IN  /\ MaySubmit(0) /\ SubmitOutcome(x, "queue", 0) = "queue"
      /\ Leave(IF fence THEN [y EXCEPT !.e.exit = [NoFence EXCEPT !.up = TRUE, !.row = y.e.rowSeq]] ELSE y)
      /\ CountPrompt(0)
      /\ UNCHANGED <<calls, hosts>>

\* holdCancelLocked for call c: the current turn is marked, and the hold taken.
Hold(x, c) ==
  [x EXCEPT !.e.holds = @ \cup {c},
            !.e.cur.cancelAsked = @ \/ x.e.cur.id # 0]

\* armLocked: the send is armed and the cancel that makes room for it held.
SubmitArms(from, c) ==
  LET x == Admission("send_now")
      y == [Hold(x, c) EXCEPT !.e.armed = [turn |-> eng.cur.id, from |-> from],
                              !.log = Append(@, ArmedEvent)]
  IN  /\ MaySubmit(from) /\ SubmitOutcome(x, "send_now", from) = "arm"
      /\ calls[c].phase = "idle" /\ used.cancels < MaxCancels
      /\ Leave(y)
      /\ calls' = [calls EXCEPT ![c] = [NoCall EXCEPT !.phase = "held", !.turn = eng.cur.id]]
      /\ used' = [used EXCEPT !.prompts = IF from = 0 THEN @ + 1 ELSE @, !.cancels = @ + 1]
      /\ UNCHANGED hosts

\* A refused submit still raised the fence and brings it back.
SubmitRefused(mode, from) ==
  LET x == Admission(mode)
  IN  /\ SubmitOutcome(x, mode, from) = "refused"
      /\ Leave(x)
      /\ UNCHANGED <<calls, hosts, used>>

Submit ==
  LET rows == {0} \cup {eng.queue[i].id : i \in DOMAIN eng.queue}
  IN  \/ /\ "Submit" \in Commands
         /\ \/ \E from \in rows : SubmitStarts("queue", from, FALSE) \/ SubmitRefused("queue", from)
            \/ SubmitQueues(FALSE)
      \/ /\ "SendNow" \in Commands
         /\ \E from \in rows : \/ SubmitStarts("send_now", from, FALSE)
                               \/ SubmitRefused("send_now", from)
                               \/ \E c \in Calls : SubmitArms(from, c)
      \/ /\ "SubmitExitAfterTurn" \in Commands
         /\ SubmitStarts("queue", 0, TRUE) \/ SubmitQueues(TRUE)

\* Interject: admitted and counted in one section, made with the mutex free.
InterjectAdmitted ==
  /\ "Interject" \in Commands /\ used.steers < MaxSteers
  /\ ~eng.admitting /\ ~Refuses(eng) /\ ~ExitFenced(eng, 0)
  /\ eng' = [eng EXCEPT !.admitting = TRUE]
  /\ used' = [used EXCEPT !.steers = @ + 1]
  /\ UNCHANGED <<ses, calls, hosts, view>>

\* The native session takes it into the running turn, or refuses it.
InterjectMade ==
  /\ eng.admitting
  /\ eng' = [eng EXCEPT !.admitting = FALSE]
  /\ ses' = [ses EXCEPT !.conts = {IF Native /\ Interjectable(ses, c) THEN [c EXCEPT !.steers = @ + 1] ELSE c
                                    : c \in @}]
  /\ UNCHANGED <<calls, hosts, used, view>>

-----------------------------------------------------------------------------
(* Commands on the queue and on the armed send *)

\* Queue adds a row and never starts a turn; it raises no fence, and syncs it.
QueueRow ==
  /\ "Queue" \in Commands /\ MaySubmit(0)
  /\ ~Refuses(eng) /\ ~ExitFenced(eng, 0) /\ HasRoom(eng.queue)
  /\ Leave(AddRow(Enter))
  /\ CountPrompt(0)
  /\ UNCHANGED <<calls, hosts>>

EditQueued(id) ==
  /\ "EditQueued" \in Commands /\ used.edits < MaxEdits
  /\ ~Refuses(eng) /\ Has(eng.queue, id)
  /\ LET q == Edit(eng.queue, id)
     IN  Leave([Enter EXCEPT !.e.queue = q,
                             !.log = <<EditedEvent(Lookup(q, id), Position(q, id) - 1)>>])
  /\ used' = [used EXCEPT !.edits = @ + 1]
  /\ UNCHANGED <<calls, hosts>>

Unqueue(id) ==
  /\ "Unqueue" \in Commands
  /\ ~Refuses(eng) /\ Has(eng.queue, id)
  /\ Leave([Enter EXCEPT !.e.queue = Take(@, id),
                         !.log = <<RemovedEvent(Lookup(eng.queue, id), Position(eng.queue, id) - 1)>>])
  /\ UNCHANGED <<calls, hosts, used>>

ClearRows ==
  /\ "ClearQueue" \in Commands
  /\ ~Refuses(eng)
  /\ LET x == ClearQueue(Enter) IN Leave(Place(x, x.qev))
  /\ UNCHANGED <<calls, hosts, used>>

QueueVerb ==
  \/ QueueRow \/ ClearRows
  \/ \E i \in DOMAIN eng.queue : EditQueued(eng.queue[i].id) \/ Unqueue(eng.queue[i].id)

DisarmSend ==
  /\ "Disarm" \in Commands
  /\ ~Refuses(eng) /\ eng.armed # NoSend
  /\ LET x == Disarm(Enter) IN Commit(Place(x, x.dis))
  /\ UNCHANGED <<calls, hosts, used>>

-----------------------------------------------------------------------------
(* Cancels *)

\* Cancel is validated and held in one section: a turn of the engine's own is
\* current, or the agent is running one of its own.
CancelHeld(c) ==
  LET x == LookIf(Raise(Enter), eng.cur.id = 0)
  IN  /\ "Cancel" \in Commands /\ used.cancels < MaxCancels
      /\ calls[c].phase = "idle" /\ ~eng.closed
      /\ eng.cur.id # 0 \/ ForeignTurn(ses)
      /\ Leave(Hold(x, c))
      /\ calls' = [calls EXCEPT ![c] = [NoCall EXCEPT !.phase = "held", !.turn = eng.cur.id]]
      /\ used' = [used EXCEPT !.cancels = @ + 1]
      /\ UNCHANGED hosts

CancelRefused ==
  /\ "Cancel" \in Commands
  /\ eng.closed \/ (eng.cur.id = 0 /\ ~ForeignTurn(ses))
  /\ Leave(Raise(Enter))
  /\ UNCHANGED <<calls, hosts, used>>

\* Stop is always accepted: nothing is admitted again, the queue is cleared and
\* the armed send goes, before its cancel.
StopHeld(c) ==
  LET x == Raise(Enter)
      y == IF eng.stopped THEN x ELSE Disarm(ClearQueue([x EXCEPT !.e.stopped = TRUE]))
  IN  /\ "Stop" \in Commands /\ used.cancels < MaxCancels
      /\ calls[c].phase = "idle" /\ ~eng.closed
      /\ Leave(Hold(Place(y, y.qev \o y.dis), c))
      /\ calls' = [calls EXCEPT ![c] = [NoCall EXCEPT !.phase = "held", !.turn = eng.cur.id, !.stop = TRUE]]
      /\ used' = [used EXCEPT !.cancels = @ + 1]
      /\ UNCHANGED hosts

\* The session's cancel: the mark, and the claim it then waits on.
CancelMarks(c) ==
  /\ calls[c].phase = "held"
  /\ ses' = CancelMark(ses)
  /\ calls' = [calls EXCEPT ![c] = [@ EXCEPT !.phase = "marked", !.slot = ses.slot, !.wake = Wake(ses)]]
  /\ UNCHANGED <<eng, hosts, used, view>>

\* Mutant: the hold is given back and no pass made.
ReleaseWithoutPass(c, failed) ==
  /\ Leave([Raise(Enter) EXCEPT !.e.holds = @ \ {c}])
  /\ calls' = [calls EXCEPT ![c] = NoCall]
  /\ UNCHANGED <<hosts, used>>

\* releaseHold: the hold is given back and the driver passes.  A failed cancel
\* takes the send it was to make room for.
Release(c, failed) ==
  LET x == [Raise(Enter) EXCEPT !.e.holds = @ \ {c}]
      lost == failed /\ eng.armed # NoSend /\ eng.armed.turn = calls[c].turn
      y == IF lost THEN LET d == Disarm(x) IN Place(d, d.dis) ELSE x
  IN  /\ Leave(Pass(y))
      /\ calls' = [calls EXCEPT ![c] = NoCall]
      /\ UNCHANGED <<hosts, used>>

\* The session's cancel has returned: the claim it waited on is released, or its
\* context ended, or the session closed.
CancelReturns(c) ==
  /\ calls[c].phase = "marked"
  /\ \/ (calls[c].slot = 0 \/ ses.slot # calls[c].slot) /\ (calls[c].wake => ~Wake(ses)) /\ Release(c, FALSE)
     \/ ses.closed /\ Release(c, FALSE)
     \/ Release(c, TRUE)

\* Stop's context ended while its removals still waited in the outbox: no cancel
\* is made.
StopAbandoned(c) == calls[c].phase = "held" /\ calls[c].stop /\ Release(c, FALSE)

-----------------------------------------------------------------------------
(* Giving up, fencing and closing *)

\* GiveUp ends the wait on the current turn, if it is waiting.
GiveUp ==
  LET x == [Raise(Enter) EXCEPT !.e.cur = [@ EXCEPT !.givenUp = TRUE, !.retry = FALSE, !.retryDue = FALSE]]
  IN  /\ "GiveUp" \in Commands /\ ~eng.closed /\ eng.cur.retry
      /\ Leave(IF eng.holds = {} THEN Settle(x) ELSE x)
      /\ UNCHANGED <<calls, hosts, used>>

\* GiveUpDrain makes the pass itself: a turn is current when it returns, or the
\* engine is stopped with its rows where they were.
GiveUpDrain ==
  LET x == Raise(Enter)
      y == IF eng.cur.id = 0 THEN Pass(x) ELSE x
      z == Disarm([y EXCEPT !.e.stopped = TRUE])
  IN  /\ "GiveUpDrain" \in Commands /\ ~eng.closed
      /\ eng.closeFences = {} \/ eng.cur.id # 0
      /\ Leave(IF y.e.cur.id # 0 THEN y ELSE Place(z, z.dis))
      /\ UNCHANGED <<calls, hosts, used>>

\* busyFactsLocked and the agent's turn.
BusyFacts(e) ==
  \/ e.closed \/ e.activity \in {"starting", "closing", "working"} \/ e.replaying
  \/ e.holds # {} \/ e.admitting
  \/ e.cur.id # 0 \/ e.armed # NoSend \/ e.queue # <<>>

FenceClose(h) ==
  LET x == Look([Raise(Enter) EXCEPT !.e.closeFences = @ \cup {h}])
  IN  /\ "FenceClose" \in Commands /\ used.fences < MaxFences
      /\ hosts[h].phase = "none"
      /\ Leave(x)
      /\ hosts' = [hosts EXCEPT ![h] = [phase |-> "raised", busy |-> BusyFacts(eng) \/ ForeignTurn(ses),
                                        nothingStarts |-> ExitFenceEnded(eng)]]
      /\ used' = [used EXCEPT !.fences = @ + 1]
      /\ UNCHANGED calls

\* The rest of the verdict, read with the mutex free: a child the session shows as
\* running, which it does until shortly before the result is published, and the
\* session's owed work.
FenceVerdict(h) ==
  /\ hosts[h].phase = "raised"
  /\ \E shown \in BOOLEAN :
       /\ shown => ses.children > 0
       /\ hosts' = [hosts EXCEPT ![h].phase =
                      IF hosts[h].busy \/ shown \/ (~hosts[h].nothingStarts /\ OwesWork(ses))
                      THEN "busy" ELSE "idle"]
  /\ UNCHANGED <<eng, ses, calls, used, view>>

\* The last fence down replays a pass the fences held back.
ReleaseFence(h) ==
  LET left == eng.closeFences \ {h}
      replay == left = {} /\ eng.passHeld
  IN  /\ hosts[h].phase \in {"busy", "idle"}
      /\ Leave([Enter EXCEPT !.e.closeFences = left,
                             !.e.passHeld = @ /\ ~replay,
                             !.e.kick = @ \/ replay])
      /\ hosts' = [hosts EXCEPT ![h] = NoHost]
      /\ UNCHANGED <<calls, used>>

\* Close ends the running turn in the section that refuses everything after it,
\* leaves the fence up for good, and closes the session after.
CloseEngine ==
  LET x == Raise([Enter EXCEPT !.e.closed = TRUE, !.e.activity = "closing", !.e.cur = NoTurn])
      y == Disarm(x)
      ended == IF eng.cur.id = 0 THEN <<>> ELSE <<EndedEvent(eng.cur.id, 0, Len(eng.queue))>>
  IN  /\ "Close" \in Commands /\ ~eng.closed
      /\ Commit(Place(y, ended \o y.dis))
      /\ UNCHANGED <<calls, hosts, used>>

CloseSession ==
  /\ eng.closed /\ ~ses.closed
  /\ ses' = [ses EXCEPT !.closed = TRUE]
  /\ UNCHANGED <<eng, calls, hosts, used, view>>

-----------------------------------------------------------------------------
SessionStep == SessionNext /\ UNCHANGED <<eng, calls, hosts, used, view>>

DriverNext == Kicked \/ Ticked \/ Rearmed \/ AgentEndObserved \/ ReplayEnds
CancelNext == \E c \in Calls : \/ CancelHeld(c) \/ StopHeld(c) \/ CancelMarks(c)
                               \/ CancelReturns(c) \/ StopAbandoned(c)
HostNext == \E h \in Hosts : FenceClose(h) \/ FenceVerdict(h) \/ ReleaseFence(h)

Next ==
  \/ SessionStep
  \/ DriverNext \/ \E c \in ses.conts : Return(c)
  \/ \E ok \in BOOLEAN : Started(ok)
  \/ Submit \/ InterjectAdmitted \/ InterjectMade \/ QueueVerb \/ DisarmSend
  \/ CancelNext \/ CancelRefused
  \/ GiveUp \/ GiveUpDrain
  \/ HostNext
  \/ CloseEngine \/ CloseSession

Spec == Init /\ [][Next]_vars

-----------------------------------------------------------------------------
(* Fairness.  The driver, the continuations and the cancels are goroutines  *)
(* of the engine's own, woken by channels that keep one signal; the session *)
(* is assumed to finish what it began: an agent answers its prompts, its    *)
(* own turns end, and a cancel returns once the claim it waits on is gone.  *)
(* Nothing is assumed of clients.  Where a section is behind a step, weak   *)
(* fairness is written with the step's guard, which is when it is enabled.  *)

\* A tick whose pass changes something: not one that finds the claim it has
\* already made due still held off.
TickDue ==
  /\ eng.tick
  /\ ~ /\ eng.cur.retry /\ eng.cur.retryDue /\ ~eng.stopped
       /\ (eng.holds # {} \/ ForeignTurn(ses))

DriverStep == DriverNext \/ \E c \in ses.conts : Return(c)
DriverReady ==
  \/ /\ ~eng.closed
     /\ eng.kick \/ eng.rearm \/ TickDue
  \/ ses.agent = "ended"
  \/ eng.replaying
  \/ \E c \in ses.conts : c.phase = "back"

SessionAlone(A) == A /\ UNCHANGED <<eng, calls, hosts, used, view>>

Fairness ==
  /\ ([]<>~DriverReady \/ []<><<DriverStep>>_vars)
  /\ WF_vars(SessionAlone(\E c \in ses.conts : OpenTurn(c) \/ SendPrompt(c)))
  /\ WF_vars(SessionAlone(\E c \in ses.conts, res \in Results : EndTurn(c, res)))
  /\ WF_vars(SessionAlone(ChildFinishes))
  /\ WF_vars(SessionAlone(RecheckRead \/ RecheckClaim))
  /\ WF_vars(SessionAlone(WakeOpens \/ WakeEnds))
  /\ WF_vars(SessionAlone(FlagRaised \/ AgentTurnEnds \/ FlagLowered))
  /\ \A c \in Calls : /\ WF_vars(CancelMarks(c))
                       /\ ([]<>(calls[c].phase # "marked") \/ []<><<CancelReturns(c)>>_vars)
  /\ \A h \in Hosts : /\ WF_vars(FenceVerdict(h))
                       /\ ([]<>(hosts[h].phase = "none") \/ []<><<ReleaseFence(h)>>_vars)
  /\ WF_vars(CloseSession)

FairSpec == Spec /\ Fairness

-----------------------------------------------------------------------------
(* Properties *)

\* Every variable stays within its type.
TypeOK ==
  /\ eng \in EngType /\ ses \in SesType
  /\ calls \in [Calls -> Call] /\ hosts \in [Hosts -> Host]
  /\ used \in [{"prompts", "cancels", "edits", "steers", "fences"} -> Nat]

\* A client that only folds the events is never contradicted by one, and shows
\* the queue, the running turn and the armed send the engine has: every batch
\* carries each change once, in an order and at positions that replay.
ClientSeesEngine ==
  /\ view.ok
  /\ view.rows = eng.queue
  /\ view.open = eng.cur.id
  /\ view.promised = 0
  /\ view.armed = (eng.armed # NoSend)

\* A cancel falls on the turn it was validated against or on nothing: from its
\* validation until the session has its mark, no other turn's claim takes the
\* slot; and, for a client that does not claim over the agent's own turn and
\* wait that out, no wake takes it from the turn it was for.
CancelLandsOnItsTurn ==
  \A c \in Calls : calls[c].phase = "held" =>
    /\ ses.slot \in {0, calls[c].turn}
    /\ ~RetryForeignTurn /\ calls[c].turn # 0 => ~Wake(ses)

\* What the engine claims the session grants: never a claim while another
\* prompt has the slot, and on a native session never one while a wake has it,
\* unless the policy is to try and wait the refusal out.
ClaimsAreGranted ==
  \A c \in ses.conts : /\ c.res # "inflight"
                       /\ Native /\ ~RetryForeignTurn => c.res # "foreign"

\* A follow-up is prompted at most once: no row that reached the agent is in the
\* queue or on its way to the agent again, and the running turn's row is not
\* also waiting.
RowRunsOnce ==
  /\ \A i \in DOMAIN eng.queue : eng.queue[i].id \notin ses.reached \cup {eng.cur.row.id}
  /\ \A c \in ses.conts : c.phase \in {"claimed", "open"} => c.row \notin ses.reached

\* A follow-up whose prompt never reached the agent is not lost with its turn:
\* unless that turn was cancelled, or the engine stopped or closed, the row is
\* back at the head as it was.
WaitingRowSurvives ==
  [][LET t == eng.cur
     IN  /\ t.row # NoRow /\ t.row.id \notin ses.reached
         /\ eng'.cur.id # t.id
         /\ ~RetryForeignTurn /\ ~t.cancelAsked /\ ~eng.stopped /\ ~eng'.closed
         => eng'.queue # <<>> /\ Head(eng'.queue) = t.row]_vars

\* A host told "idle" may end the session: while its fence stands no work is
\* running, waiting or about to be admitted, unless the engine was stopped or
\* the exit fence had ended it.
IdleVerdictHolds ==
  \A h \in Hosts : hosts[h].phase = "idle" /\ ~eng.closed =>
    /\ eng.cur.id = 0 /\ ses.conts = {} /\ ~eng.admitting
    /\ eng.queue = <<>> /\ eng.armed = NoSend
    /\ Native => ~Wake(ses)
    /\ ExitFenceEnded(eng) \/ ~OwesWork(ses)

\* Once the turn of the exit fence has ended nothing starts, neither from the
\* engine nor from the session.
NothingAfterExit ==
  [][ExitFenceEnded(eng) =>
       /\ ExitFenceEnded(eng')
       /\ eng'.turnSeq = eng.turnSeq
       /\ Native /\ Wake(ses') => Wake(ses)]_vars

\* An exit fence that stands has something to wait for: its row in the queue,
\* its turn running, or that turn's ending behind it.
ExitFenceHasSubject ==
  eng.exit.up /\ ~eng.closed =>
    \/ eng.exit.ended
    \/ eng.exit.turn # 0 /\ eng.exit.turn = eng.cur.id
    \/ eng.exit.turn = 0 /\ Has(eng.queue, eng.exit.row)

\* Every turn settles, and at most once: its claim is retried until it is
\* granted, its cancels return, and its settlement is never missed.
TurnIds == 1..(MaxPrompts + MaxSteers + MaxRefusals)
EveryTurnSettles == \A i \in TurnIds : eng.cur.id = i ~> eng.cur.id # i

\* A chain does not stall: rows waiting behind a turn all leave the queue,
\* unless a turn fails, or the engine is stopped, closed or fenced for exit.
RowsDrain ==
  eng.cur.id # 0 /\ eng.queue # <<>> ~>
    \/ eng.queue = <<>> \/ eng.activity = "error"
    \/ eng.stopped \/ eng.closed \/ ExitFenceEnded(eng)

\* A background result is delivered: the fence holds a wake back only while the
\* engine has work of its own.
ResultsDelivered ==
  ses.pending ~> ~ses.pending \/ eng.stopped \/ eng.closed \/ ExitFenceEnded(eng)

\* An armed send fires or is disarmed: the cancel it made ends its turn, or
\* fails and takes it.
ArmedSendSettles == eng.armed # NoSend ~> eng.armed = NoSend
=============================================================================
