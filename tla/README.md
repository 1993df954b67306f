# craze: a verification of the session, its log and its processes

craze hosts one coding-agent session per process. A client (the TUI, a socket
client, `craze prompt`) sends commands to an *engine*; the engine drives a
*session* below it, either the built-in native agent or an external agent over
ACP, and tells its clients what happened as an ordered log of events. Hosts
register in a run directory, where clients and a per-user *hub* find them; a
remote client reaches a host over connections that may drop.

This directory models the engine's turn driver with its session and its
clients' view, the receipts that make a resent command safe and the remote
client that resends it, the registry of the session's asks, the event log with
its outbox and subscriptions, the run directory's files, and the hub's life
from its lock to its teardown. TLC checks the models on small instances; TLAPS
proves the safety properties that matter most for every value of the constants.

Contents: [parts of the system](#the-parts-of-the-system) ·
[modules](#the-modules) · [runs](#the-runs) · [fairness](#fairness) ·
[proofs](#what-is-proved) · [abstractions](#abstractions) ·
[divergence found](#a-divergence-between-code-and-comment) ·
[not modelled](#not-modelled) · [plan](#plan).

    tlc -workers 2 -config Native.cfg MCEngine
    tlc -workers 2 -config Replay.cfg MCEventLog
    tlc -workers 2 -config Hub.cfg Hub
    tlapm RegistryProofs.tla

## The parts of the system

### Modelled

**Engine turn driver** (`internal/engine/engine.go`, `cancel.go`, `sendnow.go`,
`queue.go`, `closefence.go`, `exitfence.go`). Everything is under one mutex,
`e.mu`. State: the activity, the current turn (with its row, its cancel, its
result once returned, its claim to retry), the prompt queue, the armed
send-now, the number of cancels in flight, the close fences of hosts that want
to exit, the exit fence of a prompt sent with exit-after-turn, and the
driver's owed passes. Operations: Submit and its modes, SendNow, Interject,
the queue verbs, Disarm, Cancel, Stop, GiveUp, GiveUpDrain, FenceClose and its
release, Close, and the driver's own passes (settle, drain, retry, recheck).
It calls the session's Begin, CancelTurn and the admission fence, and is woken
by the continuation goroutine of the turn, by the agent's turn ending and by a
tick. What is hard: a cancel is validated, leaves the mutex, and takes effect
in the session later; a turn returns while a cancel is in flight; the session
starts turns of its own between any two sections; one settlement may put back
steered rows, end a turn, disarm, clear the queue and start a successor in one
batch of events; a host decides to exit from facts read in two places. What
makes it correct: a cancel ends only its turn, a claim is granted, a row is
prompted once and not lost, an idle verdict stays true, every turn settles.

**Prompt queue** (`internal/agent/queue.go`). Rows in send order, with ids and
versions; pure operations under the engine's mutex.

**Client fold** (`internal/transcript/fold.go`). What a client that sees only
the events believes: its rows, the open turn, the armed send. Correct if no
event ever contradicts it and it agrees with the engine after every batch.

**Session turn seam** (`internal/agent/native.go`, `native_wake.go`,
`live.go`, `live_queue.go`, `acp/interject.go`). One prompt slot, a cancel's
mark, steered rows, and turns of the session's own: on the native session a
worker *wakes* to deliver background results unless the engine's admission
fence is up; on a live one the agent starts turns at will and the protocol
client knows before the session's flag does. Hard: the worker decides under
one lock hold and claims under another.

**Command receipts** (`internal/engine/receipts.go`). A table under its own
mutex: minted clients with a mark (the highest id evicted), a release time and
a count of entries; receipts by (client, id). A command is admitted, runs with
the mutex free, and is published. Hard: eviction by count and by age, release,
resume and retirement of the client, a panic, or a gate refusal, between a
command and its resend. Correct if an id never runs twice.

**Ask registry** (`internal/agent/asks.go`). A permission, question or plan the
agent asks is parked until somebody ends it. State: the open asks by id, the
kept endings, two id counters per kind with the ids adopted ahead of them, the
state of recent turns. Operations: Open, Automatic, AnsweredEarly, Answer,
Wait, BeginTurn, CancelTurn, CancelOwnTurn, EndTurn, Close. Hard: a handler
reads its turn's token and opens later; a caller gives up as an answer comes;
turn states, reservations and endings are forgotten past a bound; refusals
write an ending that has no opening. Correct if no ask outlives its turn, the
first ending stands, ids keep their meaning, and every caller comes back.

**Event log** (`internal/agent/eventlog.go`). Goroutines publish directly, or
leave batches in an outbox that one drainer publishes; both hold one publishing
boundary across a send to the session's primary channel, which may block.
State: the ring of recent records, the outbox with its running totals, the
subscriptions with their buffers, how far Close is. Operations: Publish,
TryPublish, the outbox's enqueue, Flush, Subscribe (live, or after a record the
reader has), Detach, Close. Hard: Close must end everything though nobody reads
the primary, and lose nothing the outbox accepted; a reader is handed from the
journal's file to the ring's pinned tail to live records while the ring evicts
and the file loses records; a subscription is ended by the log, by its reader
and by its own overflow at once. Correct if each reader gets every record after
its start, in order and once, or a reason; batches stay whole; a Flush that
returns is true; Close ends.

**Run directory** (`internal/rundir`). A host has a lock file, an entry and a
socket, named by its id. It takes the lock, binds, registers, rewrites its
entry and unregisters; scans of the registry sweep what a dead host left; the
hub's orphan sweep removes what no scan looks at. There is no lock over all of
it: every step is a system call, and any process may be killed, or stop for
longer than any age the sweeps measure. Hard: open, then lock, a file that was
unlinked between; probe a socket, then unlink one that was bound between.
Correct if a live host's lock, entry and socket stay its own, no scan misses
it, and a stopping host is never listed as serving again.

**Hub** (`internal/hub`, `rundir/hub.go`). One process per user and namespace:
it takes the lock, clears a stale socket, binds, writes its record, serves, and
tears down when it is idle, lost or signalled. Clients call Ensure: find it, say
hello, replace it if it is wedged, spawn one otherwise and meet whoever won.
Hard: a start that fails half way; a teardown that overlaps the next start; the
idle timer armed before a client came; rounds of finding a hub that leaves.
Correct if one hub serves and can be found, one that stopped leaves nothing,
the idle decision was made in quiet, and every Ensure ends.

**Remote client and the host's bindings** (`internal/remote`,
`internal/control`). The client numbers its commands, keeps those unanswered,
redials when its connection goes, and sends a command's id again to ask whether
it ran. The control server binds a connection to a client id and its receipts,
hands a resumed client over from its old connection, drops it after a while
unattached, and forgets all when the engine is replaced. Hard: a reply, a
refusal and a lost connection race over one command that may have left in
several attempts; a resumed hello may or may not find the receipts. Correct if
a command runs at most once, under the identity its caller bound it to, its
answer is true, and its caller returns.

## The modules

| module | models | uses |
|---|---|---|
| `PromptQueue` | the queue's methods, as operators on a sequence of rows | SequencesExt |
| `ClientFold` | the fold of queue, turn and send-now events | PromptQueue |
| `Session` | the seam's operators (called by the engine's sections) and the session's own actions | PromptQueue |
| `Engine` | the sections, the actions that are made of them, fairness and properties | Session, ClientFold |
| `EngineProofs` | type correctness; a cancel lands on its turn, claims are granted | Engine, TLAPS |
| `EngineOrderProofs` | rows run once and are not lost, the exit fence, a host's idle verdict; a client that folds the log shows the engine | EngineProofs |
| `Receipts` | the receipt table and the calls that use it | FiniteSetsExt, Functions |
| `ReceiptsProofs` | a command id runs at most once, its answer is its own, a result is kept to its horizon | Receipts, TLAPS |
| `Commands` | a remote client's commands, connections and redials, with the host's bindings and what it remembers of each id | |
| `CommandsProofs` | a command runs at most once, as bound, and its caller is told truly | Commands, TLAPS |
| `Asks` | the ask registry, its callers' waits, a client that folds its events | SequencesExt |
| `AsksProofs` | no ask outlives its turn; the first ending is the only one; what a client sees; what ids tell | Asks, TLAPS |
| `Feed` | abstract: what a log promises each reader of its sequence | |
| `EventLog` | publishers, outbox and drainer, subscriptions and their owners, the file, Close; implements `Feed` | Feed |
| `EventLogProofs` | the refinement of Feed, slow only when full, the outbox's promises | EventLog, TLAPS |
| `Registry` | one host id's lock, entry and socket, one system call a step | FiniteSets |
| `RegistryProofs` | type correctness and five safety theorems | Registry, TLAPS |
| `Hub` | the hubs of one namespace, their files, their lifecycle, and the calls of Ensure | |
| `HubProofs` | type correctness and three safety theorems | Hub, TLAPS |
| `MCEngine`, `MCReceipts`, `MCAsks`, `MCEventLog`, `MCRegistry` | instances for TLC: model values and symmetry | the module they are named for |

### How Engine corresponds to the code

A stretch of code between `e.mu.Lock()` and its unlock is one step. It is
written as a composition of operators on a *section value* `x`: `x.e` and
`x.s` are the engine's and the session's state so far, `x.log` the events
enqueued so far. There is one operator per function (`EndTheTurn` for
`endLocked`, `RestoreTurn` for `restoreLocked`, `Drain` for `drainLocked`, and
so on; `map` in `PROJECT.json` names each one's lines), so the order of calls
in a section is the order of composition. A section begins by raising the
admission fence (`syncFenceLocked`) and ends by lowering it if no work is left;
the events of a section are then folded into `view`, the client's picture.

`eng` is the state under `e.mu`. `ses` is the state under the session's own
mutex. `calls` are the Cancel and Stop calls in flight: *held* from their
validation, *marked* once the session has the cancel mark, gone when the
cancel returns and releases the engine; between these are steps of everyone
else. `hosts` are the callers of FenceClose: the fence goes up with the facts
under `e.mu`, the rest of the busy verdict is composed after the unlock.
`used` counts what clients have sent, for the bounds.

A wake may claim the slot between the engine's read of the foreign-turn flag
and its Begin, within one engine section; `Raced` takes the worst case, a wake
that was ready does claim. `Meanwhile` lets a wake end in the middle of a
section.

### How Receipts corresponds to the code

`rt` is `receiptTable` under `rt.mu`; `clients` is the map of records, its
`released` entries being the `released` map; `order` is the store number `n`
on each completed entry. `Send` is `admit` with what the entry hook does with
its answer (own the reservation and run, wait, replay or refuse), after the
age pass every lookup makes first. `Finish` is `finish` or `abort` with
`publishLocked`, which also closes the waiters' channel. `Tick` moves the
table's clock. `ran` is a history variable only the properties read.

### How Asks corresponds to the code

Every section under `r.mu` is one action, what it enqueues included. `asks` is
the history of all asks, each an `*askEntry` together with where its caller is
in `Wait`: waiting, past the end of its context (*givenUp*), past
`cancelByCall` (*stopping*), *returned*. `open` maps an id to its entry, as in
the code, so that overwriting one is expressible; `r.order` is the order of
`asks`, since an ask is parked in the section that makes it. `Retire` is
`resolveAllLocked` over `retire`: it ends a set of asks, keeps their endings
(`Kept`), and enqueues one batch. An id is drawn by `Mints` or `Adopts` once
`Refusal` has decided which counter it comes from. `outbox` is the log's queue,
`Commit` its drainer together with a client's fold of the event.

### How EventLog corresponds to the code

`log` is what was committed, in order, so a record's seq is its index; each
element says which batch the record was in, or that it was published directly.
`sem` is the publishing boundary: a publisher goes *out* → *waiting* →
*inside* and commits as it leaves; the drainer takes a batch, enters, commits
its records one by one, and accounts for it after it has left (`CommitBatch`),
which is when Flushes are answered. `wake` and each subscription's `notify`
are the one-slot channels. A subscription is its owner goroutine's state: the
*leg* it is on (the file's head, the pinned tail, live, or parked until it is
notified), the rest of the pin or of the batch taken from the live buffer
(`local`), the record in the send (`sending`), the buffer and its charges, and
the first cause that ended it. Close is six phases, between which anyone may
take a step: cut the outbox, close admission, join the drainer, wait out the
publishers in flight and unregister, end each subscription, join the owners.

`Feed` knows a head, whether the log still takes records, and of each reader
where it stands and what it is owed. EventLog maps a subscription to it by
`FeedReader`: `prev` is where it stands, its leg whether it is still catching
up, and the tail its `Rest` would return what it is owed.

### How Registry and Hub correspond to the code

In `Registry` a step is one system call: `pc` of a process is its next call,
`fd` the lock file it has open, `lockAt` the inode at the name, `flock` who
holds the lock of each inode (which unlinking does not free), `youngLock` and
`sockAge` what a sweep's age check would find. A host's path is takeLock (open,
touch, flock, is it still at the name?), bind (unlink a refused socket, listen),
write the entry; Update and MarkStopping in any order; teardown (close the
listener, unlink entry, socket and lock, each if it is its own). A scan opens
the lock, tries it, reads the entry if it is taken, and sweeps if it is free and
still at the name. The orphan sweep is `OpenHeld` to `UnlinkLock`, then
`LstatSocket` to `ClearSocket` for a socket without a lock.

In `Hub` a process is one of `Hubs`, and its name stands for the identity of
the socket and of the record it made; `pc` is its next step in `LockHub`,
`start`, the loop and `teardown`. `life` is the mutex-guarded lifecycle with
the loop's own timer and pending read. `HubStep` is what the loop does while it
serves, `Start` and `End` its two ends. A call of Ensure goes *find* → *hello*
→ *wedged* or *spawn* → *ready* → *greet* or *meet*, each failure going
around again until its one retry is spent.

### How Commands corresponds to the code

The command's flags, `want`, `out`, `waiting`, `resent`, `resolved` and the
counters `attempt`, `ranUnder`, `unanswered`, are `command`'s fields. An
element of `tries` is one attempt: claimed under the client's mutex, a line in
the connection, read, checked and running at the host, a reply on its way back,
until nothing is left of it; several of one command may be under way. `conns`
has both ends of each connection; `link` is how far the reconnect is: redial,
hello, adopt, re-attach, republish. At the host, `binds` is the table of client
ids with their connection, generation and token, `reserved` and `stored` are
what the engine remembers of each (incarnation, client, command id). The
receipt table itself is Receipts: here a reservation and a result are kept
while their client's binding is.

## The runs

| run | instance | states | checks |
|---|---|---|---|
| `native` | native, 1 prompt, 2 steers, a cancel, send-now, Stop, exit-after-turn, a close fence, 1 background result | 106,814 | ClientSeesEngine, ResultsDelivered, ArmedSendSettles |
| `native_exit` | native, 2 prompts, 2 hosts, exit-after-turn, Stop, Close | 203,252 | IdleVerdictHolds, ExitFenceHasSubject, NothingAfterExit |
| `live` | live, all queue verbs, 2 prompts, loading start, 1 agent turn, 1 refusal | 122,814 | ClientSeesEngine, WaitingRowSurvives, RowsDrain |
| `prompt` | `craze prompt` over a live agent: claims retried, chain stops on a bad ending; 2 prompts, 1 agent turn, GiveUp, GiveUpDrain, Stop, 2 cancels in flight | 96,337 | CancelLandsOnItsTurn, ClaimsAreGranted, RowRunsOnce, EveryTurnSettles |
| `receipts` | 2 calls, 1 client, 2 ids, 2 payloads, cap 1, age 1, 2 ticks | 218,202 | RunsOnce, AnswersAreOwn, KeptWithinHorizon, DuplicatesAnswered |
| `receipts_refusal` | the same, 3 ticks | - | GateRefusalLeavesRetryable, violated (below) |
| `asks` | 2 kinds, 2 asks, 1 turn, a number adopted ahead of the counter; one reservation and one ending kept, no retired turn; outbox of 1 | 450,579 | NoAskOutlivesItsTurn, ClientSeesAsks, IdsTellHistory, EndingIsFinal, WaitersReturn |
| `outbox_log` | 1 publisher beside TryPublish, batches of 1 and 2, a Flush, a primary of 1 | 148,098 | BatchesWhole, FlushMeansCommitted, AcceptedIsRecorded, CloseEnds |
| `replay` | a reader, ring of 1, buffer of 2, 3 records published directly, a journal that loses 1 | 89,362 | ImplementsFeed, SlowOnlyWhenFull, ReaderCatchesUp |
| `registry` | 2 processes of one host id, a scan, an orphan sweep, 3 inodes, 2 lock tries, 1 of them killed | 667,724 | LockIsFindable, NeverLost, ScanMissesNobody, StoppingIsKept |
| `hub` | 3 hub processes, 1 caller, 1 session host, 2 events of the world | 350,563 | HubFindable, StoppedLeavesNothing, IdleWasQuiet, EnsureEnds |
| `commands` | 1 command, bound and retried, 2 connections, 2 losses, 1 refusal | 170,155 | RunsOnceAsBound, AnswersAreTrue, CallersReturn |

A property of the engine is checked in the run whose instance threatens it
most; the four instances share the module, and its actions all fire in one of
them.

*What the properties say.*

- **CancelLandsOnItsTurn**: from the validation of a cancel until the session
  has its mark, no other claim takes the slot. **ClaimsAreGranted**: the
  session never refuses a claim the engine makes, except under the policy that
  means to wait a refusal out. **RowRunsOnce**: a row that reached the agent is
  neither queued nor claimed again. **WaitingRowSurvives**: a row whose prompt
  never reached the agent is back at the head, unless its turn was cancelled or
  the engine is going. **ClientSeesEngine**: a client that folds the events has
  the engine's queue, turn and armed send after every section.
  **IdleVerdictHolds**: a host that was told "idle" is right until it releases
  the fence. **ExitFenceHasSubject**: an exit fence that stands waits for
  something. **NothingAfterExit**: after the fenced turn ended nothing starts.
  **EveryTurnSettles**, **RowsDrain**, **ResultsDelivered**,
  **ArmedSendSettles**: turns settle, queued rows leave, background results are
  delivered, armed sends end.
- **RunsOnce**, **AnswersAreOwn**, **KeptWithinHorizon**,
  **DuplicatesAnswered**: the receipt table's promises. At most one execution,
  an answer of one's own, a result kept while it is advertised, and a waiting
  duplicate answered.
- **NoAskOutlivesItsTurn**: an ask without an ending belongs to a live turn (or
  none) of an open session. **ClientSeesAsks**: folding the events still queued
  gives a client exactly the open asks in order, and an ending has the body if
  and only if the client saw no opening. **EndingIsFinal**: the first ending
  stands. **IdsTellHistory**: "already resolved" and "unknown" say truly
  whether an id was ever given, and no visible number is spent on an ask nobody
  saw. **WaitersReturn**: a caller that gave up, or whose ask ended, comes back.
- **BatchesWhole**: batches are committed in order, each whole before any other
  record, and a ticket names its first number. **FlushMeansCommitted**: a Flush
  that returns nil is true and none is told it came too late.
  **AcceptedIsRecorded**: what the outbox accepted is in the record before Close
  goes past the drainer. **CloseEnds**: Close returns though nobody reads.
  **ImplementsFeed**: every reader gets every record after its start, once and
  in order, or is told why not. **SlowOnlyWhenFull**: only a full buffer ends a
  subscription as slow. **ReaderCatchesUp**: a reader that keeps reading comes
  to the end; no wake-up is lost.
- **LockIsFindable**: the lock a host holds is the one at its name, from its
  check until its own unlink. **NeverLost**: nobody takes a registered host's
  entry or socket. **ScanMissesNobody**: a scan never calls gone a host
  registered from its start to its end. **StoppingIsKept**: an entry does not go
  back from stopping to serving.
- **HubFindable**: a serving hub is the only one, and socket and record are its
  own. **StoppedLeavesNothing**: a hub that ended by itself, however far its
  start had come, left no file and no lock. **IdleWasQuiet**: an idle decision
  is of a grace nothing disturbed. **EnsureEnds**: every Ensure ends with a hub
  or an error.
- **RunsOnceAsBound**: a command runs at most once over all its attempts,
  engines and hosts, and a bound one only under its identity.
  **AnswersAreTrue**: "done" has run; "not run" has not and never will.
  **CallersReturn**: a call of Command returns.

*Bounds and why they are enough.* Each run is to end within minutes on two
workers, so the instances are small and each is chosen for its question; what
the safety properties say of larger ones is proved (below). Two prompts and a
queue of two give a running turn, its successor and a waiting row, and a full
queue; in `native` the successors are the two steers, which show their order
when they are put back, and the background result. Two cancels give one before
and one after a settlement, and overlapping ones in `prompt`; one background
child or one agent turn gives a foreign turn on either side of a claim; one
refusal gives the restored row, and its retry; two hosts give a fence that comes
down while another stands. In `receipts` a cap of one makes each second result
an eviction, two ids of one client an eviction out of order, and an age of one
against two ticks expiry, release and retirement; two calls are an owner and
its duplicate. A second client adds only independent entries: nothing in the
table relates two clients but the cap. In `asks` what is kept is so little that
every second ask evicts: no turn state is kept past its retirement, one ending,
one reservation, against an adopted number the counter has not reached.

In `outbox_log` a primary of one is full after one record, two batches queue
behind each other, and a batch of two can be met in its middle; the ring and
the subscriptions are not its subject. In `replay` a ring of one has evicted
everything but the last record, so a reader that resumes crosses file, pin and
live within three records; a buffer of two can overflow with and without a pin,
and a file that loses one record refuses, or fails, a head. There is no primary
there, which only takes interleavings away.

One host id is enough for `registry`, because no step touches two ids' files;
two processes give one that is starting while another leaves, the scan and the
sweep are the two kinds of process that unlink for others, and three inodes are
a lock for each process and one that is created after a sweep. In `hub` three processes are one that leaves, one
that serves and one that is started; two events of the world (a kill, a removed
file, a slow answer, another client, a create, a host started, a cancelled
call) are one that disturbs and one that meets its repair. With three events
the safety properties hold as well (4,032,000 states, outside the time a run is
given). In `commands` two connections give an attempt on the old one and a
second that resumes or does not; the two losses are each an engine replaced, a
host restarted, or a binding idled out. A second command shares nothing but the
connections with the first.

TLC explores all of each instance; the counters that end a run are named
constants in the guards (`MaxPrompts`, `MaxTime`, `MaxEvents`, ...).

*Deadlock* is not checked, but for the ask registry, whose only last state is
a closed and drained log with every caller answered (`Terminated`).
Elsewhere clients may stop sending, processes end and logs close, so a state
with the bounds used up is a legitimate last state. What would be a stall is
caught by the liveness properties. *Symmetry* is used in `native_exit` and
`registry` only, which check no liveness.

Each property has a mutant in `PROJECT.json`: a plausible bug in one mapped
definition under which TLC finds the property violated in the same run.

## Fairness

The driver, the continuation of each turn and each cancel are goroutines of the
engine, woken through channels that keep one signal, so a step of theirs that
stays possible is taken. The session is assumed to finish what it began: an
agent answers its prompts, its own turns end, a cancel returns once the claim
it waits on is gone, children finish, and a host releases a fence it raised. A
command in the receipt table ends, and a goroutine whose channel is closed
runs; so does a caller in Ask.Wait. Nothing is assumed of clients. For the
large sections weak fairness is written with the step's guard
(`[]<>~DriverReady \/ []<><<DriverStep>>_vars`), which is when it is enabled; a
tick that would change nothing (`TickDue`) is not counted as ready. Hub, Asks
and Receipts write theirs the same way, with the guards of the steps (`Runs`,
`CanRun`, `Waits`), so that TLC does not compute ENABLED of a disjunction of
large actions in every state.

In the event log the drainer, Close, a publisher past the door and each
subscription's owner run; a publisher that selects on the cut-off comes back
when it has happened. Nobody is assumed to read the primary, to take a
subscription's records, or to close the log: ReaderCatchesUp states its reader's
fairness in the property.

In the hub a process takes the steps of its start and of its end, and each call
of Ensure runs on, both weakly fair. Its loop is a `select` with a ticker: that
it comes back to look whether it is lost, or to its signals, between any other
events is strong fairness of those two cases, since Go's select chooses fairly
among the ready ones and the ticker is ready again and again. The registry's
properties are all of safety and assume nothing.

In `commands` the client's goroutines and the host's handlers each keep taking
steps (`WF(ClientStep)`, `WF(HostStep)`); losing a connection, replacing the
engine, refusing, and the callers' own choices are chance and not fair. The
redial gives up once its connections are spent, as the code's does once its
episode's time is.

## What is proved

Assumptions are those in the modules: the bounds are natural numbers, the
queue's cap, the receipts' cap and the ring's are positive, the policies are
Booleans, blocking payloads are payloads, a batch is not empty, the processes of
the run directory are distinct and one of them is its namespace's sweeper.

**EngineProofs.** `TypeCorrect` (TypeOK), `CancelLands`
(CancelLandsOnItsTurn) and `ClaimsGranted` (ClaimsAreGranted), each
`Spec => [](...)`. The two safety properties are not inductive: a cancel could
lose its slot in a state where the admission fence is down while a turn is
current, or a call is held that the engine does not count. The invariant is

    IInv == TypeOK /\ Safe(Enter) /\ Covered(Enter) /\ HoldsMatch /\ CancelLandsOnItsTurn

Covered: the fence is up while a turn is current, a cancel is held or the
engine is closed. HoldsMatch: the cancels the engine counts are the calls that
are held or marked. Safe: who has the session's slot is the current turn's
continuation, and no continuation was refused. The argument follows a section:
Raise puts the fence up (`Inside`), every operator of a section keeps `Inside`
and, while a cancel is held, the slot (`Keeps`), and the way out restores
Covered (`SyncSection`, `LeaveState`, `AfterSection`). One lemma per operator,
then one per action (`...Inv`), then `InitInv`, `NextInv`, `Invariance`.

**EngineOrderProofs.** Three invariants, `RowsRunOnce` (RowRunsOnce),
`ExitFenceAwaits` (ExitFenceHasSubject) and `IdleVerdictsHold`
(IdleVerdictHolds), and two action properties, `NothingStartsAfterExit`
(NothingAfterExit) and `WaitingRowsSurvive` (WaitingRowSurvives). They need,
beside IInv,

    JInv == Orderly(Enter) /\ HeldBack(Enter) /\ RowAwaited(eng) /\ \A h \in Hosts : HostTells(h)

Orderly is what every operator of a section keeps, so that it holds between any
two of them: a row is in one place, the queue, the current turn or with the
agent (`RowsApart`); a continuation is the current turn's, and what it came
back with says whether its prompt reached the agent (`ContTells`), as does what
the engine took of it (`TurnTells`); a cancel's mark is of a turn that was asked
to cancel (`MarksTell`); an exit fence that waits for a turn waits for the
current one (`FenceBound`). HeldBack and RowAwaited hold only between sections,
once the fences have been synchronised: no wake starts behind a fence, and an
exit fence that waits for a row finds it in the queue. HostTells
carries a verdict from the fence's raising to its release: what the host read
was composed after the unlock, and stays true because everything that could
start work meets the fence. A section's operators keep Orderly and go *onward*
(`Goes`: an exit fence that ended its turn stays so and no turn starts, and what
a close fence found still stays still); a settlement also `Passes` its row, by
putting it back or having a reason not to. There is one lemma per operator and one per action
(`...Keeps`), then `NextKeeps`, `StepKeeps`, `Keeping`.

The module's second half proves `ClientShowsEngine` (ClientSeesEngine): after
every section, the fold of what it placed is the engine's queue, turn and armed
send. Within a section the view lags behind the engine, and the proof says by
how much: `Saying`, that the events the section has still to place take the
view's rows and armed send to the engine's, and start its turn; `Said`, that
nothing is left to place. A change of the queue is told by the
events it returns (`QueueTold`), a batch closes the gap (`PlaceSaid` and the
lemmas after it), a change that no event tells of opens none (`Silent`), and
each way out of a section ends in `Seen`. The fold is `FoldLeft` over a log of
any length: `FoldAppend` unrolls it by its last event and `FoldConcat` by
batches, from the uniqueness of the function its definition chooses.

**ReceiptsProofs.** `CommandsRunOnce` (RunsOnce), `AnswersOwn` (AnswersAreOwn)
and `KeptInHorizon` (KeptWithinHorizon). RunsOnce alone is
not inductive, since nothing in it says why an id that ran is not admitted
again. The invariant adds: an id that ran is remembered while its client is
(by its entry, or by the client's mark), and its client's number is never
minted again (`Remembered`); a running call owns an open reservation, alone
(`Owned`); a client's count is the number of its entries, finitely many, so a
client that holds a reservation is not retired (`Table`). A pass over the
table, by age or by count, is a step of `Keeps`, along which both survive. The
mark being a maximum needs that a finite set of numbers has one (`Greatest`),
shown from the well-foundedness of strict inclusion on finite sets. The other
two are about what the table remembers of what was run, and need the invariant
`HInv == IInv /\ History`: each result in the table, and each on its way to a
caller, is the one its own command produced, and a completed entry is gone only
past the age or the cap its client was told of.

**AsksProofs.** `AsksEndWithTheirTurn`: `Spec => []NoAskOutlivesItsTurn`, and
`EndingsAreFinal`: `Spec => EndingIsFinal`. A turn's end takes down what the
books hold and not what exists, so neither property is inductive until the two
are known to be the same. The invariant is

    IInv == Books /\ Turns /\ (tokens are of this registry or foreign) /\ NoAskOutlivesItsTurn

Books: an ask has not ended exactly when `open` has it under its id. It rests
on a drawn id never being one an open ask holds (`NewId`, `Parks`), and on an
ask leaving the books in the section that ends it (`Retires`). Turns: a retired
turn is not live, so the one whose state is forgotten leaves no ask behind
(`MarksTurns`).

`ClientSeesOpenAsks` (ClientSeesAsks) needs, beside IInv, `Numbers` (ids, counters
and reservations are what they are) and `Showing`: every open ask was shown,
the log is cut off only once nothing is open, and folding the outbox from the
view gives the open asks in order, each ending in it carrying its body exactly
when its opening is not shown by then (`Shows`). That last part is said of
every event of the outbox, not only of the head, or a commit would not keep it
(`BodiedTail`). A section's effect is one opening (`ShowsOpening`) and a batch
of endings (`ShowsEndings`), the batch by induction on the number of asks it has
gone through. `IdsTellTheHistory` (IdsTellHistory) needs `History`: the books'
ids are their asks' (`Named`); a minted number is behind its counter (`Minted`),
every number behind a counter, and every reserved one, was given (`Spent`,
`Reserved`), because a counter only passes over numbers that are reserved or an
open ask's, and an open ask was shown; and of the kept endings each is found by
its id or a later one is (`Memory`), which is what an eviction needs, since it
drops an id only if it still names the ask that goes (`MemoryDrops`). All steps
are sorted once by what they do to the asks (`Shapes`: they make none, make one,
end some, or commit).

**EventLogProofs.** `LogImplementsFeed`: `Spec => ImplementsFeed`, the
refinement of Feed: initial states map to initial states, and every step to a
step of Feed or a stutter. The invariant it needs says of a running
subscription that what is being sent, what is left of the pin or of the batch,
and the live buffer are consecutive seqs after what the reader has, and reach
the last one committed unless the subscription has ended (`Window` in
`Subscription`). That rests on a running subscription being registered until
Close's last section (`SubOK`), on the ring being a suffix of the log
(`RingIsSuffix`), and on nothing being committed after that section (`Cutoffs`):
Close has joined the drainer and seen the publishers leave. There is one lemma
per step of a subscription (`...Good`) and one per kind of step of the log
(`...Step`), each giving the invariant and the step of Feed.
`SlowMeansBudgetFull` (SlowOnlyWhenFull) adds that the charges on a live buffer
are those of the records it holds, none of them already sent (`Accounts`).

The module's second part is about the outbox: `BatchesAreWhole` (BatchesWhole),
`FlushIsTrue` (FlushMeansCommitted) and `AcceptedGetsRecorded`
(AcceptedIsRecorded). Batches are numbered as they are accepted; the invariant
relates the numbers accepted, taken, committed and accounted for (`Taken`,
`Totals`), says that the batch under way is a prefix of itself at the end of the
log, and every earlier one whole (`Whole`, `Boundary`, `Recorded`), and that a
Flush waits for a number accepted before it began (`Flushes`).

**RegistryProofs.** `TypeCorrect`, `LockStaysFindable` (LockIsFindable),
`OneHost` (no two processes are past the check of one id's lock),
`LiveHostNotLost` (NeverLost), `ScanAnswersForAll` (ScanMissesNobody) and
`StoppingStays` (StoppingIsKept). The invariant is

    IInv == TypeOK /\ Attempts /\ Opened /\ Held /\ AtName /\ Bound /\ Entered /\ Looks /\ Seen

AtName is its centre: of the processes that have locked a file and found it at
the name, whatever they are, there is one, and only it changes what is there.
The socket is not guarded by the lock: an orphan sweep that found no lock is
looking at the socket of a host that will never hold it again (`Looks`),
because no process takes an id twice and a lock, once its file is unlinked by
its holder, is not taken again by that one. `Seen` follows a scan from a host's
registration to its answer.

**HubProofs.** `TypeCorrect`, `ServingHubIsFindable` (HubFindable),
`StoppedHubLeavesNothing` (StoppedLeavesNothing) and `IdleDecisionWasQuiet`
(IdleWasQuiet). From its flock to its release a hub is alone (`Locked`); so what
is at the socket's path and the record's, while it holds the lock and has made
them, is its own, and what it removes before that is a dead hub's (`Sockets`,
`Records`); a start that fails goes back the way it came (`Leavings`). A grace
armed at the lifecycle's epoch has met nothing, because what keeps a hub busy
bumps the epoch as it comes (`Graces`). The proof has one lemma per step of a
hub, of a call and of the world.

**CommandsProofs.** `TypeCorrect`, `CommandRunsOnce` (RunsOnceAsBound) and
`CallerIsToldTruly` (AnswersAreTrue), for any number of commands, connections,
engines, hosts and refusals. Neither property is inductive. What is:
`Under`, that all that has run of a command, and all of it that still may, went
under the one identity the command remembers; `Counted`, that with no attempt
unanswered before the last one nothing has run and only that last one may, which
is what lets an answer, or a write that failed, make the client forget the
identity; `Tokens`, that a token names one client of one engine; and `Kept`,
that attempts of one identity therefore ask at one receipt, which what ran has
left there. Two executions of a command would be of one identity, so the second
would have met the receipt of the first. A "not run" of the client's own is given
only when the command remembers no identity, so by `Under` nothing of it has run
or will.

**Folds and induction.** The folds of a client, of an eviction and of a filter
are `FoldLeft`s, so their modules declare no recursive operator and the provers
see `FoldLeft`'s definition. What it chooses is shown to be the one function that
satisfies its equation (`TheFoldExists`), from which it can be unrolled. Induction
over the length of a log is over a set of numbers (`Induction`, from the
well-foundedness of `<` on Nat, each use naming its set), because the library's
induction theorems take an operator and cannot be instantiated. `Asks` filters
with `Within`, a fold, in place of `SelectSeq`, whose recursion the provers do
not see into.

**Only model-checked.** All liveness, for want of ENABLED in the prover.
GateRefusalLeavesRetryable is violated, so there is nothing to prove. Every
other property that a run checks, invariant or action property, is stated by a
theorem. The type invariants of Engine, Registry, Hub and Commands are theorems,
and no run repeats them.

## Abstractions

- A row is its id and its version; a version stands for the text. Turn and row
  ids are counters, as in the code.
- `cancelsInFlight` and `closeFences` are counters in the code and sets of
  their holders here; the code only tests them for zero.
- Submit is one section; the code's `admitting` span around a session call is
  modelled for Interject, where something can happen inside it, one at a time.
- Asks are not composed with Engine: they neither pin a turn nor count in the
  busy verdict. The settings queue and journal flush are left out of the busy
  verdict too. The engine's outbox always has room, so the refusals for a full
  one are not modelled.
- Disarm reasons, titles, renames, stop reasons beyond end_turn, cancelled and
  error are dropped. A version check in EditQueued is a guard.
- The live session's wait for the wire, and a cancel whose write was abandoned,
  are not modelled; a live agent may start a turn of its own at any time, up
  to a bound, and refuse a prompt up to a bound.
- The wake worker's take and save of results is one step.
- Receipts: a payload stands for the hash of method and arguments; what a
  command does is one result; commands without an id are left out, as they
  bypass the table.
- Asks: bodies and answers are left out but for whether an answer fits; one
  that does not, or finds no room, changes nothing and is no step. The delivery
  marks of `Report` are left out: the registry never reads them. A caller that
  never waits (the test stub) is one that takes no step. `Automatic` and
  `AnsweredEarly` keep their token in the record only, so it is dropped. Each
  event is committed and folded in one step. Adopted ids come from the stub;
  the two sessions always mint.
- EventLog: a record weighs one, against item and byte budgets of small
  numbers. TryPublish, which never waits, is one step. Notes, prompt attempts,
  the observer, the counters and the outbox's room are left out, and the journal's writer is a file that keeps or loses each
  record in turn.
- Registry: the temporary file an entry is renamed from and the line a lock
  holder writes are left out: nothing reads the first, and only messages the
  second. A host's lstat and unlink of its own file are one step. An unlinked
  file may be of either age to who has it open. A process does not take an id
  twice. A host killed leaves its files; its descriptors close with it.
- Hub: a process's name is the identity of what it makes, and is used again
  once nothing names it. The lock's inode is never unlinked, so `sameFile` of it
  is left out. Protocol versions and capabilities, namespaces' errors, work in
  flight at a quiesce, and what a hub does for its clients are left out; of
  those only the counts that keep it from idling are kept. An lstat that fails
  finds nothing. A refresh of the hosts and the look at the timer are one step
  of the loop each. A registry read is one step, or fails; that a read may miss
  no host is Registry's property. A call's context ending is `Cancel`, and a
  killed hub's descriptors close in either order.
- Commands: the order in which unanswered commands are written again is
  dropped (any order is allowed); so are the size limit of a line, what a
  re-attach brings, and other clients of the host. A duplicate of a running
  command that blocks is answered when it ends, one that does not is refused as
  in progress. A write cut short is `CutOff`: the host may have read the line or
  not. The redial may give up at any time after a loss. Only the receipts'
  retirement with the client is modelled, their eviction being the subject of
  Receipts.

## A divergence between code and comment

`receipts.go:110-112` says of an open reservation that "a gate refusal after a
very long call still leaves the id retryable rather than permanently unknown".
Run `receipts_refusal` refutes it. Ids 1 and 2 of one client are admitted;
2 completes, and is evicted (by age here; 1024 later results of the same
client do the same), which raises the client's mark to 2
(`markEvictedLocked`, line 640); 1 is then refused at the gate and its entry
is forgotten. A resend of 1 is now at or below the mark and is refused with
ErrUnknownCommand, although nothing ran. The comment on `markEvictedLocked`
gives the assumption that fails, "a client's ids are evicted in the order it
minted them": completion order, not minting order, is eviction order, and an
open reservation is in neither. It is a missed retry and never a second
execution (RunsOnce holds). `TestAnOpenReservationOutlivesBothBounds`
(receipts_test.go) fills the table from another client, so it does not meet it.

## Not modelled

| part | state | operations, what is hard, what would make it correct |
|---|---|---|
| index writer, settings queue (`engine/index.go`, `settings.go`) | pending row, queued changes | the last row posted is the last stored; a change whose caller left is not run |
| attach (`engine/attach.go`) | snapshot + subscription | the snapshot and the first event after it meet without gap or overlap |
| the control server's attachments and stop (`control/attach.go`, `stop.go`) | attachments, stop state | the idle exit raises two fences; reserve, bind and release of an attachment |
| journal (`journal/writer.go`) | bounded queue | one gap marker per run of drops, in its place |
| session store (`sessions/`) | index on disk | one id per native session |
| session claims, groups (`rundir/session.go`) | claims under a session's id | a claim outlives no process |

The remaining parts are listed with their reasons in `PROJECT.json`: host
processes (calls of the operating system), the harness loop and the ACP wire
(their effect on the engine is in Session), the roster (a projection), the
terminal UI and command line, the wire encodings, the sign-in and file
helpers. Most of the repository's lines are of these kinds: rendering, wire
formats, provider calls and tools.

## Plan

Done: PromptQueue, ClientFold, Session, Engine, EngineProofs,
EngineOrderProofs, Receipts, ReceiptsProofs, Asks, AsksProofs, Feed, EventLog, EventLogProofs, Registry,
RegistryProofs, Hub, HubProofs, Commands, CommandsProofs. Next, in this order:

1. `Control`: attach reservations and the idle exit's two fences over
   FenceClose, with the snapshot of an attach and the subscription it enters.
2. `IndexWriter` (last row wins, settings dequeue) and `Journal` (gap markers).
3. An abstract turn driver (idle, running, settling, with its queue as a bag)
   that Engine implements under a refinement mapping.
4. Proofs: the refinement of 3, over EngineOrderProofs' invariant, and the
   invariants of 1 and 2.
