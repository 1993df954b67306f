-------------------------------- MODULE Hub --------------------------------
(***************************************************************************)
(* The hub of one namespace, from its lock to its teardown (hub.Run), the  *)
(* idle rule it lives by (lifecycle), and the calls that find it or start  *)
(* another (hub.Ensure).  A hub process is one of Hubs, and so is the      *)
(* identity of the socket and of the record it makes: a process that has   *)
(* gone and is named by nothing stands for one yet to start.               *)
(***************************************************************************)
EXTENDS Naturals

CONSTANTS
  Hubs,     \* hub processes
  Callers,  \* calls of Ensure
  Sessions, \* ids of session hosts
  MaxEvents, \* bound: how many times something of Spend happens
  Nobody

ASSUME NobodyIsNoHub == Nobody \notin Hubs
ASSUME EventsType == MaxEvents \in Nat

VARIABLES
  pc,        \* of each hub, its next step
  lock,      \* who holds the flock of hubs/<ns>.lock, which is never unlinked
  line,      \* the hub its holder line names
  sockAt,    \* who bound the socket at hub.sock
  listening, \* hubs whose listener is open
  recAt,     \* who wrote hubs/<ns>.json
  looked,    \* of a start: the socket it lstat-ed before its probe
  sockID,    \* of each hub, the identity it recorded for its socket
  signalled, \* hubs sent SIGTERM
  life,      \* of each hub, its lifecycle and its loop's grace
  sessions,  \* session hosts live in the registry
  cpc,       \* of each call, its next step
  seen,      \* the hub of the record, or of the ready line, it says hello to
  tried,     \* a rendezvous: the record last said hello to
  child,     \* the hub it spawned, until that one's ready line
  ready, holder, \* that line, and the holder a held one names
  again,     \* a rendezvous: the last hello timed out
  retried,   \* it has failed once
  quiet,     \* history: what a grace has met since it was armed
  killed, strayed, \* history: hubs killed, and hubs whose files were removed
  spent

lockVars == <<lock, line>>
files == <<sockAt, listening, recAt>>
starting == <<looked, sockID>>
calls == <<cpc, seen, tried, child, ready, holder, again, retried>>
history == <<quiet, killed, strayed>>
vars == <<pc, lockVars, files, starting, signalled, life, sessions, calls, history, spent>>

\* Decided or told to stop: every connection is closed unanswered, every hello refused.
Closing == {"idled", "stopping"}
HubPC == {"serve"} \cup Closing \cup
  {"gone", "lock", "line", "lstat", "probe", "settle", "clear", "bind", "ident", "record",
   "ready", "undo", "ours", "unlink", "record ours", "unrecord", "release", "dying"}
CallPC == {"idle", "find", "hello", "hello again", "wedged", "termed", "killed", "spawn",
           "ready", "greet", "meet", "meet hello", "end child", "found", "failed"}

\* What the world does, bounded: a SIGKILL, a hub's file removed by something else, a
\* hello or a ready line past its bound, another client, a create, a session host
\* started, the end of a call's context.
Spend == spent < MaxEvents /\ spent' = spent + 1
Goes(h, step) == pc' = [pc EXCEPT ![h] = step]

(***************************************************************************)
(* The lifecycle                                                           *)
(***************************************************************************)

NoRead == [is |-> "none", of |-> {}]
FailedRead == [is |-> "failed", of |-> {}]
Reads == {NoRead, FailedRead} \cup [is : {"good"}, of : SUBSET Sessions]

Fresh == [clients |-> 0, creates |-> 0, epoch |-> 0, ids |-> {}, read |-> "good",
          kick |-> "no", grace |-> "none", armed |-> 0, poll |-> NoRead]

\* A read of the registry, which may fail.
RegistryRead == {[is |-> "good", of |-> sessions], FailedRead}

Idle(l) == l.clients = 0 /\ l.creates = 0 /\ l.ids = {} /\ l.read = "good"

\* An admission: a hello answered, a create begun.
Admit(l, what) == [l EXCEPT ![what] = @ + 1, !.epoch = @ + 1]

\* A failed read is no host's leaving; a good one that lists a host the last did not
\* bumps (by how much tells nothing).
SetHosts(l, r) ==
  IF r.is = "failed" THEN [l EXCEPT !.read = "failed"]
  ELSE [l EXCEPT !.read = "good", !.ids = r.of,
                 !.epoch = IF r.of \subseteq l.ids THEN @ ELSE @ + 1]

Arms(l) == Idle(l) /\ ~(l.grace # "none" /\ l.armed = l.epoch)

Arm(l) ==
  IF ~Idle(l) THEN [l EXCEPT !.grace = "none"]
  ELSE IF Arms(l) THEN [l EXCEPT !.grace = "armed", !.armed = l.epoch]
  ELSE l

LifeIs(h, l) == life' = [life EXCEPT ![h] = l]
ArmIs(h, l) ==
  /\ LifeIs(h, Arm(l))
  /\ quiet' = IF Arms(l) THEN [quiet EXCEPT ![h] = "quiet"] ELSE quiet
\* Closing: the lifecycle admits nothing any more.
Closes(h) == LifeIs(h, Fresh) /\ quiet' = [quiet EXCEPT ![h] = "disturbed"]
Disturbs(h) == quiet' = [quiet EXCEPT ![h] = "disturbed"]

Admitting(h) == pc[h] = "serve"

\* Another client's hello.
Visit(h) ==
  /\ Admitting(h) /\ Spend
  /\ LifeIs(h, Admit(life[h], "clients")) /\ Disturbs(h)
  /\ UNCHANGED <<pc, lockVars, files, starting, signalled, sessions, calls, killed, strayed>>

\* A client's connection ends: the loop is woken.
DropConn(h) ==
  /\ Admitting(h) /\ life[h].clients > 0
  /\ LifeIs(h, [life[h] EXCEPT !.clients = @ - 1, !.kick = "yes"])
  /\ UNCHANGED <<pc, lockVars, files, starting, signalled, sessions, calls, history, spent>>

\* session.create: it outlives the client that waits for it.
BeginCreate(h) ==
  /\ Admitting(h) /\ life[h].clients > 0 /\ life[h].creates = 0
  /\ Spend
  /\ LifeIs(h, Admit(life[h], "creates")) /\ Disturbs(h)
  /\ UNCHANGED <<pc, lockVars, files, starting, signalled, sessions, calls, killed, strayed>>

\* The host it launched has registered, or the create failed.
EndCreate(h) ==
  /\ Admitting(h) /\ life[h].creates > 0
  /\ \E ids \in SUBSET Sessions : sessions' = sessions \cup ids
  /\ LifeIs(h, [life[h] EXCEPT !.creates = @ - 1, !.kick = "yes"])
  /\ UNCHANGED <<pc, lockVars, files, starting, signalled, calls, history, spent>>

\* A host started by another command, and a host's end.
HostStarts(s) ==
  /\ s \notin sessions /\ Spend
  /\ sessions' = sessions \cup {s}
  /\ UNCHANGED <<pc, lockVars, files, starting, signalled, life, calls, history>>

HostEnds(s) ==
  /\ s \in sessions
  /\ sessions' = sessions \ {s}
  /\ UNCHANGED <<pc, lockVars, files, starting, signalled, life, calls, history, spent>>

\* The roster's poll, while a client wants it: its read of the registry, and, when
\* others may have read it since, the idle rule's use of that.
PollReads(h) ==
  /\ Admitting(h) /\ life[h].clients > 0 /\ life[h].poll = NoRead
  /\ \E r \in RegistryRead : LifeIs(h, [life[h] EXCEPT !.poll = r])
  /\ UNCHANGED <<pc, lockVars, files, starting, signalled, sessions, calls, history, spent>>

PollHosts(h) ==
  /\ Admitting(h) /\ life[h].poll # NoRead
  /\ LifeIs(h, [SetHosts(life[h], life[h].poll) EXCEPT !.poll = NoRead, !.kick = "yes"])
  /\ quiet' = IF life[h].poll.of = {} THEN quiet ELSE [quiet EXCEPT ![h] = "disturbed"]
  /\ UNCHANGED <<pc, lockVars, files, starting, signalled, sessions, calls, killed, strayed, spent>>

(***************************************************************************)
(* The loop                                                                *)
(***************************************************************************)

\* refreshHosts and arm: of the loop's reads and the poll's, the poll's is the one that is late.
HostsTick(h) ==
  /\ Admitting(h)
  /\ \E r \in RegistryRead :
       LET l == SetHosts(life[h], r)
       IN /\ LifeIs(h, Arm(l))
          /\ quiet' = CASE Arms(l) -> [quiet EXCEPT ![h] = "quiet"]
                        [] ~Arms(l) /\ r.of # {} -> [quiet EXCEPT ![h] = "disturbed"]
                        [] OTHER -> quiet
  /\ UNCHANGED <<pc, lockVars, files, starting, signalled, sessions, calls, killed, strayed, spent>>

Kicked(h) ==
  /\ pc[h] = "serve" /\ life[h].kick = "yes"
  /\ ArmIs(h, [life[h] EXCEPT !.kick = "no"])
  /\ UNCHANGED <<pc, lockVars, files, starting, signalled, sessions, calls, killed, strayed, spent>>

\* Mutant: a grace decides, whatever came and went since it was armed.
DecidesAnyEpoch(l) == Idle(l)

\* decideIdle, at any time after the grace: the registry is read again under the
\* lifecycle lock.
Decides(l) == Idle(l) /\ l.epoch = l.armed

DecideIdle(h) ==
  /\ pc[h] = "serve" /\ life[h].grace = "armed"
  /\ \E r \in RegistryRead :
       LET l == [SetHosts(life[h], r) EXCEPT !.grace = "none"]
       IN \/ /\ Decides(l)
             /\ Goes(h, "idled") /\ Closes(h)
          \/ /\ ~Decides(l)
             /\ ArmIs(h, l)
             /\ UNCHANGED pc
  /\ UNCHANGED <<lockVars, files, starting, signalled, sessions, calls, killed, strayed, spent>>

\* Mutant: only the record is looked at.
IsLostByRecord(h) == recAt # h

\* The record and the socket must still be the files it made.
IsLost(h) == recAt # h \/ sockAt # sockID[h]

Stops(h) == /\ pc[h] = "serve"
            /\ Goes(h, "stopping") /\ Closes(h)
            /\ UNCHANGED <<lockVars, files, starting, signalled, sessions, calls, killed, strayed, spent>>
Lost(h) == IsLost(h) /\ Stops(h)
TakeSignal(h) == h \in signalled /\ Stops(h)

Loop(h) == HostsTick(h) \/ Kicked(h) \/ DecideIdle(h) \/ Lost(h) \/ TakeSignal(h)

(***************************************************************************)
(* A hub's start, each stage undone by a failure at a later one            *)
(***************************************************************************)

StartStep(h, from, to) ==
  /\ pc[h] = from /\ Goes(h, to)
  /\ UNCHANGED <<signalled, life, sessions, calls, history, spent>>

\* The process exits.
Exits(h, from) ==
  /\ pc[h] = from /\ Goes(h, "gone")
  /\ looked' = [looked EXCEPT ![h] = Nobody] /\ sockID' = [sockID EXCEPT ![h] = Nobody]
  /\ signalled' = signalled \ {h}
  /\ UNCHANGED <<life, sessions, cpc, seen, tried, child, again, retried, history, spent>>

\* Its ready line, once, to the call that spawned it, if that one still reads it.
Says(h, what, who) ==
  LET reads(c) == child[c] = h /\ ready[c] = "none"
  IN /\ ready' = [c \in Callers |-> IF reads(c) THEN what ELSE ready[c]]
     /\ holder' = [c \in Callers |-> IF reads(c) THEN who ELSE holder[c]]

Alive(h) == h # Nobody /\ pc[h] # "gone"

\* LockHub: taken; held, naming the holder its line names while that one lives; failed.
TakeLock(h) ==
  \/ /\ lock = Nobody
     /\ lock' = h
     /\ StartStep(h, "lock", "line")
     /\ UNCHANGED <<line, files, starting>>
  \/ /\ lock # Nobody
     /\ Exits(h, "lock")
     /\ Says(h, "held", IF Alive(line) THEN line ELSE Nobody)
     /\ UNCHANGED <<lockVars, files>>
  \/ /\ Exits(h, "lock")
     /\ Says(h, "error", Nobody)
     /\ UNCHANGED <<lockVars, files>>

WriteHolder(h) ==
  \/ /\ line' = h
     /\ StartStep(h, "line", "lstat")
     /\ UNCHANGED <<lock, files, starting>>
  \/ /\ StartStep(h, "line", "release")
     /\ UNCHANGED <<lockVars, files, starting>>

\* ClearStaleSocket: the lstat, the probe, the second lstat, the unlink.
LstatSocket(h) ==
  /\ StartStep(h, "lstat", IF sockAt = Nobody THEN "bind" ELSE "probe")
  /\ looked' = [looked EXCEPT ![h] = sockAt]
  /\ UNCHANGED <<lockVars, files, sockID>>

ProbeSocket(h) ==
  /\ StartStep(h, "probe", CASE sockAt = Nobody -> "bind"
                             [] sockAt # Nobody /\ sockAt \in listening -> "undo"
                             [] OTHER -> "settle")
  /\ UNCHANGED <<lockVars, files, starting>>

Settle(h) ==
  /\ StartStep(h, "settle", CASE sockAt = Nobody -> "bind"
                              [] sockAt # Nobody /\ sockAt # looked[h] -> "undo"
                              [] OTHER -> "clear")
  /\ UNCHANGED <<lockVars, files, starting>>

ClearRefused(h) ==
  /\ StartStep(h, "clear", "bind")
  /\ sockAt' = Nobody
  /\ UNCHANGED <<lockVars, listening, recAt, starting>>

Bind(h) ==
  \/ /\ sockAt = Nobody
     /\ StartStep(h, "bind", "ident")
     /\ sockAt' = h /\ listening' = listening \cup {h}
     /\ UNCHANGED <<lockVars, recAt, starting>>
  \/ /\ StartStep(h, "bind", "undo")
     /\ UNCHANGED <<lockVars, files, starting>>

\* SocketID: whatever is at the path now.  (The chmod that follows fails as the record's
\* write does.)
Identify(h) ==
  \/ /\ sockAt # Nobody
     /\ StartStep(h, "ident", "record")
     /\ sockID' = [sockID EXCEPT ![h] = sockAt]
     /\ UNCHANGED <<lockVars, files, looked>>
  \/ /\ sockAt = Nobody
     /\ StartStep(h, "ident", "undo")
     /\ UNCHANGED <<lockVars, files, starting>>

\* Mutant: a start whose record cannot be written lets the lock go, and no more.
WriteRecordOrLeave(h) ==
  \/ /\ StartStep(h, "record", "ready")
     /\ recAt' = h
     /\ UNCHANGED <<lockVars, sockAt, listening, starting>>
  \/ /\ StartStep(h, "record", "release")
     /\ UNCHANGED <<lockVars, files, starting>>

WriteRecord(h) ==
  \/ /\ StartStep(h, "record", "ready")
     /\ recAt' = h
     /\ UNCHANGED <<lockVars, sockAt, listening, starting>>
  \/ /\ StartStep(h, "record", "undo")
     /\ UNCHANGED <<lockVars, files, starting>>

\* The ready line, and the server.
Serve(h) ==
  /\ pc[h] = "ready" /\ Goes(h, "serve")
  /\ Says(h, "ok", Nobody)
  /\ UNCHANGED <<lockVars, files, starting, signalled, life, sessions, cpc, seen, tried, child,
                 again, retried, history, spent>>

Start(h) == TakeLock(h) \/ WriteHolder(h) \/ LstatSocket(h) \/ ProbeSocket(h) \/ Settle(h)
            \/ ClearRefused(h) \/ Bind(h) \/ Identify(h) \/ WriteRecord(h) \/ Serve(h)

(***************************************************************************)
(* A hub's end: the teardown, and the undoing of a start                   *)
(***************************************************************************)

CloseListener(h) ==
  /\ \/ \E step \in Closing : StartStep(h, step, "ours")
     \/ StartStep(h, "undo", "ours")
  /\ listening' = listening \ {h}
  /\ UNCHANGED <<lockVars, sockAt, recAt, starting>>

\* Mutant: the lock is let go before the files are removed.
SocketOursUnlocked(h) ==
  /\ StartStep(h, "ours", IF sockAt # Nobody /\ sockAt = sockID[h] THEN "unlink" ELSE "record ours")
  /\ lock' = IF lock = h THEN Nobody ELSE lock
  /\ UNCHANGED <<line, files, starting>>

\* UnlinkIfOurs, then HubLock.RemoveRecord: an lstat, an unlink.
SocketOurs(h) ==
  /\ StartStep(h, "ours", IF sockAt # Nobody /\ sockAt = sockID[h] THEN "unlink" ELSE "record ours")
  /\ UNCHANGED <<lockVars, files, starting>>

UnlinkSocket(h) ==
  /\ StartStep(h, "unlink", "record ours")
  /\ sockAt' = Nobody
  /\ UNCHANGED <<lockVars, listening, recAt, starting>>

RecordOurs(h) ==
  /\ StartStep(h, "record ours", IF recAt = h THEN "unrecord" ELSE "release")
  /\ UNCHANGED <<lockVars, files, starting>>

RemoveRecord(h) ==
  /\ StartStep(h, "unrecord", "release")
  /\ recAt' = Nobody
  /\ UNCHANGED <<lockVars, sockAt, listening, starting>>

\* The holder line cleared, then the lock; the ready line of a start undone follows.
Release(h) ==
  /\ Exits(h, "release")
  /\ lock' = Nobody /\ line' = Nobody
  /\ Says(h, "error", Nobody)
  /\ UNCHANGED files

End(h) == CloseListener(h) \/ SocketOurs(h) \/ UnlinkSocket(h) \/ RecordOurs(h)
          \/ RemoveRecord(h) \/ Release(h)

(***************************************************************************)
(* Kills and losses                                                        *)
(***************************************************************************)

Kill(h) ==
  /\ pc[h] \notin {"gone", "dying"}
  /\ Goes(h, "dying") /\ Closes(h)
  /\ killed' = killed \cup {h}
  /\ UNCHANGED <<lockVars, files, starting, signalled, sessions, strayed>>

KillHub(h) == Kill(h) /\ Spend /\ UNCHANGED calls

\* The kernel closes a killed hub's descriptors one by one, in no promised order.
DropLock(h) ==
  /\ pc[h] = "dying" /\ lock = h
  /\ lock' = Nobody
  /\ UNCHANGED <<pc, line, files, starting, signalled, life, sessions, calls, history, spent>>

DropListener(h) ==
  /\ pc[h] = "dying" /\ h \in listening
  /\ listening' = listening \ {h}
  /\ UNCHANGED <<pc, lockVars, sockAt, recAt, starting, signalled, life, sessions, calls, history, spent>>

Reap(h) ==
  /\ lock # h /\ h \notin listening
  /\ Exits(h, "dying")
  /\ UNCHANGED <<lockVars, files, ready, holder>>

Dies(h) == DropLock(h) \/ DropListener(h) \/ Reap(h)

\* Something else removes the socket or the record of a hub from its path.
LoseSocket ==
  /\ sockAt # Nobody /\ Spend
  /\ sockAt' = Nobody /\ strayed' = strayed \cup {sockAt}
  /\ UNCHANGED <<pc, lockVars, listening, recAt, starting, signalled, life, sessions, calls, quiet, killed>>

LoseRecord ==
  /\ recAt # Nobody /\ Spend
  /\ recAt' = Nobody /\ strayed' = strayed \cup {recAt}
  /\ UNCHANGED <<pc, lockVars, sockAt, listening, starting, signalled, life, sessions, calls, quiet, killed>>

HubStep(h) ==
  Start(h) \/ Loop(h) \/ End(h) \/ Dies(h) \/ Visit(h) \/ DropConn(h) \/ BeginCreate(h)
  \/ EndCreate(h) \/ PollReads(h) \/ PollHosts(h)

(***************************************************************************)
(* Ensure: find the hub of the record, or spawn one; a spawn that is held  *)
(* meets the holder; a wedged hub is ended                                 *)
(***************************************************************************)

\* A hub process that has not started yet, or one gone that nothing names.
Unused(h) ==
  /\ pc[h] = "gone" /\ sockAt # h /\ recAt # h
  /\ \A g \in Hubs : h \notin {looked[g], sockID[g]}
  /\ \A c \in Callers : h \notin {seen[c], tried[c], child[c], holder[c]}

CallGoes(c, step) == cpc' = [cpc EXCEPT ![c] = step]

\* A call's step that no hub takes part in.
CallStep(c, from, to) ==
  /\ cpc[c] = from /\ CallGoes(c, to)
  /\ UNCHANGED <<pc, lockVars, files, starting, life, sessions, history>>

Forgets(c) ==
  /\ seen' = [seen EXCEPT ![c] = Nobody]
  /\ tried' = [tried EXCEPT ![c] = Nobody]
  /\ child' = [child EXCEPT ![c] = Nobody]
  /\ ready' = [ready EXCEPT ![c] = "none"]
  /\ holder' = [holder EXCEPT ![c] = Nobody]
  /\ again' = [again EXCEPT ![c] = "no"]

\* A round that failed: one more, and then the call fails.
Failure(c, from) ==
  /\ CallStep(c, from, IF retried[c] = "no" THEN "find" ELSE "failed")
  /\ retried' = [retried EXCEPT ![c] = "yes"]
  /\ Forgets(c)

\* A rendezvous that came to no hub: as many as there are.
RoundAgain(c, from) == CallStep(c, from, "find") /\ Forgets(c) /\ UNCHANGED retried

Finds(c) == CallGoes(c, "found") /\ Forgets(c) /\ UNCHANGED retried

Call(c) ==
  /\ CallStep(c, "idle", "find")
  /\ UNCHANGED <<seen, tried, child, ready, holder, again, retried, signalled, spent>>

\* The call's context ends, and another may follow: the hub it spawned, if any, is
\* signalled at best, and otherwise left to run.
Cancel(c) ==
  /\ Spend /\ \E from \in CallPC \ {"idle", "found", "failed"} : CallStep(c, from, "idle")
  /\ signalled' \in {signalled, signalled \cup {h \in {child[c]} : Alive(h)}}
  /\ retried' = [retried EXCEPT ![c] = "no"] /\ Forgets(c)

\* A record whose process has gone is stale, and never dialled.
Find(c) ==
  /\ CallStep(c, "find", IF Alive(recAt) THEN "hello" ELSE "spawn")
  /\ seen' = [seen EXCEPT ![c] = IF Alive(recAt) THEN recAt ELSE Nobody]
  /\ UNCHANGED <<tried, child, ready, holder, again, retried, signalled, spent>>

\* dialHello.  A hub that has bound and does not serve yet leaves the caller waiting.
Answers(g) == g # Nobody /\ g \in listening /\ pc[g] = "serve"
NoAnswer ==
  ~(sockAt # Nobody /\ sockAt \in listening /\ pc[sockAt] \notin Closing \cup {"undo", "dying"})
MayBeSlow == sockAt # Nobody /\ sockAt \in listening /\ Spend

\* A hello answered by the hub it was for: its admission, and the call's end.
HelloFound(c, from) ==
  /\ cpc[c] = from /\ Answers(sockAt) /\ sockAt = seen[c]
  /\ LifeIs(sockAt, Admit(life[sockAt], "clients")) /\ Disturbs(sockAt)
  /\ Finds(c)
  /\ UNCHANGED <<pc, lockVars, files, starting, signalled, sessions, killed, strayed, spent>>

\* Another hub answers: admitted, and not the one asked for.
HelloOther(c, from, to) ==
  /\ cpc[c] = from /\ Answers(sockAt) /\ sockAt # seen[c]
  /\ LifeIs(sockAt, Admit(life[sockAt], "clients")) /\ Disturbs(sockAt)
  /\ CallGoes(c, to)
  /\ seen' = [seen EXCEPT ![c] = Nobody]
  /\ again' = [again EXCEPT ![c] = "no"]
  /\ UNCHANGED <<pc, lockVars, files, starting, signalled, sessions, killed, strayed, spent,
                 tried, child, ready, holder, retried>>

HelloFind(c) ==
  \E from \in {"hello", "hello again"} :
    \/ HelloFound(c, from)
    \/ HelloOther(c, from, "spawn")
    \/ /\ NoAnswer /\ CallStep(c, from, "spawn")
       /\ seen' = [seen EXCEPT ![c] = Nobody]
       /\ UNCHANGED <<tried, child, ready, holder, again, retried, signalled, spent>>
    \/ /\ MayBeSlow /\ CallStep(c, from, IF from = "hello" THEN "hello again" ELSE "wedged")
       /\ UNCHANGED <<seen, tried, child, ready, holder, again, retried, signalled>>

\* replaceWedged.  An identity that cannot be verified is never signalled.
Wedged(c) ==
  \/ /\ Failure(c, "wedged")
     /\ UNCHANGED <<signalled, spent>>
  \/ /\ Alive(seen[c]) /\ CallStep(c, "wedged", "termed")
     /\ signalled' = signalled \cup {seen[c]}
     /\ UNCHANGED <<seen, tried, child, ready, holder, again, retried, spent>>

WedgedGone(c) ==
  \E from \in {"wedged", "termed", "killed"} :
    /\ ~Alive(seen[c]) /\ CallStep(c, from, "spawn")
    /\ seen' = [seen EXCEPT ![c] = Nobody]
    /\ UNCHANGED <<tried, child, ready, holder, again, retried, signalled, spent>>

\* wedgedTermWait has passed: SIGKILL; and wedgedKillWait.
WedgedStays(c) ==
  \/ /\ cpc[c] = "termed" /\ CallGoes(c, "killed")
     /\ \/ Kill(seen[c])
        \/ /\ pc[seen[c]] = "dying"
           /\ UNCHANGED <<pc, lockVars, files, starting, signalled, life, sessions, history>>
     /\ UNCHANGED <<seen, tried, child, ready, holder, again, retried, spent>>
  \/ /\ Alive(seen[c]) /\ Failure(c, "killed")
     /\ UNCHANGED <<signalled, spent>>

\* The hub spawned is one that nothing names.
Spawn(c) ==
  LET h == CHOOSE g \in Hubs : Unused(g)
  IN /\ cpc[c] = "spawn" /\ \E g \in Hubs : Unused(g)
     /\ CallGoes(c, "ready") /\ child' = [child EXCEPT ![c] = h]
     /\ Goes(h, "lock")
     /\ line' = IF line = h THEN Nobody ELSE line
     /\ killed' = killed \ {h} /\ strayed' = strayed \ {h}
     /\ UNCHANGED <<lock, files, starting, signalled, life, sessions, seen, tried, ready, holder,
                    again, retried, quiet, spent>>

\* readReady: ok, held, or an error; the process gone with no line; past its bound.
ReadReady(c) ==
  \/ /\ ready[c] = "ok" /\ CallStep(c, "ready", "greet")
     /\ seen' = [seen EXCEPT ![c] = child[c]]
     /\ child' = [child EXCEPT ![c] = Nobody] /\ ready' = [ready EXCEPT ![c] = "none"]
     /\ UNCHANGED <<tried, holder, again, retried, signalled, spent>>
  \/ /\ ready[c] = "held" /\ CallStep(c, "ready", "meet")
     /\ child' = [child EXCEPT ![c] = Nobody] /\ ready' = [ready EXCEPT ![c] = "none"]
     /\ UNCHANGED <<seen, tried, holder, again, retried, signalled, spent>>
  \/ /\ \/ ready[c] = "error"
        \/ ready[c] = "none" /\ ~Alive(child[c])
     /\ Failure(c, "ready")
     /\ UNCHANGED <<signalled, spent>>
  \/ /\ ready[c] = "none" /\ Alive(child[c]) /\ Spend /\ CallStep(c, "ready", "end child")
     /\ signalled' = signalled \cup {child[c]}
     /\ UNCHANGED <<seen, tried, child, ready, holder, again, retried>>

\* endContender: SIGTERM, contenderGrace, SIGKILL.
EndContender(c) ==
  \/ /\ cpc[c] = "end child" /\ child[c] # Nobody /\ Kill(child[c])
     /\ UNCHANGED <<calls, spent>>
  \/ /\ ~Alive(child[c]) /\ Failure(c, "end child")
     /\ UNCHANGED <<signalled, spent>>

\* The hub it started answers, or the round has failed.
Greet(c) ==
  \/ HelloFound(c, "greet")
  \/ /\ cpc[c] = "greet" /\ Answers(sockAt) /\ sockAt # seen[c]
     /\ LifeIs(sockAt, Admit(life[sockAt], "clients")) /\ Disturbs(sockAt)
     /\ CallGoes(c, IF retried[c] = "no" THEN "find" ELSE "failed")
     /\ retried' = [retried EXCEPT ![c] = "yes"] /\ Forgets(c)
     /\ UNCHANGED <<pc, lockVars, files, starting, signalled, sessions, killed, strayed, spent>>
  \/ /\ NoAnswer /\ Failure(c, "greet")
     /\ UNCHANGED <<signalled, spent>>
  \/ /\ MayBeSlow /\ Failure(c, "greet")
     /\ UNCHANGED signalled

\* rendezvous: a record not said hello to yet, or whose hello timed out.
Meet(c) ==
  \/ /\ Alive(recAt) /\ (recAt # tried[c] \/ again[c] = "yes")
     /\ CallStep(c, "meet", "meet hello")
     /\ seen' = [seen EXCEPT ![c] = recAt] /\ tried' = [tried EXCEPT ![c] = recAt]
     /\ again' = [again EXCEPT ![c] = "no"]
     /\ UNCHANGED <<child, ready, holder, retried, signalled, spent>>
  \/ /\ holder[c] # Nobody /\ ~Alive(holder[c]) /\ RoundAgain(c, "meet")
     /\ UNCHANGED <<signalled, spent>>
  \/ /\ \/ again[c] = "no" /\ RoundAgain(c, "meet")
        \/ again[c] = "yes" /\ Failure(c, "meet")
     /\ UNCHANGED <<signalled, spent>>

HelloMeet(c) ==
  \/ HelloFound(c, "meet hello")
  \/ HelloOther(c, "meet hello", "meet")
  \/ /\ NoAnswer /\ CallStep(c, "meet hello", "meet")
     /\ seen' = [seen EXCEPT ![c] = Nobody]
     /\ UNCHANGED <<tried, child, ready, holder, again, retried, signalled, spent>>
  \/ /\ MayBeSlow /\ CallStep(c, "meet hello", "meet")
     /\ seen' = [seen EXCEPT ![c] = Nobody] /\ again' = [again EXCEPT ![c] = "yes"]
     /\ UNCHANGED <<tried, child, ready, holder, retried, signalled>>

Ensure(c) ==
  Find(c) \/ HelloFind(c) \/ Wedged(c) \/ WedgedGone(c) \/ WedgedStays(c) \/ Spawn(c)
  \/ ReadReady(c) \/ EndContender(c) \/ Greet(c) \/ Meet(c) \/ HelloMeet(c)

Init ==
  /\ pc = [h \in Hubs |-> "gone"]
  /\ lock = Nobody /\ line = Nobody
  /\ sockAt = Nobody /\ listening = {} /\ recAt = Nobody
  /\ looked = [h \in Hubs |-> Nobody] /\ sockID = [h \in Hubs |-> Nobody]
  /\ signalled = {} /\ life = [h \in Hubs |-> Fresh] /\ sessions = {}
  /\ cpc = [c \in Callers |-> "idle"]
  /\ seen = [c \in Callers |-> Nobody] /\ tried = seen /\ child = seen /\ holder = seen
  /\ ready = [c \in Callers |-> "none"]
  /\ again = [c \in Callers |-> "no"] /\ retried = again
  /\ quiet = [h \in Hubs |-> "disturbed"] /\ killed = {} /\ strayed = {}
  /\ spent = 0

Next ==
  \/ \E h \in Hubs : HubStep(h) \/ KillHub(h)
  \/ \E c \in Callers : Call(c) \/ Cancel(c) \/ Ensure(c)
  \/ \E s \in Sessions : HostStarts(s) \/ HostEnds(s)
  \/ LoseSocket \/ LoseRecord

Spec == Init /\ [][Next]_vars

\* A process runs.  Its loop comes back to the ticker that looks whether it is lost,
\* and to its signals, between any other events.
Runs(h) == Start(h) \/ End(h) \/ Dies(h) \/ Lost(h) \/ TakeSignal(h)
CanRun(h) == IF pc[h] = "serve" THEN IsLost(h) \/ h \in signalled ELSE pc[h] # "gone"

\* A call waits for the ready line of the hub it spawned, for a hub that has bound to
\* serve, or for one that was killed to go: that it gives up then is not relied on.
Waits(c) ==
  \/ cpc[c] = "spawn" /\ \A h \in Hubs : ~Unused(h)
  \/ cpc[c] = "ready" /\ ready[c] = "none" /\ Alive(child[c])
  \/ cpc[c] = "end child" /\ Alive(child[c]) /\ pc[child[c]] = "dying"
  \/ cpc[c] \in {"hello", "hello again", "greet", "meet hello"} /\ ~NoAnswer /\ ~Answers(sockAt)

\* Weak fairness of Runs(h) and of Ensure(c), with what enables them written out.
Fairness ==
  /\ \A h \in Hubs : []<>~CanRun(h) \/ []<><<Runs(h)>>_<<pc, lock, listening>>
  /\ \A c \in Callers :
       \/ []<>(cpc[c] \in {"idle", "found", "failed"} \/ Waits(c))
       \/ []<><<Ensure(c)>>_<<cpc, pc>>
FairSpec == Spec /\ Fairness

(***************************************************************************)
(* Properties                                                              *)
(***************************************************************************)

Lives == [clients : Nat, creates : Nat, epoch : Nat, ids : SUBSET Sessions,
          read : {"good", "failed"}, kick : {"yes", "no"}, grace : {"none", "armed"},
          armed : Nat, poll : Reads]
SomeHub == Hubs \cup {Nobody}

\* What a variable may hold.
TypeOK ==
  /\ pc \in [Hubs -> HubPC]
  /\ lock \in SomeHub /\ line \in SomeHub /\ sockAt \in SomeHub /\ recAt \in SomeHub
  /\ listening \subseteq Hubs
  /\ looked \in [Hubs -> SomeHub] /\ sockID \in [Hubs -> SomeHub]
  /\ life \in [Hubs -> Lives] /\ sessions \subseteq Sessions
  /\ quiet \in [Hubs -> {"quiet", "disturbed"}]
  /\ cpc \in [Callers -> CallPC]
  /\ seen \in [Callers -> SomeHub] /\ tried \in [Callers -> SomeHub]
  /\ child \in [Callers -> SomeHub] /\ holder \in [Callers -> SomeHub]
  /\ ready \in [Callers -> {"none", "ok", "held", "error"}]
  /\ again \in [Callers -> {"yes", "no"}] /\ retried \in [Callers -> {"yes", "no"}]

\* The hub that has answered ok is the only one, and is found: the socket and
\* the record at their paths are its own for as long as it serves, whatever a
\* hub before it still had to tear down and a hub after it tries to start,
\* unless something else has removed one (start, undo and teardown).
HubFindable ==
  \A h \in Hubs : pc[h] = "serve" =>
    /\ \A g \in Hubs \ {h} : pc[g] # "serve"
    /\ h \in strayed \/ (sockAt = h /\ h \in listening /\ recAt = h)

\* A hub whose start failed at any stage, or that was told to stop, leaves
\* neither its socket nor its record nor the lock behind it (undo, teardown).
StoppedLeavesNothing ==
  \A h \in Hubs : pc[h] = "gone" /\ h \notin killed => h \notin {sockAt, recAt, lock, line}

\* A hub decides that it is idle only of a grace it spent with no client, no
\* create and no live host, none of them come and gone between the grace's
\* end and the decision, and with no host live as it decides (decideIdle,
\* the epoch): a client it has just answered is not cut off.
IdleWasQuiet ==
  [][\A h \in Hubs : pc[h] # "idled" /\ pc'[h] = "idled" =>
       quiet[h] = "quiet" /\ sessions = {}]_vars

\* A call of Ensure that has begun ends, with a hub or an error: it is not
\* kept meeting, round after round, a hub that neither serves nor goes -- one
\* whose files have been removed lets the lock go (Lost), one that died holding
\* the lock is not waited for, one that is wedged is ended.
EnsureEnds == \A c \in Callers : cpc[c] = "find" ~> cpc[c] \in {"found", "failed", "idle"}

============================================================================
