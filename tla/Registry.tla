------------------------------ MODULE Registry ------------------------------
(***************************************************************************)
(* The files of one host id: its lock and entry in the registry directory  *)
(* and its socket in the runtime tree.  Host processes given the id take   *)
(* the lock, bind and register (rundir.Bind), rewrite their entry, and     *)
(* unregister; scans of the registry sweep a dead host's files             *)
(* (rundir.HostsScan); the hub's orphan sweep removes what no scan looks   *)
(* at (rundir.SweepOrphans).  A step is a system call: any process may     *)
(* stop between two of its own for longer than OrphanAge, or be killed.    *)
(***************************************************************************)
EXTENDS Naturals, FiniteSets

CONSTANTS
  Hosts,      \* processes started as this host id
  Scanners,   \* readers of the registry: commands, the hub's idle rule
  Sweepers,   \* the hub's orphan sweep
  Files,      \* inode numbers for the lock
  LockTries,  \* attempts at a lock still at its name
  MaxKills,   \* bound: how many scans and sweeps are killed part way
  Nobody, NoFile

Procs == Hosts \cup Scanners \cup Sweepers
Entries == [by : Hosts, as : {"serving", "stopping"}]

ASSUME ProcsDisjoint ==
  /\ Hosts \cap Scanners = {} /\ Hosts \cap Sweepers = {} /\ Scanners \cap Sweepers = {}
  /\ Nobody \notin Procs \cup Entries /\ NoFile \notin Files

\* A hub is its namespace's only one, and so is its sweeper.
ASSUME OneSweeper == \A o, p \in Sweepers : o = p

ASSUME Bounds == LockTries \in Nat \ {0} /\ MaxKills \in Nat

VARIABLES
  lockAt,    \* the inode at hosts/<id>.lock
  flock,     \* of each inode, who holds its flock
  youngLock, \* inodes modified within OrphanAge, of those at the name
  entryAt,   \* hosts/<id>.json: who wrote it, and as what
  sockAt,    \* who bound the socket now at its path
  sockAge,   \* that socket's, against OrphanAge
  listening, \* hosts whose listener takes connections
  pc, fd,    \* of each process, its next call and the lock it has open
  tries,     \* of a host: attempts begun at the lock
  marked,    \* hosts told to mark themselves stopping
  told,      \* of a host: the entry it last wrote (Host.entry)
  looksAt,   \* of an orphan sweep: who bound the socket it lstat-ed
  verdict,   \* of a scan: what it answers of this id
  witness,   \* history, of a scan: a host registered since the scan began
  kills

lock == <<lockAt, flock, youngLock>>
socket == <<sockAt, sockAge, listening>>
hosting == <<tries, marked, told>>
reading == <<verdict, witness>>
vars == <<lock, entryAt, socket, pc, fd, hosting, looksAt, reading, kills>>

\* From the identity check that passed to the host's own unlink.
HostHolds == {"bind", "listen", "write", "bound", "close", "unregister", "unbind", "unname",
              "unlink"}
HostPC == HostHolds \cup {"new", "open", "touch", "flock", "named", "refused", "unlock", "gone"}
ScanPC == {"idle", "open", "try", "read", "again", "check", "sweepentry", "sweeplock", "letgo",
           "answered"}
SweepPC == {"idle", "oopen", "oage", "otry", "ocheck", "oentry", "ounlink", "oletgo",
            "socket", "sopen", "sage", "stry", "sletgo", "probe", "relstat", "unsock"}

Init ==
  /\ lockAt = NoFile /\ flock = [f \in Files |-> Nobody] /\ youngLock = {}
  /\ entryAt = Nobody /\ sockAt = Nobody /\ sockAge = "young" /\ listening = {}
  /\ pc = [p \in Procs |-> IF p \in Hosts THEN "new" ELSE "idle"]
  /\ fd = [p \in Procs |-> NoFile]
  /\ tries = [h \in Hosts |-> 0] /\ marked = {} /\ told = [h \in Hosts |-> Nobody]
  /\ looksAt = [o \in Sweepers |-> Nobody]
  /\ verdict = [s \in Scanners |-> "none"] /\ witness = [s \in Scanners |-> Nobody]
  /\ kills = 0

At(p, here) == pc[p] = here
Goes(p, to) == pc' = [pc EXCEPT ![p] = to]
Opens(p, f) == fd' = [fd EXCEPT ![p] = f]
Closes(p) == Opens(p, NoFile)
Takes(p) == flock' = [flock EXCEPT ![fd[p]] = p]
Free(p) == flock[fd[p]] = Nobody
Named(p) == lockAt = fd[p]

\* An inode number is given out again once nothing names the file or has it open.
Unused == {f \in Files : f # lockAt /\ \A p \in Procs : fd[p] # f}

\* Unlock, and close.
LetsGo(p) == flock' = [flock EXCEPT ![fd[p]] = Nobody] /\ Closes(p)

\* What steps of several callers leave alone.
KeepsTree == UNCHANGED <<entryAt, socket>>
KeepsRest == UNCHANGED <<hosting, looksAt, reading, kills>>
KeepsButTries == UNCHANGED <<marked, told, looksAt, reading, kills>>

\* Is the lock taken still the file at its name (dir.sameFile)?
SameFile(p, here, yes, no) ==
  /\ At(p, here) /\ Goes(p, IF Named(p) THEN yes ELSE no)
  /\ UNCHANGED <<lock, fd>> /\ KeepsTree /\ KeepsRest

\* An unlinked file's age is of no account: whoever has it open finds that out.
UnlinkLock(p, here, next) ==
  /\ At(p, here) /\ lockAt' = NoFile /\ youngLock' = {} /\ Goes(p, next)
  /\ UNCHANGED <<flock, fd>> /\ KeepsTree /\ KeepsRest

ReleaseLock(p, here, next) ==
  /\ At(p, here) /\ LetsGo(p) /\ Goes(p, next)
  /\ UNCHANGED <<lockAt, youngLock>> /\ KeepsTree /\ KeepsRest

-----------------------------------------------------------------------------
(* A host's lock: takeLock *)

\* openLock's exclusive create, or the file found there.
CreateLock(h) ==
  /\ At(h, "new")
  /\ \/ /\ lockAt = NoFile /\ Unused # {}
        /\ LET f == CHOOSE x \in Unused : TRUE
           IN  lockAt' = f /\ Opens(h, f) /\ youngLock' = {f}
        /\ Goes(h, "touch")
     \/ /\ lockAt # NoFile /\ Goes(h, "open")
        /\ UNCHANGED <<lockAt, fd, youngLock>>
  /\ tries' = [tries EXCEPT ![h] = tries[h] + 1]
  /\ UNCHANGED flock /\ KeepsTree /\ KeepsButTries

\* The attempts are counted until takeLock returns.
Returns(h, to) == Goes(h, to) /\ tries' = [tries EXCEPT ![h] = 0]

TryAfresh(h) ==
  \/ tries[h] < LockTries /\ Goes(h, "new") /\ UNCHANGED tries
  \/ tries[h] = LockTries /\ Returns(h, "gone")

OpenLock(h) ==
  /\ At(h, "open")
  /\ \/ lockAt = NoFile /\ TryAfresh(h) /\ UNCHANGED fd
     \/ lockAt # NoFile /\ Opens(h, lockAt) /\ Goes(h, "touch") /\ UNCHANGED tries
  /\ UNCHANGED lock /\ KeepsTree /\ KeepsButTries

TouchLock(h) ==
  /\ At(h, "touch") /\ Goes(h, "flock")
  /\ youngLock' = IF Named(h) THEN {lockAt} ELSE youngLock
  /\ UNCHANGED <<lockAt, flock, fd>> /\ KeepsTree /\ KeepsRest

TryLock(p, here, yes, no) ==
  /\ At(p, here)
  /\ \/ Free(p) /\ Takes(p) /\ Goes(p, yes)
     \/ ~Free(p) /\ Goes(p, no) /\ UNCHANGED flock
  /\ UNCHANGED <<lockAt, youngLock, fd>> /\ KeepsTree /\ KeepsRest

\* Mutant: a lock taken is not checked against its name.
CheckNamedNever(h) ==
  /\ At(h, "named") /\ Returns(h, "bind")
  /\ UNCHANGED <<lock, fd>> /\ KeepsTree /\ KeepsButTries

\* Taken: still the file at its name, or one a sweep has unlinked.
CheckNamed(h) ==
  /\ At(h, "named")
  /\ \/ Named(h) /\ Returns(h, "bind") /\ UNCHANGED <<flock, fd>>
     \/ ~Named(h) /\ LetsGo(h) /\ TryAfresh(h)
  /\ UNCHANGED <<lockAt, youngLock>> /\ KeepsTree /\ KeepsButTries

\* Refused: another host's, or a sweep's that has unlinked it.
CheckRefused(h) ==
  /\ At(h, "refused") /\ Closes(h)
  /\ \/ Named(h) /\ Returns(h, "gone")
     \/ ~Named(h) /\ TryAfresh(h)
  /\ UNCHANGED lock /\ KeepsTree /\ KeepsButTries

-----------------------------------------------------------------------------
(* Binding and registering *)

\* A socket already at the path refuses the bind, which unwinds.
BindSocket(h) ==
  /\ At(h, "bind")
  /\ \/ sockAt = Nobody /\ sockAt' = h /\ sockAge' = "young" /\ Goes(h, "listen")
     \/ sockAt # Nobody /\ Goes(h, "unname") /\ UNCHANGED <<sockAt, sockAge>>
  /\ UNCHANGED <<lock, entryAt, listening, fd>> /\ KeepsRest

\* From here the socket's identity is recorded.
ListenSocket(h) ==
  /\ At(h, "listen") /\ listening' = listening \cup {h} /\ Goes(h, "write")
  /\ UNCHANGED <<lock, entryAt, sockAt, sockAge, fd>> /\ KeepsRest

\* dir.replace: the entry is another file, written by its host, or is as it was.
WriteEntry(h, as) ==
  /\ entryAt' = [by |-> h, as |-> as]
  /\ told' = [told EXCEPT ![h] = entryAt']

Register(h) ==
  /\ At(h, "write")
  /\ \/ WriteEntry(h, "serving") /\ Goes(h, "bound")
     \/ Goes(h, "close") /\ UNCHANGED <<entryAt, told>>
  /\ UNCHANGED <<lock, socket, fd, tries, marked, looksAt, reading, kills>>

OwnsEntry(h) == entryAt = told[h]

\* Mutant: a rewrite waiting since before the stop writes what it was given.
UpdateUnmarked(h) ==
  /\ At(h, "bound") /\ WriteEntry(h, "serving")
  /\ UNCHANGED <<lock, socket, pc, fd, tries, marked, looksAt, reading, kills>>

Update(h) ==
  /\ At(h, "bound") /\ (h \in marked => OwnsEntry(h))
  /\ WriteEntry(h, IF h \in marked THEN "stopping" ELSE "serving")
  /\ UNCHANGED <<lock, socket, pc, fd, tries, marked, looksAt, reading, kills>>

\* The host is stopping whatever becomes of the write.
MarkStopping(h) ==
  /\ At(h, "bound") /\ marked' = marked \cup {h}
  /\ \/ told[h].as = "serving" /\ OwnsEntry(h) /\ WriteEntry(h, "stopping")
     \/ UNCHANGED <<entryAt, told>>
  /\ UNCHANGED <<lock, socket, pc, fd, tries, looksAt, reading, kills>>

-----------------------------------------------------------------------------
(* Unregistering: Close, and Bind's unwinding *)

\* A host seen registered by a scan is no longer so.
Forgets(h) == witness' = [s \in Scanners |-> IF witness[s] = h THEN Nobody ELSE witness[s]]

Close(h) ==
  /\ At(h, "bound") /\ Goes(h, "close") /\ Forgets(h)
  /\ UNCHANGED <<lock, entryAt, socket, fd, hosting, looksAt, verdict, kills>>

CloseListener(h) ==
  /\ At(h, "close") /\ listening' = listening \ {h} /\ Goes(h, "unregister")
  /\ UNCHANGED <<lock, entryAt, sockAt, sockAge, fd>> /\ KeepsRest

\* Each file is unlinked only while it is the host's own (unlinkIfOurs).
UnlinkEntry(h) ==
  /\ At(h, "unregister") /\ Goes(h, "unbind")
  /\ entryAt' = IF OwnsEntry(h) THEN Nobody ELSE entryAt
  /\ UNCHANGED <<lock, socket, fd>> /\ KeepsRest

UnlinkSocket(h) ==
  /\ At(h, "unbind") /\ Goes(h, "unname")
  /\ \/ sockAt = h /\ sockAt' = Nobody /\ sockAge' = "young"
     \/ sockAt # h /\ UNCHANGED <<sockAt, sockAge>>
  /\ UNCHANGED <<lock, entryAt, listening, fd>> /\ KeepsRest

\* A process that is gone remembers nothing.
Ends(h) ==
  /\ tries' = [tries EXCEPT ![h] = 0] /\ marked' = marked \ {h}
  /\ told' = [told EXCEPT ![h] = Nobody]

Exit(h) ==
  /\ At(h, "unlock") /\ LetsGo(h) /\ Goes(h, "gone") /\ Ends(h)
  /\ UNCHANGED <<lockAt, youngLock, entryAt, socket, looksAt, reading, kills>>

HostStep(h) ==
  \/ CreateLock(h) \/ OpenLock(h) \/ TouchLock(h)
  \/ TryLock(h, "flock", "named", "refused")
  \/ CheckNamed(h) \/ CheckRefused(h)
  \/ BindSocket(h) \/ ListenSocket(h) \/ Register(h)
  \/ CloseListener(h) \/ UnlinkEntry(h) \/ UnlinkSocket(h)
  \/ SameFile(h, "unname", "unlink", "unlock")
  \/ UnlinkLock(h, "unlink", "unlock") \/ Exit(h)

-----------------------------------------------------------------------------
(* A scan of the registry: HostsScan and its probe *)

Registered(h) == pc[h] = "bound"

\* The names are listed: an id with no entry is not looked at.
List(s) ==
  /\ At(s, "idle")
  /\ \/ entryAt # Nobody /\ Goes(s, "open") /\ UNCHANGED verdict
     \/ /\ entryAt = Nobody /\ Goes(s, "answered")
        /\ verdict' = [verdict EXCEPT ![s] = "gone"]
  /\ witness' = [witness EXCEPT ![s] =
       IF \E h \in Hosts : Registered(h) THEN CHOOSE h \in Hosts : Registered(h) ELSE Nobody]
  /\ UNCHANGED <<lock, entryAt, socket, fd, hosting, looksAt, kills>>

Answers(s, what) == verdict' = [verdict EXCEPT ![s] = what] /\ Goes(s, "answered")

ProbeOpen(s) ==
  /\ At(s, "open")
  /\ \/ lockAt = NoFile /\ Answers(s, "gone") /\ UNCHANGED fd
     \/ lockAt # NoFile /\ Opens(s, lockAt) /\ Goes(s, "try") /\ UNCHANGED verdict
  /\ UNCHANGED <<lock, entryAt, socket, hosting, looksAt, witness, kills>>

\* Mutant: a host marked stopping is taken for gone.
ReadEntryOfServing(s) ==
  /\ At(s, "read") /\ Closes(s)
  /\ Answers(s, IF entryAt # Nobody /\ entryAt.as = "serving" THEN "serving" ELSE "gone")
  /\ UNCHANGED <<lock, entryAt, socket, hosting, looksAt, witness, kills>>

\* Held by another: the entry is read, and answered at once if it reads.
ReadEntry(s) ==
  /\ At(s, "read")
  /\ \/ entryAt # Nobody /\ Answers(s, entryAt.as) /\ Closes(s)
     \/ entryAt = Nobody /\ Goes(s, "again") /\ UNCHANGED <<verdict, fd>>
  /\ UNCHANGED <<lock, entryAt, socket, hosting, looksAt, witness, kills>>

\* tryLockUntil: taken before the deadline, or the host is called alive.
TryAgain(s) ==
  /\ At(s, "again")
  /\ \/ Free(s) /\ Takes(s) /\ Goes(s, "check") /\ UNCHANGED <<verdict, fd>>
     \/ ~Free(s) /\ Answers(s, "unreadable") /\ Closes(s) /\ UNCHANGED flock
  /\ UNCHANGED <<lockAt, youngLock, entryAt, socket, hosting, looksAt, witness, kills>>

SweepEntry(s) ==
  /\ At(s, "sweepentry") /\ entryAt' = Nobody /\ Goes(s, "sweeplock")
  /\ UNCHANGED <<lock, socket, fd>> /\ KeepsRest

LetGo(s) ==
  /\ At(s, "letgo") /\ LetsGo(s) /\ Answers(s, "gone")
  /\ UNCHANGED <<lockAt, youngLock, entryAt, socket, hosting, looksAt, witness, kills>>

\* The caller has its answer.
Rest(s) ==
  /\ At(s, "answered") /\ Goes(s, "idle")
  /\ verdict' = [verdict EXCEPT ![s] = "none"] /\ witness' = [witness EXCEPT ![s] = Nobody]
  /\ UNCHANGED <<lock, entryAt, socket, fd, hosting, looksAt, kills>>

ScanStep(s) ==
  \/ List(s) \/ ProbeOpen(s) \/ TryLock(s, "try", "check", "read")
  \/ ReadEntry(s) \/ TryAgain(s)
  \/ SameFile(s, "check", "sweepentry", "letgo")
  \/ SweepEntry(s) \/ UnlinkLock(s, "sweeplock", "letgo")
  \/ LetGo(s) \/ Rest(s)

-----------------------------------------------------------------------------
(* The orphan sweep: registry orphans, then refused sockets *)

\* A lock with no entry beside it.
ListOrphans(o) ==
  /\ At(o, "idle")
  /\ Goes(o, IF lockAt # NoFile /\ entryAt = Nobody THEN "oopen" ELSE "socket")
  /\ UNCHANGED <<lock, entryAt, socket, fd>> /\ KeepsRest

OpenHeld(o, here, there, none) ==
  /\ At(o, here)
  /\ \/ lockAt = NoFile /\ Goes(o, none) /\ UNCHANGED fd
     \/ lockAt # NoFile /\ Opens(o, lockAt) /\ Goes(o, there)
  /\ UNCHANGED <<lock, entryAt, socket>> /\ KeepsRest

\* A young lock is never taken: it may be a host's, made and not yet flocked.
LockAge(o, here, next, skip) ==
  /\ At(o, here)
  /\ \/ fd[o] \notin youngLock /\ Goes(o, next) /\ UNCHANGED fd
     \/ (Named(o) => fd[o] \in youngLock) /\ Goes(o, skip) /\ Closes(o)
  /\ UNCHANGED <<lock, entryAt, socket>> /\ KeepsRest

\* One held is a live host's: left.
TryOrLeave(o, here, next, skip) ==
  /\ At(o, here)
  /\ \/ Free(o) /\ Takes(o) /\ Goes(o, next) /\ UNCHANGED fd
     \/ ~Free(o) /\ Goes(o, skip) /\ Closes(o) /\ UNCHANGED flock
  /\ UNCHANGED <<lockAt, youngLock, entryAt, socket>> /\ KeepsRest

\* The entry is looked for again, under the lock.
OrphanEntry(o) ==
  /\ At(o, "oentry") /\ Goes(o, IF entryAt = Nobody THEN "ounlink" ELSE "oletgo")
  /\ UNCHANGED <<lock, entryAt, socket, fd>> /\ KeepsRest

\* Mutant: a refused connect is evidence enough, whoever holds the lock.
LstatSocketOnly(o) ==
  /\ At(o, "socket")
  /\ \/ /\ sockAt # Nobody /\ sockAge = "old" /\ Goes(o, "probe")
        /\ looksAt' = [looksAt EXCEPT ![o] = sockAt]
     \/ /\ sockAt = Nobody \/ sockAge = "young"
        /\ Goes(o, "idle") /\ UNCHANGED looksAt
  /\ UNCHANGED <<lock, entryAt, socket, fd, hosting, reading, kills>>

\* An old socket at the path.
LstatSocket(o) ==
  /\ At(o, "socket")
  /\ \/ /\ sockAt # Nobody /\ sockAge = "old" /\ Goes(o, "sopen")
        /\ looksAt' = [looksAt EXCEPT ![o] = sockAt]
     \/ /\ sockAt = Nobody \/ sockAge = "young"
        /\ Goes(o, "idle") /\ UNCHANGED looksAt
  /\ UNCHANGED <<lock, entryAt, socket, fd, hosting, reading, kills>>

Skips(o) == Goes(o, "idle") /\ looksAt' = [looksAt EXCEPT ![o] = Nobody]

\* The connect: refused, or there is no socket, or somebody listens.
Refuses == sockAt # Nobody /\ sockAt \notin listening

ProbeSocket(o) ==
  /\ At(o, "probe")
  /\ \/ Refuses /\ Goes(o, "relstat") /\ UNCHANGED looksAt
     \/ ~Refuses /\ Skips(o)
  /\ UNCHANGED <<lock, entryAt, socket, fd, hosting, reading, kills>>

RelstatSocket(o) ==
  /\ At(o, "relstat")
  /\ \/ sockAt = looksAt[o] /\ Goes(o, "unsock") /\ UNCHANGED looksAt
     \/ sockAt # looksAt[o] /\ Skips(o)
  /\ UNCHANGED <<lock, entryAt, socket, fd, hosting, reading, kills>>

ClearSocket(o) ==
  /\ At(o, "unsock") /\ sockAt' = Nobody /\ sockAge' = "young" /\ Skips(o)
  /\ UNCHANGED <<lock, entryAt, listening, fd, hosting, reading, kills>>

SweepStep(o) ==
  \/ ListOrphans(o)
  \/ OpenHeld(o, "oopen", "oage", "socket") \/ LockAge(o, "oage", "otry", "socket")
  \/ TryOrLeave(o, "otry", "ocheck", "socket") \/ SameFile(o, "ocheck", "oentry", "oletgo")
  \/ OrphanEntry(o) \/ UnlinkLock(o, "ounlink", "oletgo") \/ ReleaseLock(o, "oletgo", "socket")
  \/ LstatSocket(o)
  \/ OpenHeld(o, "sopen", "sage", "probe") \/ LockAge(o, "sage", "stry", "idle")
  \/ TryOrLeave(o, "stry", "sletgo", "idle") \/ ReleaseLock(o, "sletgo", "probe")
  \/ ProbeSocket(o) \/ RelstatSocket(o) \/ ClearSocket(o)

-----------------------------------------------------------------------------
(* Time and death *)

\* OrphanAge passes, with whoever is between two calls still there.
AgePasses ==
  /\ youngLock' = {} /\ sockAge' = IF sockAt = Nobody THEN "young" ELSE "old"
  /\ UNCHANGED <<lockAt, flock, entryAt, sockAt, listening, pc, fd>> /\ KeepsRest

\* A killed process's lock is free and its listener gone; its files stay.
Dies(p) ==
  /\ flock' = [f \in Files |-> IF flock[f] = p THEN Nobody ELSE flock[f]]
  /\ Closes(p)
  /\ UNCHANGED <<lockAt, youngLock, entryAt, sockAt, sockAge>>

KillHost(h) ==
  /\ pc[h] \notin {"new", "gone"}
  /\ Dies(h) /\ Goes(h, "gone") /\ Forgets(h) /\ Ends(h) /\ listening' = listening \ {h}
  /\ UNCHANGED <<looksAt, verdict, kills>>

KillReader(p) ==
  /\ pc[p] # "idle" /\ kills < MaxKills /\ kills' = kills + 1
  /\ Dies(p) /\ Goes(p, "idle")
  /\ looksAt' = [o \in Sweepers |-> IF o = p THEN Nobody ELSE looksAt[o]]
  /\ verdict' = [s \in Scanners |-> IF s = p THEN "none" ELSE verdict[s]]
  /\ witness' = [s \in Scanners |-> IF s = p THEN Nobody ELSE witness[s]]
  /\ UNCHANGED <<listening, hosting>>

Next ==
  \/ \E h \in Hosts :
       HostStep(h) \/ Update(h) \/ MarkStopping(h) \/ Close(h) \/ KillHost(h)
  \/ \E s \in Scanners : ScanStep(s) \/ KillReader(s)
  \/ \E o \in Sweepers : SweepStep(o) \/ KillReader(o)
  \/ AgePasses

Spec == Init /\ [][Next]_vars

-----------------------------------------------------------------------------
(* Properties *)

TypeOK ==
  /\ lockAt \in Files \cup {NoFile} /\ flock \in [Files -> Procs \cup {Nobody}]
  /\ youngLock \subseteq Files
  /\ entryAt \in Entries \cup {Nobody}
  /\ sockAt \in Hosts \cup {Nobody} /\ sockAge \in {"young", "old"} /\ listening \subseteq Hosts
  /\ pc \in [Procs -> HostPC \cup ScanPC \cup SweepPC]
  /\ \A h \in Hosts : pc[h] \in HostPC
  /\ \A s \in Scanners : pc[s] \in ScanPC
  /\ \A o \in Sweepers : pc[o] \in SweepPC
  /\ fd \in [Procs -> Files \cup {NoFile}]
  /\ tries \in [Hosts -> 0..LockTries] /\ marked \subseteq Hosts
  /\ told \in [Hosts -> Entries \cup {Nobody}]
  /\ looksAt \in [Sweepers -> Hosts \cup {Nobody}]
  /\ verdict \in [Scanners -> {"none", "gone", "serving", "stopping", "unreadable"}]
  /\ witness \in [Scanners -> Hosts \cup {Nobody}]
  /\ kills \in 0..MaxKills

\* From the check that its lock is the file at its name until it unlinks that
\* file, a host holds the lock every reader finds: no sweep unlinked it between
\* the host's open and its flock, and no second host is up under the id.
LockIsFindable ==
  \A h \in Hosts : pc[h] \in HostHolds => Named(h) /\ flock[fd[h]] = h

\* No sweep, and no other host, takes a live host's files: a bound host is
\* never lost (Host.Lost) by anything craze does.
NeverLost == \A h \in Hosts : Registered(h) => sockAt = h /\ OwnsEntry(h)

\* A scan answers for every host registered from its start to its end: as
\* alive, or as one it cannot vouch for.
ScanMissesNobody ==
  \A s \in Scanners : pc[s] = "answered" /\ witness[s] # Nobody => verdict[s] # "gone"

\* A host whose entry says it is stopping is not listed as serving again,
\* whatever rewrite was waiting (plan 046 B4).
StoppingIsKept ==
  [][\A h \in Hosts : entryAt = [by |-> h, as |-> "stopping"]
       => entryAt' # [by |-> h, as |-> "serving"]]_vars
=============================================================================
