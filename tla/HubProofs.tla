------------------------------ MODULE HubProofs ------------------------------
(***************************************************************************)
(* One hub at a time, found while it serves, and nothing left of one that  *)
(* stopped; and an idle decision only of a quiet grace; for any number of  *)
(* hubs, of calls and of session hosts.                                    *)
(*                                                                         *)
(* The argument: from the flock to its release a hub is alone (Locked), so *)
(* what is at the socket's and the record's paths while one holds the lock *)
(* is its own once it has made them, and nobody's it removes but a dead    *)
(* hub's (Sockets, Records).  A grace armed at the lifecycle's epoch has   *)
(* met nothing, because whatever keeps a hub busy bumps the epoch as it    *)
(* comes, and no host was listed when it was armed (Graces).               *)
(***************************************************************************)
EXTENDS Hub, TLAPS

-----------------------------------------------------------------------------
(* The invariant *)

\* From the flock to its release.
HoldPC == HubPC \ {"gone", "lock", "dying"}

\* Before its bind, and after its unlink.
UnboundPC == {"lock", "line", "lstat", "probe", "settle", "clear", "bind",
              "record ours", "unrecord", "release"}
OpenPC == {"ident", "record", "ready", "serve", "idled", "stopping"}
UnwrittenPC == {"lock", "line", "lstat", "probe", "settle", "clear", "bind", "ident", "record",
                "release"}

LockedOf(h) ==
  /\ pc[h] \in HoldPC => lock = h
  /\ lock = h => pc[h] \in HoldPC \cup {"dying"}

SocketOf(h) ==
  /\ pc[h] \in OpenPC => h \in listening /\ (sockAt = h \/ (sockAt = Nobody /\ h \in strayed))
  /\ pc[h] \in OpenPC \ {"ident"} => sockID[h] = h
  /\ pc[h] \in {"undo", "ours"} /\ sockAt = h => sockID[h] = h
  /\ pc[h] \in UnboundPC => sockAt # h

RecordOf(h) ==
  /\ pc[h] \in {"ready", "serve", "idled", "stopping"} => recAt = h \/ h \in strayed
  /\ pc[h] \in UnwrittenPC => recAt # h

LeavingOf(h) ==
  /\ pc[h] = "gone" /\ h \notin killed => sockAt # h /\ recAt # h /\ line # h
  /\ pc[h] = "lock" => line # h
  /\ pc[h] = "dying" => h \in killed

GraceOf(h) ==
  /\ life[h].armed <= life[h].epoch
  /\ life[h].grace = "armed" /\ life[h].armed = life[h].epoch =>
       quiet[h] = "quiet" /\ life[h].ids = {}

Locked == \A h \in Hubs : LockedOf(h)
Sockets == \A h \in Hubs : SocketOf(h)
Records == \A h \in Hubs : RecordOf(h)
Leavings == \A h \in Hubs : LeavingOf(h)
Graces == \A h \in Hubs : GraceOf(h)

CallTypes ==
  /\ cpc \in [Callers -> CallPC]
  /\ seen \in [Callers -> SomeHub] /\ tried \in [Callers -> SomeHub]
  /\ child \in [Callers -> SomeHub] /\ holder \in [Callers -> SomeHub]
  /\ ready \in [Callers -> {"none", "ok", "held", "error"}]
  /\ again \in [Callers -> {"yes", "no"}] /\ retried \in [Callers -> {"yes", "no"}]

HubTypes ==
  /\ pc \in [Hubs -> HubPC]
  /\ lock \in SomeHub /\ line \in SomeHub /\ sockAt \in SomeHub /\ recAt \in SomeHub
  /\ listening \subseteq Hubs
  /\ looked \in [Hubs -> SomeHub] /\ sockID \in [Hubs -> SomeHub]
  /\ life \in [Hubs -> Lives] /\ sessions \subseteq Sessions
  /\ quiet \in [Hubs -> {"quiet", "disturbed"}]

HubInv == HubTypes /\ Locked /\ Sockets /\ Records /\ Leavings /\ Graces
IInv == HubInv /\ CallTypes

USE DEF Goes, LifeIs, Admitting, StartStep, Exits, Says, SomeHub, HubPC, Closing, CallPC, Spend,
        lockVars, files, starting, calls, history

LEMMA FreshIsLife == Fresh \in Lives /\ Fresh.grace = "none" /\ Fresh.armed = 0 /\ Fresh.epoch = 0
  BY DEF Fresh, Lives, Reads, NoRead, FailedRead

LEMMA ReadsAreReads ==
  ASSUME sessions \subseteq Sessions, NEW r \in RegistryRead
  PROVE  r \in Reads /\ r.of \subseteq Sessions /\ (r.is = "failed" => r.of = {})
         /\ (r.is # "failed" => r.of = sessions)
<1>1. CASE r = [is |-> "good", of |-> sessions]
  <2>1. sessions \in SUBSET Sessions
    OBVIOUS
  <2>2. QED
    BY <1>1, <2>1 DEF Reads
<1>2. CASE r = FailedRead
  BY <1>2 DEF Reads, FailedRead
<1>3. QED
  BY <1>1, <1>2 DEF RegistryRead

\* A read recorded: the epoch goes up with any host not listed before.
LEMMA SetHostsLife ==
  ASSUME NEW l \in Lives, NEW r \in Reads
  PROVE  /\ SetHosts(l, r) \in Lives
         /\ SetHosts(l, r).grace = l.grace /\ SetHosts(l, r).armed = l.armed
         /\ SetHosts(l, r).epoch >= l.epoch
         /\ r.is = "failed" => SetHosts(l, r).ids = l.ids /\ SetHosts(l, r).read = "failed"
         /\ r.is # "failed" => SetHosts(l, r).ids = r.of
         /\ r.is # "failed" /\ ~(r.of \subseteq l.ids) => SetHosts(l, r).epoch = l.epoch + 1
<1>1. CASE r.is = "failed"
  <2>1. SetHosts(l, r) = [l EXCEPT !.read = "failed"]
    BY <1>1 DEF SetHosts
  <2>2. l.epoch \in Nat
    BY DEF Lives
  <2>3. QED
    BY <1>1, <2>1, <2>2 DEF Lives
<1>2. CASE r.is # "failed" /\ r.of \subseteq l.ids
  <2>1. SetHosts(l, r) = [l EXCEPT !.read = "good", !.ids = r.of, !.epoch = l.epoch]
    BY <1>2 DEF SetHosts
  <2>2. r.of \in SUBSET Sessions /\ l.epoch \in Nat
    BY DEF Reads, Lives, NoRead, FailedRead
  <2>3. SetHosts(l, r) \in Lives
    BY <2>1, <2>2 DEF Lives
  <2>4. SetHosts(l, r).grace = l.grace /\ SetHosts(l, r).armed = l.armed
    BY <2>1 DEF Lives
  <2>5. SetHosts(l, r).ids = r.of /\ SetHosts(l, r).epoch = l.epoch
    BY <2>1 DEF Lives
  <2>6. l.epoch >= l.epoch
    BY <2>2
  <2>7. QED
    BY <1>2, <2>3, <2>4, <2>5, <2>6
<1>3. CASE r.is # "failed" /\ ~(r.of \subseteq l.ids)
  <2>1. SetHosts(l, r) = [l EXCEPT !.read = "good", !.ids = r.of, !.epoch = l.epoch + 1]
    BY <1>3 DEF SetHosts
  <2>2. r.of \in SUBSET Sessions /\ l.epoch \in Nat /\ l.epoch + 1 \in Nat
    BY DEF Reads, Lives, NoRead, FailedRead
  <2>3. SetHosts(l, r) \in Lives
    BY <2>1, <2>2 DEF Lives
  <2>4. SetHosts(l, r).grace = l.grace /\ SetHosts(l, r).armed = l.armed
    BY <2>1 DEF Lives
  <2>5. SetHosts(l, r).ids = r.of /\ SetHosts(l, r).epoch = l.epoch + 1
    BY <2>1 DEF Lives
  <2>6. l.epoch + 1 >= l.epoch
    BY <2>2
  <2>7. QED
    BY <1>3, <2>3, <2>4, <2>5, <2>6
<1>4. QED
  BY <1>1, <1>2, <1>3

\* Arming: at the epoch, and only with no host listed.
LEMMA ArmLife ==
  ASSUME NEW l \in Lives, l.armed <= l.epoch
  PROVE  /\ Arm(l) \in Lives /\ Arm(l).armed <= Arm(l).epoch
         /\ Arm(l).epoch = l.epoch /\ Arm(l).ids = l.ids
         /\ Arm(l).grace = "armed" => l.ids = {}
         /\ Arm(l).grace = "armed" /\ ~Arms(l) =>
              l.grace = "armed" /\ l.armed = l.epoch /\ Arm(l).armed = l.armed
<1>1. CASE ~Idle(l)
  BY <1>1 DEF Arm, Arms, Lives
<1>2. CASE Idle(l) /\ Arms(l)
  <2>1. Arm(l) = [l EXCEPT !.grace = "armed", !.armed = l.epoch]
    BY <1>2 DEF Arm
  <2>2. l.epoch \in Nat /\ l.epoch <= l.epoch
    BY DEF Lives
  <2>3. l.ids = {}
    BY <1>2 DEF Idle
  <2>4. QED
    BY <1>2, <2>1, <2>2, <2>3 DEF Lives
<1>3. CASE Idle(l) /\ ~Arms(l)
  BY <1>3 DEF Arm, Arms, Idle, Lives
<1>4. QED
  BY <1>1, <1>2, <1>3

LEMMA OneHolds ==
  ASSUME HubInv, NEW g \in Hubs, NEW h \in Hubs, pc[g] \in HoldPC, pc[h] \in HoldPC
  PROVE  g = h
  BY DEF HubInv, Locked, LockedOf

LEMMA InitHolds == Init => IInv
<1> SUFFICES ASSUME Init PROVE IInv
  OBVIOUS
<1>1. HubTypes
  BY FreshIsLife DEF Init, HubTypes
<1>2. CallTypes
  BY DEF Init, CallTypes
<1>3. Locked /\ Sockets /\ Records /\ Leavings
  BY NobodyIsNoHub DEF Init, Locked, Sockets, Records, Leavings, LockedOf, SocketOf, RecordOf,
     LeavingOf, HoldPC, OpenPC, UnboundPC, UnwrittenPC
<1>4. Graces
  <2> SUFFICES ASSUME NEW h \in Hubs PROVE GraceOf(h)
    BY DEF Graces
  <2>1. life[h] = Fresh /\ 0 <= 0
    BY DEF Init
  <2>2. QED
    BY <2>1, FreshIsLife DEF GraceOf
<1>5. QED
  BY <1>1, <1>2, <1>3, <1>4 DEF IInv, HubInv

-----------------------------------------------------------------------------
(* The lifecycle and the loop *)

LEMMA TakeLockKeeps ==
  ASSUME IInv, NEW h \in Hubs, TakeLock(h)
  PROVE  IInv'
<1>1. CASE lock = Nobody /\ lock' = h /\ StartStep(h, "lock", "line")
            /\ UNCHANGED <<line, files, starting>>
  <2>1. HubTypes'
    BY <1>1, NobodyIsNoHub DEF IInv, HubInv, HubTypes, CallTypes, Alive
  <2>2. Locked'
    BY <1>1, NobodyIsNoHub, OneHolds DEF IInv, HubInv, HubTypes, Locked, LockedOf, HoldPC, Alive
  <2>3. Sockets'
    <3> SUFFICES ASSUME NEW g \in Hubs PROVE SocketOf(g)'
      BY DEF Sockets
    <3>1. HubTypes /\ SocketOf(g) /\ LockedOf(g)
      BY DEF IInv, HubInv, Sockets, Locked
    <3>2. SocketOf(h) /\ LockedOf(h)
      BY DEF IInv, HubInv, Sockets, Locked
    <3>3. CASE g = h
      BY <3>1, <3>3, <1>1, NobodyIsNoHub DEF HubTypes, SocketOf, HoldPC, OpenPC,
         UnboundPC, Alive, LockedOf
    <3>4. CASE g # h
      BY <3>1, <3>2, <3>4, <1>1, NobodyIsNoHub DEF HubTypes, SocketOf, HoldPC, OpenPC,
         UnboundPC, Alive, LockedOf
    <3>5. QED
      BY <3>3, <3>4
  <2>4. Records'
    BY <1>1, NobodyIsNoHub, OneHolds DEF IInv, HubInv, HubTypes, Records, RecordOf, HoldPC,
       UnwrittenPC, Alive, Locked, LockedOf
  <2>5. Leavings'
    <3> SUFFICES ASSUME NEW g \in Hubs PROVE LeavingOf(g)'
      BY DEF Leavings
    <3>1. HubTypes /\ LeavingOf(g) /\ RecordOf(g) /\ SocketOf(g) /\ LockedOf(g)
      BY DEF IInv, HubInv, Leavings, Records, Sockets, Locked
    <3>2. LeavingOf(h) /\ RecordOf(h) /\ SocketOf(h) /\ LockedOf(h)
      BY DEF IInv, HubInv, Leavings, Records, Sockets, Locked
    <3>3. CASE g = h
      BY <3>1, <3>3, <1>1, NobodyIsNoHub DEF HubTypes, LeavingOf, UnboundPC,
         UnwrittenPC, SocketOf, RecordOf, LockedOf, HoldPC, Alive
    <3>4. CASE g # h
      BY <3>1, <3>2, <3>4, <1>1, NobodyIsNoHub DEF HubTypes, LeavingOf, UnboundPC,
         UnwrittenPC, SocketOf, RecordOf, LockedOf, HoldPC, Alive
    <3>5. QED
      BY <3>3, <3>4
  <2>6. Graces'
    BY <1>1, NobodyIsNoHub, OneHolds DEF IInv, HubInv, HubTypes, Graces, GraceOf, Alive, Locked,
       LockedOf
  <2>7. CallTypes'
    BY <1>1, NobodyIsNoHub DEF IInv, HubInv, HubTypes, CallTypes, Alive
  <2>8. QED
    BY <2>1, <2>2, <2>3, <2>4, <2>5, <2>6, <2>7 DEF IInv, HubInv
<1>2. CASE Exits(h, "lock") /\ Says(h, "held", IF Alive(line) THEN line ELSE Nobody)
            /\ UNCHANGED <<lockVars, files>>
  <2>1. HubTypes'
    BY <1>2, NobodyIsNoHub DEF IInv, HubInv, HubTypes, CallTypes, Alive
  <2>2. Locked'
    BY <1>2, NobodyIsNoHub, OneHolds DEF IInv, HubInv, HubTypes, Locked, LockedOf, HoldPC, Alive
  <2>3. Sockets'
    <3> SUFFICES ASSUME NEW g \in Hubs PROVE SocketOf(g)'
      BY DEF Sockets
    <3>1. HubTypes /\ SocketOf(g) /\ LockedOf(g)
      BY DEF IInv, HubInv, Sockets, Locked
    <3>2. SocketOf(h) /\ LockedOf(h)
      BY DEF IInv, HubInv, Sockets, Locked
    <3>3. CASE g = h
      BY <3>1, <3>3, <1>2, NobodyIsNoHub DEF HubTypes, SocketOf, HoldPC, OpenPC,
         UnboundPC, Alive, LockedOf
    <3>4. CASE g # h
      BY <3>1, <3>2, <3>4, <1>2, NobodyIsNoHub DEF HubTypes, SocketOf, HoldPC, OpenPC,
         UnboundPC, Alive, LockedOf
    <3>5. QED
      BY <3>3, <3>4
  <2>4. Records'
    BY <1>2, NobodyIsNoHub, OneHolds DEF IInv, HubInv, HubTypes, Records, RecordOf, HoldPC,
       UnwrittenPC, Alive, Locked, LockedOf
  <2>5. Leavings'
    <3> SUFFICES ASSUME NEW g \in Hubs PROVE LeavingOf(g)'
      BY DEF Leavings
    <3>1. HubTypes /\ LeavingOf(g) /\ RecordOf(g) /\ SocketOf(g) /\ LockedOf(g)
      BY DEF IInv, HubInv, Leavings, Records, Sockets, Locked
    <3>2. LeavingOf(h) /\ RecordOf(h) /\ SocketOf(h) /\ LockedOf(h)
      BY DEF IInv, HubInv, Leavings, Records, Sockets, Locked
    <3>3. CASE g = h
      BY <3>1, <3>3, <1>2, NobodyIsNoHub DEF HubTypes, LeavingOf, UnboundPC,
         UnwrittenPC, SocketOf, RecordOf, LockedOf, HoldPC, Alive
    <3>4. CASE g # h
      BY <3>1, <3>2, <3>4, <1>2, NobodyIsNoHub DEF HubTypes, LeavingOf, UnboundPC,
         UnwrittenPC, SocketOf, RecordOf, LockedOf, HoldPC, Alive
    <3>5. QED
      BY <3>3, <3>4
  <2>6. Graces'
    BY <1>2, NobodyIsNoHub, OneHolds DEF IInv, HubInv, HubTypes, Graces, GraceOf, Alive, Locked,
       LockedOf
  <2>7. CallTypes'
    BY <1>2, NobodyIsNoHub DEF IInv, HubInv, HubTypes, CallTypes, Alive
  <2>8. QED
    BY <2>1, <2>2, <2>3, <2>4, <2>5, <2>6, <2>7 DEF IInv, HubInv
<1>3. CASE Exits(h, "lock") /\ Says(h, "error", Nobody) /\ UNCHANGED <<lockVars, files>>
  <2>1. HubTypes'
    BY <1>3, NobodyIsNoHub DEF IInv, HubInv, HubTypes, CallTypes, Alive
  <2>2. Locked'
    BY <1>3, NobodyIsNoHub, OneHolds DEF IInv, HubInv, HubTypes, Locked, LockedOf, HoldPC, Alive
  <2>3. Sockets'
    <3> SUFFICES ASSUME NEW g \in Hubs PROVE SocketOf(g)'
      BY DEF Sockets
    <3>1. HubTypes /\ SocketOf(g) /\ LockedOf(g)
      BY DEF IInv, HubInv, Sockets, Locked
    <3>2. SocketOf(h) /\ LockedOf(h)
      BY DEF IInv, HubInv, Sockets, Locked
    <3>3. CASE g = h
      BY <3>1, <3>3, <1>3, NobodyIsNoHub DEF HubTypes, SocketOf, HoldPC, OpenPC,
         UnboundPC, Alive, LockedOf
    <3>4. CASE g # h
      BY <3>1, <3>2, <3>4, <1>3, NobodyIsNoHub DEF HubTypes, SocketOf, HoldPC, OpenPC,
         UnboundPC, Alive, LockedOf
    <3>5. QED
      BY <3>3, <3>4
  <2>4. Records'
    BY <1>3, NobodyIsNoHub, OneHolds DEF IInv, HubInv, HubTypes, Records, RecordOf, HoldPC,
       UnwrittenPC, Alive, Locked, LockedOf
  <2>5. Leavings'
    <3> SUFFICES ASSUME NEW g \in Hubs PROVE LeavingOf(g)'
      BY DEF Leavings
    <3>1. HubTypes /\ LeavingOf(g) /\ RecordOf(g) /\ SocketOf(g) /\ LockedOf(g)
      BY DEF IInv, HubInv, Leavings, Records, Sockets, Locked
    <3>2. LeavingOf(h) /\ RecordOf(h) /\ SocketOf(h) /\ LockedOf(h)
      BY DEF IInv, HubInv, Leavings, Records, Sockets, Locked
    <3>3. CASE g = h
      BY <3>1, <3>3, <1>3, NobodyIsNoHub DEF HubTypes, LeavingOf, UnboundPC,
         UnwrittenPC, SocketOf, RecordOf, LockedOf, HoldPC, Alive
    <3>4. CASE g # h
      BY <3>1, <3>2, <3>4, <1>3, NobodyIsNoHub DEF HubTypes, LeavingOf, UnboundPC,
         UnwrittenPC, SocketOf, RecordOf, LockedOf, HoldPC, Alive
    <3>5. QED
      BY <3>3, <3>4
  <2>6. Graces'
    BY <1>3, NobodyIsNoHub, OneHolds DEF IInv, HubInv, HubTypes, Graces, GraceOf, Alive, Locked,
       LockedOf
  <2>7. CallTypes'
    BY <1>3, NobodyIsNoHub DEF IInv, HubInv, HubTypes, CallTypes, Alive
  <2>8. QED
    BY <2>1, <2>2, <2>3, <2>4, <2>5, <2>6, <2>7 DEF IInv, HubInv
<1>4. QED
  BY <1>1, <1>2, <1>3 DEF TakeLock, Closing

LEMMA WriteHolderKeeps ==
  ASSUME IInv, NEW h \in Hubs, WriteHolder(h)
  PROVE  IInv'
<1>1. CASE line' = h /\ StartStep(h, "line", "lstat") /\ UNCHANGED <<lock, files, starting>>
  <2>1. HubTypes'
    BY <1>1, NobodyIsNoHub DEF IInv, HubInv, HubTypes, CallTypes
  <2>2. Locked'
    BY <1>1, NobodyIsNoHub, OneHolds DEF IInv, HubInv, HubTypes, Locked, LockedOf, HoldPC
  <2>3. Sockets'
    <3> SUFFICES ASSUME NEW g \in Hubs PROVE SocketOf(g)'
      BY DEF Sockets
    <3>1. HubTypes /\ SocketOf(g) /\ LockedOf(g)
      BY DEF IInv, HubInv, Sockets, Locked
    <3>2. SocketOf(h) /\ LockedOf(h)
      BY DEF IInv, HubInv, Sockets, Locked
    <3>3. CASE g = h
      BY <3>1, <3>3, <1>1, NobodyIsNoHub DEF HubTypes, SocketOf, HoldPC, OpenPC,
         UnboundPC, LockedOf
    <3>4. CASE g # h
      BY <3>1, <3>2, <3>4, <1>1, NobodyIsNoHub DEF HubTypes, SocketOf, HoldPC, OpenPC,
         UnboundPC, LockedOf
    <3>5. QED
      BY <3>3, <3>4
  <2>4. Records'
    BY <1>1, NobodyIsNoHub, OneHolds DEF IInv, HubInv, HubTypes, Records, RecordOf, HoldPC,
       UnwrittenPC, Locked, LockedOf
  <2>5. Leavings'
    <3> SUFFICES ASSUME NEW g \in Hubs PROVE LeavingOf(g)'
      BY DEF Leavings
    <3>1. HubTypes /\ LeavingOf(g) /\ RecordOf(g) /\ SocketOf(g) /\ LockedOf(g)
      BY DEF IInv, HubInv, Leavings, Records, Sockets, Locked
    <3>2. LeavingOf(h) /\ RecordOf(h) /\ SocketOf(h) /\ LockedOf(h)
      BY DEF IInv, HubInv, Leavings, Records, Sockets, Locked
    <3>3. CASE g = h
      BY <3>1, <3>3, <1>1, NobodyIsNoHub DEF HubTypes, LeavingOf, UnboundPC,
         UnwrittenPC, SocketOf, RecordOf, LockedOf, HoldPC
    <3>4. CASE g # h
      BY <3>1, <3>2, <3>4, <1>1, NobodyIsNoHub DEF HubTypes, LeavingOf, UnboundPC,
         UnwrittenPC, SocketOf, RecordOf, LockedOf, HoldPC
    <3>5. QED
      BY <3>3, <3>4
  <2>6. Graces'
    BY <1>1, NobodyIsNoHub, OneHolds DEF IInv, HubInv, HubTypes, Graces, GraceOf, Locked, LockedOf
  <2>7. CallTypes'
    BY <1>1, NobodyIsNoHub DEF IInv, HubInv, HubTypes, CallTypes
  <2>8. QED
    BY <2>1, <2>2, <2>3, <2>4, <2>5, <2>6, <2>7 DEF IInv, HubInv
<1>2. CASE StartStep(h, "line", "release") /\ UNCHANGED <<lockVars, files, starting>>
  <2>1. HubTypes'
    BY <1>2, NobodyIsNoHub DEF IInv, HubInv, HubTypes, CallTypes
  <2>2. Locked'
    BY <1>2, NobodyIsNoHub, OneHolds DEF IInv, HubInv, HubTypes, Locked, LockedOf, HoldPC
  <2>3. Sockets'
    <3> SUFFICES ASSUME NEW g \in Hubs PROVE SocketOf(g)'
      BY DEF Sockets
    <3>1. HubTypes /\ SocketOf(g) /\ LockedOf(g)
      BY DEF IInv, HubInv, Sockets, Locked
    <3>2. SocketOf(h) /\ LockedOf(h)
      BY DEF IInv, HubInv, Sockets, Locked
    <3>3. CASE g = h
      BY <3>1, <3>3, <1>2, NobodyIsNoHub DEF HubTypes, SocketOf, HoldPC, OpenPC,
         UnboundPC, LockedOf
    <3>4. CASE g # h
      BY <3>1, <3>2, <3>4, <1>2, NobodyIsNoHub DEF HubTypes, SocketOf, HoldPC, OpenPC,
         UnboundPC, LockedOf
    <3>5. QED
      BY <3>3, <3>4
  <2>4. Records'
    BY <1>2, NobodyIsNoHub, OneHolds DEF IInv, HubInv, HubTypes, Records, RecordOf, HoldPC,
       UnwrittenPC, Locked, LockedOf
  <2>5. Leavings'
    <3> SUFFICES ASSUME NEW g \in Hubs PROVE LeavingOf(g)'
      BY DEF Leavings
    <3>1. HubTypes /\ LeavingOf(g) /\ RecordOf(g) /\ SocketOf(g) /\ LockedOf(g)
      BY DEF IInv, HubInv, Leavings, Records, Sockets, Locked
    <3>2. LeavingOf(h) /\ RecordOf(h) /\ SocketOf(h) /\ LockedOf(h)
      BY DEF IInv, HubInv, Leavings, Records, Sockets, Locked
    <3>3. CASE g = h
      BY <3>1, <3>3, <1>2, NobodyIsNoHub DEF HubTypes, LeavingOf, UnboundPC,
         UnwrittenPC, SocketOf, RecordOf, LockedOf, HoldPC
    <3>4. CASE g # h
      BY <3>1, <3>2, <3>4, <1>2, NobodyIsNoHub DEF HubTypes, LeavingOf, UnboundPC,
         UnwrittenPC, SocketOf, RecordOf, LockedOf, HoldPC
    <3>5. QED
      BY <3>3, <3>4
  <2>6. Graces'
    BY <1>2, NobodyIsNoHub, OneHolds DEF IInv, HubInv, HubTypes, Graces, GraceOf, Locked, LockedOf
  <2>7. CallTypes'
    BY <1>2, NobodyIsNoHub DEF IInv, HubInv, HubTypes, CallTypes
  <2>8. QED
    BY <2>1, <2>2, <2>3, <2>4, <2>5, <2>6, <2>7 DEF IInv, HubInv
<1>3. QED
  BY <1>1, <1>2 DEF WriteHolder, Closing

LEMMA LstatSocketKeeps ==
  ASSUME IInv, NEW h \in Hubs, LstatSocket(h)
  PROVE  IInv'
<1>1. HubTypes'
  BY NobodyIsNoHub DEF IInv, HubInv, HubTypes, CallTypes, LstatSocket
<1>2. Locked'
  BY NobodyIsNoHub, OneHolds DEF IInv, HubInv, HubTypes, Locked, LockedOf, HoldPC, LstatSocket
<1>3. Sockets'
  <2> SUFFICES ASSUME NEW g \in Hubs PROVE SocketOf(g)'
    BY DEF Sockets
  <2>1. HubTypes /\ SocketOf(g) /\ LockedOf(g)
    BY DEF IInv, HubInv, Sockets, Locked
  <2>2. SocketOf(h) /\ LockedOf(h)
    BY DEF IInv, HubInv, Sockets, Locked
  <2>3. CASE g = h
    BY <2>1, <2>3, NobodyIsNoHub DEF HubTypes, SocketOf, HoldPC, OpenPC, UnboundPC,
       LstatSocket, LockedOf
  <2>4. CASE g # h
    BY <2>1, <2>2, <2>4, NobodyIsNoHub DEF HubTypes, SocketOf, HoldPC, OpenPC, UnboundPC,
       LstatSocket, LockedOf
  <2>5. QED
    BY <2>3, <2>4
<1>4. Records'
  BY NobodyIsNoHub, OneHolds DEF IInv, HubInv, HubTypes, Records, RecordOf, HoldPC, UnwrittenPC,
     LstatSocket, Locked, LockedOf
<1>5. Leavings'
  <2> SUFFICES ASSUME NEW g \in Hubs PROVE LeavingOf(g)'
    BY DEF Leavings
  <2>1. HubTypes /\ LeavingOf(g) /\ RecordOf(g) /\ SocketOf(g) /\ LockedOf(g)
    BY DEF IInv, HubInv, Leavings, Records, Sockets, Locked
  <2>2. LeavingOf(h) /\ RecordOf(h) /\ SocketOf(h) /\ LockedOf(h)
    BY DEF IInv, HubInv, Leavings, Records, Sockets, Locked
  <2>3. CASE g = h
    BY <2>1, <2>3, NobodyIsNoHub DEF HubTypes, LeavingOf, UnboundPC, UnwrittenPC,
       SocketOf, RecordOf, LockedOf, HoldPC, LstatSocket
  <2>4. CASE g # h
    BY <2>1, <2>2, <2>4, NobodyIsNoHub DEF HubTypes, LeavingOf, UnboundPC, UnwrittenPC,
       SocketOf, RecordOf, LockedOf, HoldPC, LstatSocket
  <2>5. QED
    BY <2>3, <2>4
<1>6. Graces'
  BY NobodyIsNoHub, OneHolds DEF IInv, HubInv, HubTypes, Graces, GraceOf, LstatSocket, Locked,
     LockedOf
<1>7. CallTypes'
  BY NobodyIsNoHub DEF IInv, HubInv, HubTypes, CallTypes, LstatSocket
<1>8. QED
  BY <1>1, <1>2, <1>3, <1>4, <1>5, <1>6, <1>7 DEF IInv, HubInv

LEMMA ProbeSocketKeeps ==
  ASSUME IInv, NEW h \in Hubs, ProbeSocket(h)
  PROVE  IInv'
<1>1. HubTypes'
  BY NobodyIsNoHub DEF IInv, HubInv, HubTypes, CallTypes, ProbeSocket
<1>2. Locked'
  BY NobodyIsNoHub, OneHolds DEF IInv, HubInv, HubTypes, Locked, LockedOf, HoldPC, ProbeSocket
<1>3. Sockets'
  <2> SUFFICES ASSUME NEW g \in Hubs PROVE SocketOf(g)'
    BY DEF Sockets
  <2>1. HubTypes /\ SocketOf(g) /\ LockedOf(g)
    BY DEF IInv, HubInv, Sockets, Locked
  <2>2. SocketOf(h) /\ LockedOf(h)
    BY DEF IInv, HubInv, Sockets, Locked
  <2>3. CASE g = h
    BY <2>1, <2>3, NobodyIsNoHub DEF HubTypes, SocketOf, HoldPC, OpenPC, UnboundPC,
       ProbeSocket, LockedOf
  <2>4. CASE g # h
    BY <2>1, <2>2, <2>4, NobodyIsNoHub DEF HubTypes, SocketOf, HoldPC, OpenPC, UnboundPC,
       ProbeSocket, LockedOf
  <2>5. QED
    BY <2>3, <2>4
<1>4. Records'
  BY NobodyIsNoHub, OneHolds DEF IInv, HubInv, HubTypes, Records, RecordOf, HoldPC, UnwrittenPC,
     ProbeSocket, Locked, LockedOf
<1>5. Leavings'
  <2> SUFFICES ASSUME NEW g \in Hubs PROVE LeavingOf(g)'
    BY DEF Leavings
  <2>1. HubTypes /\ LeavingOf(g) /\ RecordOf(g) /\ SocketOf(g) /\ LockedOf(g)
    BY DEF IInv, HubInv, Leavings, Records, Sockets, Locked
  <2>2. LeavingOf(h) /\ RecordOf(h) /\ SocketOf(h) /\ LockedOf(h)
    BY DEF IInv, HubInv, Leavings, Records, Sockets, Locked
  <2>3. CASE g = h
    BY <2>1, <2>3, NobodyIsNoHub DEF HubTypes, LeavingOf, UnboundPC, UnwrittenPC,
       SocketOf, RecordOf, LockedOf, HoldPC, ProbeSocket
  <2>4. CASE g # h
    BY <2>1, <2>2, <2>4, NobodyIsNoHub DEF HubTypes, LeavingOf, UnboundPC, UnwrittenPC,
       SocketOf, RecordOf, LockedOf, HoldPC, ProbeSocket
  <2>5. QED
    BY <2>3, <2>4
<1>6. Graces'
  BY NobodyIsNoHub, OneHolds DEF IInv, HubInv, HubTypes, Graces, GraceOf, ProbeSocket, Locked,
     LockedOf
<1>7. CallTypes'
  BY NobodyIsNoHub DEF IInv, HubInv, HubTypes, CallTypes, ProbeSocket
<1>8. QED
  BY <1>1, <1>2, <1>3, <1>4, <1>5, <1>6, <1>7 DEF IInv, HubInv

LEMMA SettleKeeps ==
  ASSUME IInv, NEW h \in Hubs, Settle(h)
  PROVE  IInv'
<1>1. HubTypes'
  BY NobodyIsNoHub DEF IInv, HubInv, HubTypes, CallTypes, Settle
<1>2. Locked'
  BY NobodyIsNoHub, OneHolds DEF IInv, HubInv, HubTypes, Locked, LockedOf, HoldPC, Settle
<1>3. Sockets'
  <2> SUFFICES ASSUME NEW g \in Hubs PROVE SocketOf(g)'
    BY DEF Sockets
  <2>1. HubTypes /\ SocketOf(g) /\ LockedOf(g)
    BY DEF IInv, HubInv, Sockets, Locked
  <2>2. SocketOf(h) /\ LockedOf(h)
    BY DEF IInv, HubInv, Sockets, Locked
  <2>3. CASE g = h
    BY <2>1, <2>3, NobodyIsNoHub DEF HubTypes, SocketOf, HoldPC, OpenPC, UnboundPC,
       Settle, LockedOf
  <2>4. CASE g # h
    BY <2>1, <2>2, <2>4, NobodyIsNoHub DEF HubTypes, SocketOf, HoldPC, OpenPC, UnboundPC,
       Settle, LockedOf
  <2>5. QED
    BY <2>3, <2>4
<1>4. Records'
  BY NobodyIsNoHub, OneHolds DEF IInv, HubInv, HubTypes, Records, RecordOf, HoldPC, UnwrittenPC,
     Settle, Locked, LockedOf
<1>5. Leavings'
  <2> SUFFICES ASSUME NEW g \in Hubs PROVE LeavingOf(g)'
    BY DEF Leavings
  <2>1. HubTypes /\ LeavingOf(g) /\ RecordOf(g) /\ SocketOf(g) /\ LockedOf(g)
    BY DEF IInv, HubInv, Leavings, Records, Sockets, Locked
  <2>2. LeavingOf(h) /\ RecordOf(h) /\ SocketOf(h) /\ LockedOf(h)
    BY DEF IInv, HubInv, Leavings, Records, Sockets, Locked
  <2>3. CASE g = h
    BY <2>1, <2>3, NobodyIsNoHub DEF HubTypes, LeavingOf, UnboundPC, UnwrittenPC,
       SocketOf, RecordOf, LockedOf, HoldPC, Settle
  <2>4. CASE g # h
    BY <2>1, <2>2, <2>4, NobodyIsNoHub DEF HubTypes, LeavingOf, UnboundPC, UnwrittenPC,
       SocketOf, RecordOf, LockedOf, HoldPC, Settle
  <2>5. QED
    BY <2>3, <2>4
<1>6. Graces'
  BY NobodyIsNoHub, OneHolds DEF IInv, HubInv, HubTypes, Graces, GraceOf, Settle, Locked, LockedOf
<1>7. CallTypes'
  BY NobodyIsNoHub DEF IInv, HubInv, HubTypes, CallTypes, Settle
<1>8. QED
  BY <1>1, <1>2, <1>3, <1>4, <1>5, <1>6, <1>7 DEF IInv, HubInv

LEMMA ClearRefusedKeeps ==
  ASSUME IInv, NEW h \in Hubs, ClearRefused(h)
  PROVE  IInv'
<1>1. HubTypes'
  BY NobodyIsNoHub DEF IInv, HubInv, HubTypes, CallTypes, ClearRefused
<1>2. Locked'
  BY NobodyIsNoHub, OneHolds DEF IInv, HubInv, HubTypes, Locked, LockedOf, HoldPC, ClearRefused
<1>3. Sockets'
  <2> SUFFICES ASSUME NEW g \in Hubs PROVE SocketOf(g)'
    BY DEF Sockets
  <2>1. HubTypes /\ SocketOf(g) /\ LockedOf(g)
    BY DEF IInv, HubInv, Sockets, Locked
  <2>2. SocketOf(h) /\ LockedOf(h)
    BY DEF IInv, HubInv, Sockets, Locked
  <2>3. CASE g = h
    BY <2>1, <2>3, NobodyIsNoHub DEF HubTypes, SocketOf, HoldPC, OpenPC, UnboundPC,
       ClearRefused, LockedOf
  <2>4. CASE g # h
    BY <2>1, <2>2, <2>4, NobodyIsNoHub DEF HubTypes, SocketOf, HoldPC, OpenPC, UnboundPC,
       ClearRefused, LockedOf
  <2>5. QED
    BY <2>3, <2>4
<1>4. Records'
  BY NobodyIsNoHub, OneHolds DEF IInv, HubInv, HubTypes, Records, RecordOf, HoldPC, UnwrittenPC,
     ClearRefused, Locked, LockedOf
<1>5. Leavings'
  <2> SUFFICES ASSUME NEW g \in Hubs PROVE LeavingOf(g)'
    BY DEF Leavings
  <2>1. HubTypes /\ LeavingOf(g) /\ RecordOf(g) /\ SocketOf(g) /\ LockedOf(g)
    BY DEF IInv, HubInv, Leavings, Records, Sockets, Locked
  <2>2. LeavingOf(h) /\ RecordOf(h) /\ SocketOf(h) /\ LockedOf(h)
    BY DEF IInv, HubInv, Leavings, Records, Sockets, Locked
  <2>3. CASE g = h
    BY <2>1, <2>3, NobodyIsNoHub DEF HubTypes, LeavingOf, UnboundPC, UnwrittenPC,
       SocketOf, RecordOf, LockedOf, HoldPC, ClearRefused
  <2>4. CASE g # h
    BY <2>1, <2>2, <2>4, NobodyIsNoHub DEF HubTypes, LeavingOf, UnboundPC, UnwrittenPC,
       SocketOf, RecordOf, LockedOf, HoldPC, ClearRefused
  <2>5. QED
    BY <2>3, <2>4
<1>6. Graces'
  BY NobodyIsNoHub, OneHolds DEF IInv, HubInv, HubTypes, Graces, GraceOf, ClearRefused, Locked,
     LockedOf
<1>7. CallTypes'
  BY NobodyIsNoHub DEF IInv, HubInv, HubTypes, CallTypes, ClearRefused
<1>8. QED
  BY <1>1, <1>2, <1>3, <1>4, <1>5, <1>6, <1>7 DEF IInv, HubInv

LEMMA BindKeeps ==
  ASSUME IInv, NEW h \in Hubs, Bind(h)
  PROVE  IInv'
<1>1. CASE /\ sockAt = Nobody /\ StartStep(h, "bind", "ident") /\ sockAt' = h
          /\ listening' = listening \cup {h} /\ UNCHANGED <<lockVars, recAt, starting>>
  <2>1. HubTypes'
    BY <1>1, NobodyIsNoHub DEF IInv, HubInv, HubTypes, CallTypes
  <2>2. Locked'
    BY <1>1, NobodyIsNoHub, OneHolds DEF IInv, HubInv, HubTypes, Locked, LockedOf, HoldPC
  <2>3. Sockets'
    <3> SUFFICES ASSUME NEW g \in Hubs PROVE SocketOf(g)'
      BY DEF Sockets
    <3>1. HubTypes /\ SocketOf(g) /\ LockedOf(g)
      BY DEF IInv, HubInv, Sockets, Locked
    <3>2. SocketOf(h) /\ LockedOf(h)
      BY DEF IInv, HubInv, Sockets, Locked
    <3>3. CASE g = h
      BY <3>1, <3>3, <1>1, NobodyIsNoHub DEF HubTypes, SocketOf, HoldPC, OpenPC,
         UnboundPC, LockedOf
    <3>4. CASE g # h
      BY <3>1, <3>2, <3>4, <1>1, NobodyIsNoHub DEF HubTypes, SocketOf, HoldPC, OpenPC,
         UnboundPC, LockedOf
    <3>5. QED
      BY <3>3, <3>4
  <2>4. Records'
    BY <1>1, NobodyIsNoHub, OneHolds DEF IInv, HubInv, HubTypes, Records, RecordOf, HoldPC,
       UnwrittenPC, Locked, LockedOf
  <2>5. Leavings'
    <3> SUFFICES ASSUME NEW g \in Hubs PROVE LeavingOf(g)'
      BY DEF Leavings
    <3>1. HubTypes /\ LeavingOf(g) /\ RecordOf(g) /\ SocketOf(g) /\ LockedOf(g)
      BY DEF IInv, HubInv, Leavings, Records, Sockets, Locked
    <3>2. LeavingOf(h) /\ RecordOf(h) /\ SocketOf(h) /\ LockedOf(h)
      BY DEF IInv, HubInv, Leavings, Records, Sockets, Locked
    <3>3. CASE g = h
      BY <3>1, <3>3, <1>1, NobodyIsNoHub DEF HubTypes, LeavingOf, UnboundPC,
         UnwrittenPC, SocketOf, RecordOf, LockedOf, HoldPC
    <3>4. CASE g # h
      BY <3>1, <3>2, <3>4, <1>1, NobodyIsNoHub DEF HubTypes, LeavingOf, UnboundPC,
         UnwrittenPC, SocketOf, RecordOf, LockedOf, HoldPC
    <3>5. QED
      BY <3>3, <3>4
  <2>6. Graces'
    BY <1>1, NobodyIsNoHub, OneHolds DEF IInv, HubInv, HubTypes, Graces, GraceOf, Locked, LockedOf
  <2>7. CallTypes'
    BY <1>1, NobodyIsNoHub DEF IInv, HubInv, HubTypes, CallTypes
  <2>8. QED
    BY <2>1, <2>2, <2>3, <2>4, <2>5, <2>6, <2>7 DEF IInv, HubInv
<1>2. CASE StartStep(h, "bind", "undo") /\ UNCHANGED <<lockVars, files, starting>>
  <2>1. HubTypes'
    BY <1>2, NobodyIsNoHub DEF IInv, HubInv, HubTypes, CallTypes
  <2>2. Locked'
    BY <1>2, NobodyIsNoHub, OneHolds DEF IInv, HubInv, HubTypes, Locked, LockedOf, HoldPC
  <2>3. Sockets'
    <3> SUFFICES ASSUME NEW g \in Hubs PROVE SocketOf(g)'
      BY DEF Sockets
    <3>1. HubTypes /\ SocketOf(g) /\ LockedOf(g)
      BY DEF IInv, HubInv, Sockets, Locked
    <3>2. SocketOf(h) /\ LockedOf(h)
      BY DEF IInv, HubInv, Sockets, Locked
    <3>3. CASE g = h
      BY <3>1, <3>3, <1>2, NobodyIsNoHub DEF HubTypes, SocketOf, HoldPC, OpenPC,
         UnboundPC, LockedOf
    <3>4. CASE g # h
      BY <3>1, <3>2, <3>4, <1>2, NobodyIsNoHub DEF HubTypes, SocketOf, HoldPC, OpenPC,
         UnboundPC, LockedOf
    <3>5. QED
      BY <3>3, <3>4
  <2>4. Records'
    BY <1>2, NobodyIsNoHub, OneHolds DEF IInv, HubInv, HubTypes, Records, RecordOf, HoldPC,
       UnwrittenPC, Locked, LockedOf
  <2>5. Leavings'
    <3> SUFFICES ASSUME NEW g \in Hubs PROVE LeavingOf(g)'
      BY DEF Leavings
    <3>1. HubTypes /\ LeavingOf(g) /\ RecordOf(g) /\ SocketOf(g) /\ LockedOf(g)
      BY DEF IInv, HubInv, Leavings, Records, Sockets, Locked
    <3>2. LeavingOf(h) /\ RecordOf(h) /\ SocketOf(h) /\ LockedOf(h)
      BY DEF IInv, HubInv, Leavings, Records, Sockets, Locked
    <3>3. CASE g = h
      BY <3>1, <3>3, <1>2, NobodyIsNoHub DEF HubTypes, LeavingOf, UnboundPC,
         UnwrittenPC, SocketOf, RecordOf, LockedOf, HoldPC
    <3>4. CASE g # h
      BY <3>1, <3>2, <3>4, <1>2, NobodyIsNoHub DEF HubTypes, LeavingOf, UnboundPC,
         UnwrittenPC, SocketOf, RecordOf, LockedOf, HoldPC
    <3>5. QED
      BY <3>3, <3>4
  <2>6. Graces'
    BY <1>2, NobodyIsNoHub, OneHolds DEF IInv, HubInv, HubTypes, Graces, GraceOf, Locked, LockedOf
  <2>7. CallTypes'
    BY <1>2, NobodyIsNoHub DEF IInv, HubInv, HubTypes, CallTypes
  <2>8. QED
    BY <2>1, <2>2, <2>3, <2>4, <2>5, <2>6, <2>7 DEF IInv, HubInv
<1>3. QED
  BY <1>1, <1>2 DEF Bind, Closing

LEMMA IdentifyKeeps ==
  ASSUME IInv, NEW h \in Hubs, Identify(h)
  PROVE  IInv'
<1>1. CASE /\ sockAt # Nobody /\ StartStep(h, "ident", "record")
          /\ sockID' = [sockID EXCEPT ![h] = sockAt] /\ UNCHANGED <<lockVars, files, looked>>
  <2>1. HubTypes'
    BY <1>1, NobodyIsNoHub DEF IInv, HubInv, HubTypes, CallTypes
  <2>2. Locked'
    BY <1>1, NobodyIsNoHub, OneHolds DEF IInv, HubInv, HubTypes, Locked, LockedOf, HoldPC
  <2>3. Sockets'
    <3> SUFFICES ASSUME NEW g \in Hubs PROVE SocketOf(g)'
      BY DEF Sockets
    <3>1. HubTypes /\ SocketOf(g) /\ LockedOf(g)
      BY DEF IInv, HubInv, Sockets, Locked
    <3>2. SocketOf(h) /\ LockedOf(h)
      BY DEF IInv, HubInv, Sockets, Locked
    <3>3. CASE g = h
      BY <3>1, <3>3, <1>1, NobodyIsNoHub DEF HubTypes, SocketOf, HoldPC, OpenPC,
         UnboundPC, LockedOf
    <3>4. CASE g # h
      BY <3>1, <3>2, <3>4, <1>1, NobodyIsNoHub DEF HubTypes, SocketOf, HoldPC, OpenPC,
         UnboundPC, LockedOf
    <3>5. QED
      BY <3>3, <3>4
  <2>4. Records'
    BY <1>1, NobodyIsNoHub, OneHolds DEF IInv, HubInv, HubTypes, Records, RecordOf, HoldPC,
       UnwrittenPC, Locked, LockedOf
  <2>5. Leavings'
    <3> SUFFICES ASSUME NEW g \in Hubs PROVE LeavingOf(g)'
      BY DEF Leavings
    <3>1. HubTypes /\ LeavingOf(g) /\ RecordOf(g) /\ SocketOf(g) /\ LockedOf(g)
      BY DEF IInv, HubInv, Leavings, Records, Sockets, Locked
    <3>2. LeavingOf(h) /\ RecordOf(h) /\ SocketOf(h) /\ LockedOf(h)
      BY DEF IInv, HubInv, Leavings, Records, Sockets, Locked
    <3>3. CASE g = h
      BY <3>1, <3>3, <1>1, NobodyIsNoHub DEF HubTypes, LeavingOf, UnboundPC,
         UnwrittenPC, SocketOf, RecordOf, LockedOf, HoldPC
    <3>4. CASE g # h
      BY <3>1, <3>2, <3>4, <1>1, NobodyIsNoHub DEF HubTypes, LeavingOf, UnboundPC,
         UnwrittenPC, SocketOf, RecordOf, LockedOf, HoldPC
    <3>5. QED
      BY <3>3, <3>4
  <2>6. Graces'
    BY <1>1, NobodyIsNoHub, OneHolds DEF IInv, HubInv, HubTypes, Graces, GraceOf, Locked, LockedOf
  <2>7. CallTypes'
    BY <1>1, NobodyIsNoHub DEF IInv, HubInv, HubTypes, CallTypes
  <2>8. QED
    BY <2>1, <2>2, <2>3, <2>4, <2>5, <2>6, <2>7 DEF IInv, HubInv
<1>2. CASE sockAt = Nobody /\ StartStep(h, "ident", "undo")
            /\ UNCHANGED <<lockVars, files, starting>>
  <2>1. HubTypes'
    BY <1>2, NobodyIsNoHub DEF IInv, HubInv, HubTypes, CallTypes
  <2>2. Locked'
    BY <1>2, NobodyIsNoHub, OneHolds DEF IInv, HubInv, HubTypes, Locked, LockedOf, HoldPC
  <2>3. Sockets'
    <3> SUFFICES ASSUME NEW g \in Hubs PROVE SocketOf(g)'
      BY DEF Sockets
    <3>1. HubTypes /\ SocketOf(g) /\ LockedOf(g)
      BY DEF IInv, HubInv, Sockets, Locked
    <3>2. SocketOf(h) /\ LockedOf(h)
      BY DEF IInv, HubInv, Sockets, Locked
    <3>3. CASE g = h
      BY <3>1, <3>3, <1>2, NobodyIsNoHub DEF HubTypes, SocketOf, HoldPC, OpenPC,
         UnboundPC, LockedOf
    <3>4. CASE g # h
      BY <3>1, <3>2, <3>4, <1>2, NobodyIsNoHub DEF HubTypes, SocketOf, HoldPC, OpenPC,
         UnboundPC, LockedOf
    <3>5. QED
      BY <3>3, <3>4
  <2>4. Records'
    BY <1>2, NobodyIsNoHub, OneHolds DEF IInv, HubInv, HubTypes, Records, RecordOf, HoldPC,
       UnwrittenPC, Locked, LockedOf
  <2>5. Leavings'
    <3> SUFFICES ASSUME NEW g \in Hubs PROVE LeavingOf(g)'
      BY DEF Leavings
    <3>1. HubTypes /\ LeavingOf(g) /\ RecordOf(g) /\ SocketOf(g) /\ LockedOf(g)
      BY DEF IInv, HubInv, Leavings, Records, Sockets, Locked
    <3>2. LeavingOf(h) /\ RecordOf(h) /\ SocketOf(h) /\ LockedOf(h)
      BY DEF IInv, HubInv, Leavings, Records, Sockets, Locked
    <3>3. CASE g = h
      BY <3>1, <3>3, <1>2, NobodyIsNoHub DEF HubTypes, LeavingOf, UnboundPC,
         UnwrittenPC, SocketOf, RecordOf, LockedOf, HoldPC
    <3>4. CASE g # h
      BY <3>1, <3>2, <3>4, <1>2, NobodyIsNoHub DEF HubTypes, LeavingOf, UnboundPC,
         UnwrittenPC, SocketOf, RecordOf, LockedOf, HoldPC
    <3>5. QED
      BY <3>3, <3>4
  <2>6. Graces'
    BY <1>2, NobodyIsNoHub, OneHolds DEF IInv, HubInv, HubTypes, Graces, GraceOf, Locked, LockedOf
  <2>7. CallTypes'
    BY <1>2, NobodyIsNoHub DEF IInv, HubInv, HubTypes, CallTypes
  <2>8. QED
    BY <2>1, <2>2, <2>3, <2>4, <2>5, <2>6, <2>7 DEF IInv, HubInv
<1>3. QED
  BY <1>1, <1>2 DEF Identify, Closing

LEMMA WriteRecordKeeps ==
  ASSUME IInv, NEW h \in Hubs, WriteRecord(h)
  PROVE  IInv'
<1>1. CASE /\ StartStep(h, "record", "ready") /\ recAt' = h
          /\ UNCHANGED <<lockVars, sockAt, listening, starting>>
  <2>1. HubTypes'
    BY <1>1, NobodyIsNoHub DEF IInv, HubInv, HubTypes, CallTypes
  <2>2. Locked'
    BY <1>1, NobodyIsNoHub, OneHolds DEF IInv, HubInv, HubTypes, Locked, LockedOf, HoldPC
  <2>3. Sockets'
    <3> SUFFICES ASSUME NEW g \in Hubs PROVE SocketOf(g)'
      BY DEF Sockets
    <3>1. HubTypes /\ SocketOf(g) /\ LockedOf(g)
      BY DEF IInv, HubInv, Sockets, Locked
    <3>2. SocketOf(h) /\ LockedOf(h)
      BY DEF IInv, HubInv, Sockets, Locked
    <3>3. CASE g = h
      BY <3>1, <3>3, <1>1, NobodyIsNoHub DEF HubTypes, SocketOf, HoldPC, OpenPC,
         UnboundPC, LockedOf
    <3>4. CASE g # h
      BY <3>1, <3>2, <3>4, <1>1, NobodyIsNoHub DEF HubTypes, SocketOf, HoldPC, OpenPC,
         UnboundPC, LockedOf
    <3>5. QED
      BY <3>3, <3>4
  <2>4. Records'
    BY <1>1, NobodyIsNoHub, OneHolds DEF IInv, HubInv, HubTypes, Records, RecordOf, HoldPC,
       UnwrittenPC, Locked, LockedOf
  <2>5. Leavings'
    <3> SUFFICES ASSUME NEW g \in Hubs PROVE LeavingOf(g)'
      BY DEF Leavings
    <3>1. HubTypes /\ LeavingOf(g) /\ RecordOf(g) /\ SocketOf(g) /\ LockedOf(g)
      BY DEF IInv, HubInv, Leavings, Records, Sockets, Locked
    <3>2. LeavingOf(h) /\ RecordOf(h) /\ SocketOf(h) /\ LockedOf(h)
      BY DEF IInv, HubInv, Leavings, Records, Sockets, Locked
    <3>3. CASE g = h
      BY <3>1, <3>3, <1>1, NobodyIsNoHub DEF HubTypes, LeavingOf, UnboundPC,
         UnwrittenPC, SocketOf, RecordOf, LockedOf, HoldPC
    <3>4. CASE g # h
      BY <3>1, <3>2, <3>4, <1>1, NobodyIsNoHub DEF HubTypes, LeavingOf, UnboundPC,
         UnwrittenPC, SocketOf, RecordOf, LockedOf, HoldPC
    <3>5. QED
      BY <3>3, <3>4
  <2>6. Graces'
    BY <1>1, NobodyIsNoHub, OneHolds DEF IInv, HubInv, HubTypes, Graces, GraceOf, Locked, LockedOf
  <2>7. CallTypes'
    BY <1>1, NobodyIsNoHub DEF IInv, HubInv, HubTypes, CallTypes
  <2>8. QED
    BY <2>1, <2>2, <2>3, <2>4, <2>5, <2>6, <2>7 DEF IInv, HubInv
<1>2. CASE StartStep(h, "record", "undo") /\ UNCHANGED <<lockVars, files, starting>>
  <2>1. HubTypes'
    BY <1>2, NobodyIsNoHub DEF IInv, HubInv, HubTypes, CallTypes
  <2>2. Locked'
    BY <1>2, NobodyIsNoHub, OneHolds DEF IInv, HubInv, HubTypes, Locked, LockedOf, HoldPC
  <2>3. Sockets'
    <3> SUFFICES ASSUME NEW g \in Hubs PROVE SocketOf(g)'
      BY DEF Sockets
    <3>1. HubTypes /\ SocketOf(g) /\ LockedOf(g)
      BY DEF IInv, HubInv, Sockets, Locked
    <3>2. SocketOf(h) /\ LockedOf(h)
      BY DEF IInv, HubInv, Sockets, Locked
    <3>3. CASE g = h
      BY <3>1, <3>3, <1>2, NobodyIsNoHub DEF HubTypes, SocketOf, HoldPC, OpenPC,
         UnboundPC, LockedOf
    <3>4. CASE g # h
      BY <3>1, <3>2, <3>4, <1>2, NobodyIsNoHub DEF HubTypes, SocketOf, HoldPC, OpenPC,
         UnboundPC, LockedOf
    <3>5. QED
      BY <3>3, <3>4
  <2>4. Records'
    BY <1>2, NobodyIsNoHub, OneHolds DEF IInv, HubInv, HubTypes, Records, RecordOf, HoldPC,
       UnwrittenPC, Locked, LockedOf
  <2>5. Leavings'
    <3> SUFFICES ASSUME NEW g \in Hubs PROVE LeavingOf(g)'
      BY DEF Leavings
    <3>1. HubTypes /\ LeavingOf(g) /\ RecordOf(g) /\ SocketOf(g) /\ LockedOf(g)
      BY DEF IInv, HubInv, Leavings, Records, Sockets, Locked
    <3>2. LeavingOf(h) /\ RecordOf(h) /\ SocketOf(h) /\ LockedOf(h)
      BY DEF IInv, HubInv, Leavings, Records, Sockets, Locked
    <3>3. CASE g = h
      BY <3>1, <3>3, <1>2, NobodyIsNoHub DEF HubTypes, LeavingOf, UnboundPC,
         UnwrittenPC, SocketOf, RecordOf, LockedOf, HoldPC
    <3>4. CASE g # h
      BY <3>1, <3>2, <3>4, <1>2, NobodyIsNoHub DEF HubTypes, LeavingOf, UnboundPC,
         UnwrittenPC, SocketOf, RecordOf, LockedOf, HoldPC
    <3>5. QED
      BY <3>3, <3>4
  <2>6. Graces'
    BY <1>2, NobodyIsNoHub, OneHolds DEF IInv, HubInv, HubTypes, Graces, GraceOf, Locked, LockedOf
  <2>7. CallTypes'
    BY <1>2, NobodyIsNoHub DEF IInv, HubInv, HubTypes, CallTypes
  <2>8. QED
    BY <2>1, <2>2, <2>3, <2>4, <2>5, <2>6, <2>7 DEF IInv, HubInv
<1>3. QED
  BY <1>1, <1>2 DEF WriteRecord, Closing

LEMMA ServeKeeps ==
  ASSUME IInv, NEW h \in Hubs, Serve(h)
  PROVE  IInv'
<1>1. HubTypes'
  BY NobodyIsNoHub DEF IInv, HubInv, HubTypes, CallTypes, Serve
<1>2. Locked'
  BY NobodyIsNoHub, OneHolds DEF IInv, HubInv, HubTypes, Locked, LockedOf, HoldPC, Serve
<1>3. Sockets'
  <2> SUFFICES ASSUME NEW g \in Hubs PROVE SocketOf(g)'
    BY DEF Sockets
  <2>1. HubTypes /\ SocketOf(g) /\ LockedOf(g)
    BY DEF IInv, HubInv, Sockets, Locked
  <2>2. SocketOf(h) /\ LockedOf(h)
    BY DEF IInv, HubInv, Sockets, Locked
  <2>3. CASE g = h
    BY <2>1, <2>3, NobodyIsNoHub DEF HubTypes, SocketOf, HoldPC, OpenPC, UnboundPC, Serve,
       LockedOf
  <2>4. CASE g # h
    BY <2>1, <2>2, <2>4, NobodyIsNoHub DEF HubTypes, SocketOf, HoldPC, OpenPC, UnboundPC,
       Serve, LockedOf
  <2>5. QED
    BY <2>3, <2>4
<1>4. Records'
  BY NobodyIsNoHub, OneHolds DEF IInv, HubInv, HubTypes, Records, RecordOf, HoldPC, UnwrittenPC,
     Serve, Locked, LockedOf
<1>5. Leavings'
  <2> SUFFICES ASSUME NEW g \in Hubs PROVE LeavingOf(g)'
    BY DEF Leavings
  <2>1. HubTypes /\ LeavingOf(g) /\ RecordOf(g) /\ SocketOf(g) /\ LockedOf(g)
    BY DEF IInv, HubInv, Leavings, Records, Sockets, Locked
  <2>2. LeavingOf(h) /\ RecordOf(h) /\ SocketOf(h) /\ LockedOf(h)
    BY DEF IInv, HubInv, Leavings, Records, Sockets, Locked
  <2>3. CASE g = h
    BY <2>1, <2>3, NobodyIsNoHub DEF HubTypes, LeavingOf, UnboundPC, UnwrittenPC,
       SocketOf, RecordOf, LockedOf, HoldPC, Serve
  <2>4. CASE g # h
    BY <2>1, <2>2, <2>4, NobodyIsNoHub DEF HubTypes, LeavingOf, UnboundPC, UnwrittenPC,
       SocketOf, RecordOf, LockedOf, HoldPC, Serve
  <2>5. QED
    BY <2>3, <2>4
<1>6. Graces'
  BY NobodyIsNoHub, OneHolds DEF IInv, HubInv, HubTypes, Graces, GraceOf, Serve, Locked, LockedOf
<1>7. CallTypes'
  BY NobodyIsNoHub DEF IInv, HubInv, HubTypes, CallTypes, Serve
<1>8. QED
  BY <1>1, <1>2, <1>3, <1>4, <1>5, <1>6, <1>7 DEF IInv, HubInv

LEMMA CloseListenerKeeps ==
  ASSUME IInv, NEW h \in Hubs, CloseListener(h)
  PROVE  IInv'
<1>1. CASE /\ StartStep(h, "idled", "ours") /\ listening' = listening \ {h}
          /\ UNCHANGED <<lockVars, sockAt, recAt, starting>>
  <2>1. HubTypes'
    BY <1>1, NobodyIsNoHub DEF IInv, HubInv, HubTypes, CallTypes
  <2>2. Locked'
    BY <1>1, NobodyIsNoHub, OneHolds DEF IInv, HubInv, HubTypes, Locked, LockedOf, HoldPC
  <2>3. Sockets'
    <3> SUFFICES ASSUME NEW g \in Hubs PROVE SocketOf(g)'
      BY DEF Sockets
    <3>1. HubTypes /\ SocketOf(g) /\ LockedOf(g)
      BY DEF IInv, HubInv, Sockets, Locked
    <3>2. SocketOf(h) /\ LockedOf(h)
      BY DEF IInv, HubInv, Sockets, Locked
    <3>3. CASE g = h
      BY <3>1, <3>3, <1>1, NobodyIsNoHub DEF HubTypes, SocketOf, HoldPC, OpenPC,
         UnboundPC, LockedOf
    <3>4. CASE g # h
      BY <3>1, <3>2, <3>4, <1>1, NobodyIsNoHub DEF HubTypes, SocketOf, HoldPC, OpenPC,
         UnboundPC, LockedOf
    <3>5. QED
      BY <3>3, <3>4
  <2>4. Records'
    BY <1>1, NobodyIsNoHub, OneHolds DEF IInv, HubInv, HubTypes, Records, RecordOf, HoldPC,
       UnwrittenPC, Locked, LockedOf
  <2>5. Leavings'
    <3> SUFFICES ASSUME NEW g \in Hubs PROVE LeavingOf(g)'
      BY DEF Leavings
    <3>1. HubTypes /\ LeavingOf(g) /\ RecordOf(g) /\ SocketOf(g) /\ LockedOf(g)
      BY DEF IInv, HubInv, Leavings, Records, Sockets, Locked
    <3>2. LeavingOf(h) /\ RecordOf(h) /\ SocketOf(h) /\ LockedOf(h)
      BY DEF IInv, HubInv, Leavings, Records, Sockets, Locked
    <3>3. CASE g = h
      BY <3>1, <3>3, <1>1, NobodyIsNoHub DEF HubTypes, LeavingOf, UnboundPC,
         UnwrittenPC, SocketOf, RecordOf, LockedOf, HoldPC
    <3>4. CASE g # h
      BY <3>1, <3>2, <3>4, <1>1, NobodyIsNoHub DEF HubTypes, LeavingOf, UnboundPC,
         UnwrittenPC, SocketOf, RecordOf, LockedOf, HoldPC
    <3>5. QED
      BY <3>3, <3>4
  <2>6. Graces'
    BY <1>1, NobodyIsNoHub, OneHolds DEF IInv, HubInv, HubTypes, Graces, GraceOf, Locked, LockedOf
  <2>7. CallTypes'
    BY <1>1, NobodyIsNoHub DEF IInv, HubInv, HubTypes, CallTypes
  <2>8. QED
    BY <2>1, <2>2, <2>3, <2>4, <2>5, <2>6, <2>7 DEF IInv, HubInv
<1>2. CASE /\ StartStep(h, "stopping", "ours") /\ listening' = listening \ {h}
          /\ UNCHANGED <<lockVars, sockAt, recAt, starting>>
  <2>1. HubTypes'
    BY <1>2, NobodyIsNoHub DEF IInv, HubInv, HubTypes, CallTypes
  <2>2. Locked'
    BY <1>2, NobodyIsNoHub, OneHolds DEF IInv, HubInv, HubTypes, Locked, LockedOf, HoldPC
  <2>3. Sockets'
    <3> SUFFICES ASSUME NEW g \in Hubs PROVE SocketOf(g)'
      BY DEF Sockets
    <3>1. HubTypes /\ SocketOf(g) /\ LockedOf(g)
      BY DEF IInv, HubInv, Sockets, Locked
    <3>2. SocketOf(h) /\ LockedOf(h)
      BY DEF IInv, HubInv, Sockets, Locked
    <3>3. CASE g = h
      BY <3>1, <3>3, <1>2, NobodyIsNoHub DEF HubTypes, SocketOf, HoldPC, OpenPC,
         UnboundPC, LockedOf
    <3>4. CASE g # h
      BY <3>1, <3>2, <3>4, <1>2, NobodyIsNoHub DEF HubTypes, SocketOf, HoldPC, OpenPC,
         UnboundPC, LockedOf
    <3>5. QED
      BY <3>3, <3>4
  <2>4. Records'
    BY <1>2, NobodyIsNoHub, OneHolds DEF IInv, HubInv, HubTypes, Records, RecordOf, HoldPC,
       UnwrittenPC, Locked, LockedOf
  <2>5. Leavings'
    <3> SUFFICES ASSUME NEW g \in Hubs PROVE LeavingOf(g)'
      BY DEF Leavings
    <3>1. HubTypes /\ LeavingOf(g) /\ RecordOf(g) /\ SocketOf(g) /\ LockedOf(g)
      BY DEF IInv, HubInv, Leavings, Records, Sockets, Locked
    <3>2. LeavingOf(h) /\ RecordOf(h) /\ SocketOf(h) /\ LockedOf(h)
      BY DEF IInv, HubInv, Leavings, Records, Sockets, Locked
    <3>3. CASE g = h
      BY <3>1, <3>3, <1>2, NobodyIsNoHub DEF HubTypes, LeavingOf, UnboundPC,
         UnwrittenPC, SocketOf, RecordOf, LockedOf, HoldPC
    <3>4. CASE g # h
      BY <3>1, <3>2, <3>4, <1>2, NobodyIsNoHub DEF HubTypes, LeavingOf, UnboundPC,
         UnwrittenPC, SocketOf, RecordOf, LockedOf, HoldPC
    <3>5. QED
      BY <3>3, <3>4
  <2>6. Graces'
    BY <1>2, NobodyIsNoHub, OneHolds DEF IInv, HubInv, HubTypes, Graces, GraceOf, Locked, LockedOf
  <2>7. CallTypes'
    BY <1>2, NobodyIsNoHub DEF IInv, HubInv, HubTypes, CallTypes
  <2>8. QED
    BY <2>1, <2>2, <2>3, <2>4, <2>5, <2>6, <2>7 DEF IInv, HubInv
<1>3. CASE /\ StartStep(h, "undo", "ours") /\ listening' = listening \ {h}
          /\ UNCHANGED <<lockVars, sockAt, recAt, starting>>
  <2>1. HubTypes'
    BY <1>3, NobodyIsNoHub DEF IInv, HubInv, HubTypes, CallTypes
  <2>2. Locked'
    BY <1>3, NobodyIsNoHub, OneHolds DEF IInv, HubInv, HubTypes, Locked, LockedOf, HoldPC
  <2>3. Sockets'
    <3> SUFFICES ASSUME NEW g \in Hubs PROVE SocketOf(g)'
      BY DEF Sockets
    <3>1. HubTypes /\ SocketOf(g) /\ LockedOf(g)
      BY DEF IInv, HubInv, Sockets, Locked
    <3>2. SocketOf(h) /\ LockedOf(h)
      BY DEF IInv, HubInv, Sockets, Locked
    <3>3. CASE g = h
      BY <3>1, <3>3, <1>3, NobodyIsNoHub DEF HubTypes, SocketOf, HoldPC, OpenPC,
         UnboundPC, LockedOf
    <3>4. CASE g # h
      BY <3>1, <3>2, <3>4, <1>3, NobodyIsNoHub DEF HubTypes, SocketOf, HoldPC, OpenPC,
         UnboundPC, LockedOf
    <3>5. QED
      BY <3>3, <3>4
  <2>4. Records'
    BY <1>3, NobodyIsNoHub, OneHolds DEF IInv, HubInv, HubTypes, Records, RecordOf, HoldPC,
       UnwrittenPC, Locked, LockedOf
  <2>5. Leavings'
    <3> SUFFICES ASSUME NEW g \in Hubs PROVE LeavingOf(g)'
      BY DEF Leavings
    <3>1. HubTypes /\ LeavingOf(g) /\ RecordOf(g) /\ SocketOf(g) /\ LockedOf(g)
      BY DEF IInv, HubInv, Leavings, Records, Sockets, Locked
    <3>2. LeavingOf(h) /\ RecordOf(h) /\ SocketOf(h) /\ LockedOf(h)
      BY DEF IInv, HubInv, Leavings, Records, Sockets, Locked
    <3>3. CASE g = h
      BY <3>1, <3>3, <1>3, NobodyIsNoHub DEF HubTypes, LeavingOf, UnboundPC,
         UnwrittenPC, SocketOf, RecordOf, LockedOf, HoldPC
    <3>4. CASE g # h
      BY <3>1, <3>2, <3>4, <1>3, NobodyIsNoHub DEF HubTypes, LeavingOf, UnboundPC,
         UnwrittenPC, SocketOf, RecordOf, LockedOf, HoldPC
    <3>5. QED
      BY <3>3, <3>4
  <2>6. Graces'
    BY <1>3, NobodyIsNoHub, OneHolds DEF IInv, HubInv, HubTypes, Graces, GraceOf, Locked, LockedOf
  <2>7. CallTypes'
    BY <1>3, NobodyIsNoHub DEF IInv, HubInv, HubTypes, CallTypes
  <2>8. QED
    BY <2>1, <2>2, <2>3, <2>4, <2>5, <2>6, <2>7 DEF IInv, HubInv
<1>4. QED
  BY <1>1, <1>2, <1>3 DEF CloseListener, Closing

LEMMA SocketOursKeeps ==
  ASSUME IInv, NEW h \in Hubs, SocketOurs(h)
  PROVE  IInv'
<1>1. CASE sockAt # Nobody /\ sockAt = sockID[h] /\ StartStep(h, "ours", "unlink")
            /\ UNCHANGED <<lockVars, files, starting>>
  <2>1. HubTypes'
    BY <1>1, NobodyIsNoHub DEF IInv, HubInv, HubTypes, CallTypes
  <2>2. Locked'
    BY <1>1, NobodyIsNoHub, OneHolds DEF IInv, HubInv, HubTypes, Locked, LockedOf, HoldPC
  <2>3. Sockets'
    <3> SUFFICES ASSUME NEW g \in Hubs PROVE SocketOf(g)'
      BY DEF Sockets
    <3>1. SocketOf(g) /\ pc \in [Hubs -> HubPC]
      BY DEF IInv, HubInv, HubTypes, Sockets
    <3>2. pc[h] = "ours" /\ pc' = [pc EXCEPT ![h] = "unlink"]
          /\ UNCHANGED <<listening, sockAt, strayed, sockID>>
      BY <1>1
    <3>3. CASE g = h
      <4>1. pc'[g] = "unlink" /\ pc[g] = "ours"
        BY <3>1, <3>2, <3>3
      <4>2. QED
        BY <4>1 DEF SocketOf, OpenPC, UnboundPC
    <3>4. CASE g # h
      <4>1. pc'[g] = pc[g]
        BY <3>1, <3>2, <3>4
      <4>2. QED
        BY <3>1, <3>2, <4>1 DEF SocketOf
    <3>5. QED
      BY <3>3, <3>4
  <2>4. Records'
    BY <1>1, NobodyIsNoHub, OneHolds DEF IInv, HubInv, HubTypes, Records, RecordOf, HoldPC,
       UnwrittenPC, Locked, LockedOf
  <2>5. Leavings'
    <3> SUFFICES ASSUME NEW g \in Hubs PROVE LeavingOf(g)'
      BY DEF Leavings
    <3>1. HubTypes /\ LeavingOf(g) /\ RecordOf(g) /\ SocketOf(g) /\ LockedOf(g)
      BY DEF IInv, HubInv, Leavings, Records, Sockets, Locked
    <3>2. LeavingOf(h) /\ RecordOf(h) /\ SocketOf(h) /\ LockedOf(h)
      BY DEF IInv, HubInv, Leavings, Records, Sockets, Locked
    <3>3. CASE g = h
      BY <3>1, <3>3, <1>1, NobodyIsNoHub DEF HubTypes, LeavingOf, UnboundPC,
         UnwrittenPC, SocketOf, RecordOf, LockedOf, HoldPC
    <3>4. CASE g # h
      BY <3>1, <3>2, <3>4, <1>1, NobodyIsNoHub DEF HubTypes, LeavingOf, UnboundPC,
         UnwrittenPC, SocketOf, RecordOf, LockedOf, HoldPC
    <3>5. QED
      BY <3>3, <3>4
  <2>6. Graces'
    BY <1>1, NobodyIsNoHub, OneHolds DEF IInv, HubInv, HubTypes, Graces, GraceOf, Locked, LockedOf
  <2>7. CallTypes'
    BY <1>1, NobodyIsNoHub DEF IInv, HubInv, HubTypes, CallTypes
  <2>8. QED
    BY <2>1, <2>2, <2>3, <2>4, <2>5, <2>6, <2>7 DEF IInv, HubInv
<1>2. CASE ~(sockAt # Nobody /\ sockAt = sockID[h]) /\ StartStep(h, "ours", "record ours")
            /\ UNCHANGED <<lockVars, files, starting>>
  <2>1. HubTypes'
    BY <1>2, NobodyIsNoHub DEF IInv, HubInv, HubTypes, CallTypes
  <2>2. Locked'
    BY <1>2, NobodyIsNoHub, OneHolds DEF IInv, HubInv, HubTypes, Locked, LockedOf, HoldPC
  <2>3. Sockets'
    <3> SUFFICES ASSUME NEW g \in Hubs PROVE SocketOf(g)'
      BY DEF Sockets
    <3>1. CASE g = h
      BY <1>2, <3>1, NobodyIsNoHub DEF IInv, HubInv, HubTypes, Sockets, SocketOf, HoldPC, OpenPC,
         UnboundPC
    <3>2. CASE g # h
      BY <1>2, <3>2, NobodyIsNoHub DEF IInv, HubInv, HubTypes, Sockets, SocketOf, HoldPC, OpenPC,
         UnboundPC
    <3>3. QED
      BY <3>1, <3>2
  <2>4. Records'
    BY <1>2, NobodyIsNoHub, OneHolds DEF IInv, HubInv, HubTypes, Records, RecordOf, HoldPC,
       UnwrittenPC, Locked, LockedOf
  <2>5. Leavings'
    <3> SUFFICES ASSUME NEW g \in Hubs PROVE LeavingOf(g)'
      BY DEF Leavings
    <3>1. HubTypes /\ LeavingOf(g) /\ RecordOf(g) /\ SocketOf(g) /\ LockedOf(g)
      BY DEF IInv, HubInv, Leavings, Records, Sockets, Locked
    <3>2. LeavingOf(h) /\ RecordOf(h) /\ SocketOf(h) /\ LockedOf(h)
      BY DEF IInv, HubInv, Leavings, Records, Sockets, Locked
    <3>3. CASE g = h
      BY <3>1, <3>3, <1>2, NobodyIsNoHub DEF HubTypes, LeavingOf, UnboundPC,
         UnwrittenPC, SocketOf, RecordOf, LockedOf, HoldPC
    <3>4. CASE g # h
      BY <3>1, <3>2, <3>4, <1>2, NobodyIsNoHub DEF HubTypes, LeavingOf, UnboundPC,
         UnwrittenPC, SocketOf, RecordOf, LockedOf, HoldPC
    <3>5. QED
      BY <3>3, <3>4
  <2>6. Graces'
    BY <1>2, NobodyIsNoHub, OneHolds DEF IInv, HubInv, HubTypes, Graces, GraceOf, Locked, LockedOf
  <2>7. CallTypes'
    BY <1>2, NobodyIsNoHub DEF IInv, HubInv, HubTypes, CallTypes
  <2>8. QED
    BY <2>1, <2>2, <2>3, <2>4, <2>5, <2>6, <2>7 DEF IInv, HubInv
<1>3. QED
  BY <1>1, <1>2 DEF SocketOurs, Closing

LEMMA UnlinkSocketKeeps ==
  ASSUME IInv, NEW h \in Hubs, UnlinkSocket(h)
  PROVE  IInv'
<1>1. HubTypes'
  BY NobodyIsNoHub DEF IInv, HubInv, HubTypes, CallTypes, UnlinkSocket
<1>2. Locked'
  BY NobodyIsNoHub, OneHolds DEF IInv, HubInv, HubTypes, Locked, LockedOf, HoldPC, UnlinkSocket
<1>3. Sockets'
  <2> SUFFICES ASSUME NEW g \in Hubs PROVE SocketOf(g)'
    BY DEF Sockets
  <2>1. HubTypes /\ SocketOf(g) /\ LockedOf(g)
    BY DEF IInv, HubInv, Sockets, Locked
  <2>2. SocketOf(h) /\ LockedOf(h)
    BY DEF IInv, HubInv, Sockets, Locked
  <2>3. CASE g = h
    BY <2>1, <2>3, NobodyIsNoHub DEF HubTypes, SocketOf, HoldPC, OpenPC, UnboundPC,
       UnlinkSocket, LockedOf
  <2>4. CASE g # h
    BY <2>1, <2>2, <2>4, NobodyIsNoHub DEF HubTypes, SocketOf, HoldPC, OpenPC, UnboundPC,
       UnlinkSocket, LockedOf
  <2>5. QED
    BY <2>3, <2>4
<1>4. Records'
  BY NobodyIsNoHub, OneHolds DEF IInv, HubInv, HubTypes, Records, RecordOf, HoldPC, UnwrittenPC,
     UnlinkSocket, Locked, LockedOf
<1>5. Leavings'
  <2> SUFFICES ASSUME NEW g \in Hubs PROVE LeavingOf(g)'
    BY DEF Leavings
  <2>1. HubTypes /\ LeavingOf(g) /\ RecordOf(g) /\ SocketOf(g) /\ LockedOf(g)
    BY DEF IInv, HubInv, Leavings, Records, Sockets, Locked
  <2>2. LeavingOf(h) /\ RecordOf(h) /\ SocketOf(h) /\ LockedOf(h)
    BY DEF IInv, HubInv, Leavings, Records, Sockets, Locked
  <2>3. CASE g = h
    BY <2>1, <2>3, NobodyIsNoHub DEF HubTypes, LeavingOf, UnboundPC, UnwrittenPC,
       SocketOf, RecordOf, LockedOf, HoldPC, UnlinkSocket
  <2>4. CASE g # h
    BY <2>1, <2>2, <2>4, NobodyIsNoHub DEF HubTypes, LeavingOf, UnboundPC, UnwrittenPC,
       SocketOf, RecordOf, LockedOf, HoldPC, UnlinkSocket
  <2>5. QED
    BY <2>3, <2>4
<1>6. Graces'
  BY NobodyIsNoHub, OneHolds DEF IInv, HubInv, HubTypes, Graces, GraceOf, UnlinkSocket, Locked,
     LockedOf
<1>7. CallTypes'
  BY NobodyIsNoHub DEF IInv, HubInv, HubTypes, CallTypes, UnlinkSocket
<1>8. QED
  BY <1>1, <1>2, <1>3, <1>4, <1>5, <1>6, <1>7 DEF IInv, HubInv

LEMMA RecordOursKeeps ==
  ASSUME IInv, NEW h \in Hubs, RecordOurs(h)
  PROVE  IInv'
<1>1. HubTypes'
  BY NobodyIsNoHub DEF IInv, HubInv, HubTypes, CallTypes, RecordOurs
<1>2. Locked'
  BY NobodyIsNoHub, OneHolds DEF IInv, HubInv, HubTypes, Locked, LockedOf, HoldPC, RecordOurs
<1>3. Sockets'
  <2> SUFFICES ASSUME NEW g \in Hubs PROVE SocketOf(g)'
    BY DEF Sockets
  <2>1. HubTypes /\ SocketOf(g) /\ LockedOf(g)
    BY DEF IInv, HubInv, Sockets, Locked
  <2>2. SocketOf(h) /\ LockedOf(h)
    BY DEF IInv, HubInv, Sockets, Locked
  <2>3. CASE g = h
    BY <2>1, <2>3, NobodyIsNoHub DEF HubTypes, SocketOf, HoldPC, OpenPC, UnboundPC,
       RecordOurs, LockedOf
  <2>4. CASE g # h
    BY <2>1, <2>2, <2>4, NobodyIsNoHub DEF HubTypes, SocketOf, HoldPC, OpenPC, UnboundPC,
       RecordOurs, LockedOf
  <2>5. QED
    BY <2>3, <2>4
<1>4. Records'
  BY NobodyIsNoHub, OneHolds DEF IInv, HubInv, HubTypes, Records, RecordOf, HoldPC, UnwrittenPC,
     RecordOurs, Locked, LockedOf
<1>5. Leavings'
  <2> SUFFICES ASSUME NEW g \in Hubs PROVE LeavingOf(g)'
    BY DEF Leavings
  <2>1. HubTypes /\ LeavingOf(g) /\ RecordOf(g) /\ SocketOf(g) /\ LockedOf(g)
    BY DEF IInv, HubInv, Leavings, Records, Sockets, Locked
  <2>2. LeavingOf(h) /\ RecordOf(h) /\ SocketOf(h) /\ LockedOf(h)
    BY DEF IInv, HubInv, Leavings, Records, Sockets, Locked
  <2>3. CASE g = h
    BY <2>1, <2>3, NobodyIsNoHub DEF HubTypes, LeavingOf, UnboundPC, UnwrittenPC,
       SocketOf, RecordOf, LockedOf, HoldPC, RecordOurs
  <2>4. CASE g # h
    BY <2>1, <2>2, <2>4, NobodyIsNoHub DEF HubTypes, LeavingOf, UnboundPC, UnwrittenPC,
       SocketOf, RecordOf, LockedOf, HoldPC, RecordOurs
  <2>5. QED
    BY <2>3, <2>4
<1>6. Graces'
  BY NobodyIsNoHub, OneHolds DEF IInv, HubInv, HubTypes, Graces, GraceOf, RecordOurs, Locked,
     LockedOf
<1>7. CallTypes'
  BY NobodyIsNoHub DEF IInv, HubInv, HubTypes, CallTypes, RecordOurs
<1>8. QED
  BY <1>1, <1>2, <1>3, <1>4, <1>5, <1>6, <1>7 DEF IInv, HubInv

LEMMA RemoveRecordKeeps ==
  ASSUME IInv, NEW h \in Hubs, RemoveRecord(h)
  PROVE  IInv'
<1>1. HubTypes'
  BY NobodyIsNoHub DEF IInv, HubInv, HubTypes, CallTypes, RemoveRecord
<1>2. Locked'
  BY NobodyIsNoHub, OneHolds DEF IInv, HubInv, HubTypes, Locked, LockedOf, HoldPC, RemoveRecord
<1>3. Sockets'
  <2> SUFFICES ASSUME NEW g \in Hubs PROVE SocketOf(g)'
    BY DEF Sockets
  <2>1. HubTypes /\ SocketOf(g) /\ LockedOf(g)
    BY DEF IInv, HubInv, Sockets, Locked
  <2>2. SocketOf(h) /\ LockedOf(h)
    BY DEF IInv, HubInv, Sockets, Locked
  <2>3. CASE g = h
    BY <2>1, <2>3, NobodyIsNoHub DEF HubTypes, SocketOf, HoldPC, OpenPC, UnboundPC,
       RemoveRecord, LockedOf
  <2>4. CASE g # h
    BY <2>1, <2>2, <2>4, NobodyIsNoHub DEF HubTypes, SocketOf, HoldPC, OpenPC, UnboundPC,
       RemoveRecord, LockedOf
  <2>5. QED
    BY <2>3, <2>4
<1>4. Records'
  BY NobodyIsNoHub, OneHolds DEF IInv, HubInv, HubTypes, Records, RecordOf, HoldPC, UnwrittenPC,
     RemoveRecord, Locked, LockedOf
<1>5. Leavings'
  <2> SUFFICES ASSUME NEW g \in Hubs PROVE LeavingOf(g)'
    BY DEF Leavings
  <2>1. HubTypes /\ LeavingOf(g) /\ RecordOf(g) /\ SocketOf(g) /\ LockedOf(g)
    BY DEF IInv, HubInv, Leavings, Records, Sockets, Locked
  <2>2. LeavingOf(h) /\ RecordOf(h) /\ SocketOf(h) /\ LockedOf(h)
    BY DEF IInv, HubInv, Leavings, Records, Sockets, Locked
  <2>3. CASE g = h
    BY <2>1, <2>3, NobodyIsNoHub DEF HubTypes, LeavingOf, UnboundPC, UnwrittenPC,
       SocketOf, RecordOf, LockedOf, HoldPC, RemoveRecord
  <2>4. CASE g # h
    BY <2>1, <2>2, <2>4, NobodyIsNoHub DEF HubTypes, LeavingOf, UnboundPC, UnwrittenPC,
       SocketOf, RecordOf, LockedOf, HoldPC, RemoveRecord
  <2>5. QED
    BY <2>3, <2>4
<1>6. Graces'
  BY NobodyIsNoHub, OneHolds DEF IInv, HubInv, HubTypes, Graces, GraceOf, RemoveRecord, Locked,
     LockedOf
<1>7. CallTypes'
  BY NobodyIsNoHub DEF IInv, HubInv, HubTypes, CallTypes, RemoveRecord
<1>8. QED
  BY <1>1, <1>2, <1>3, <1>4, <1>5, <1>6, <1>7 DEF IInv, HubInv

LEMMA ReleaseKeeps ==
  ASSUME IInv, NEW h \in Hubs, Release(h)
  PROVE  IInv'
<1>1. HubTypes'
  BY NobodyIsNoHub DEF IInv, HubInv, HubTypes, CallTypes, Release
<1>2. Locked'
  BY NobodyIsNoHub, OneHolds DEF IInv, HubInv, HubTypes, Locked, LockedOf, HoldPC, Release
<1>3. Sockets'
  <2> SUFFICES ASSUME NEW g \in Hubs PROVE SocketOf(g)'
    BY DEF Sockets
  <2>1. HubTypes /\ SocketOf(g) /\ LockedOf(g)
    BY DEF IInv, HubInv, Sockets, Locked
  <2>2. SocketOf(h) /\ LockedOf(h)
    BY DEF IInv, HubInv, Sockets, Locked
  <2>3. CASE g = h
    BY <2>1, <2>3, NobodyIsNoHub DEF HubTypes, SocketOf, HoldPC, OpenPC, UnboundPC,
       Release, LockedOf
  <2>4. CASE g # h
    BY <2>1, <2>2, <2>4, NobodyIsNoHub DEF HubTypes, SocketOf, HoldPC, OpenPC, UnboundPC,
       Release, LockedOf
  <2>5. QED
    BY <2>3, <2>4
<1>4. Records'
  BY NobodyIsNoHub, OneHolds DEF IInv, HubInv, HubTypes, Records, RecordOf, HoldPC, UnwrittenPC,
     Release, Locked, LockedOf
<1>5. Leavings'
  <2> SUFFICES ASSUME NEW g \in Hubs PROVE LeavingOf(g)'
    BY DEF Leavings
  <2>1. HubTypes /\ LeavingOf(g) /\ RecordOf(g) /\ SocketOf(g) /\ LockedOf(g)
    BY DEF IInv, HubInv, Leavings, Records, Sockets, Locked
  <2>2. LeavingOf(h) /\ RecordOf(h) /\ SocketOf(h) /\ LockedOf(h)
    BY DEF IInv, HubInv, Leavings, Records, Sockets, Locked
  <2>3. CASE g = h
    BY <2>1, <2>3, NobodyIsNoHub DEF HubTypes, LeavingOf, UnboundPC, UnwrittenPC,
       SocketOf, RecordOf, LockedOf, HoldPC, Release
  <2>4. CASE g # h
    BY <2>1, <2>2, <2>4, NobodyIsNoHub DEF HubTypes, LeavingOf, UnboundPC, UnwrittenPC,
       SocketOf, RecordOf, LockedOf, HoldPC, Release
  <2>5. QED
    BY <2>3, <2>4
<1>6. Graces'
  BY NobodyIsNoHub, OneHolds DEF IInv, HubInv, HubTypes, Graces, GraceOf, Release, Locked, LockedOf
<1>7. CallTypes'
  BY NobodyIsNoHub DEF IInv, HubInv, HubTypes, CallTypes, Release
<1>8. QED
  BY <1>1, <1>2, <1>3, <1>4, <1>5, <1>6, <1>7 DEF IInv, HubInv

LEMMA DropLockKeeps ==
  ASSUME IInv, NEW h \in Hubs, DropLock(h)
  PROVE  IInv'
<1>1. HubTypes'
  BY NobodyIsNoHub DEF IInv, HubInv, HubTypes, CallTypes, DropLock
<1>2. Locked'
  BY NobodyIsNoHub, OneHolds DEF IInv, HubInv, HubTypes, Locked, LockedOf, HoldPC, DropLock
<1>3. Sockets'
  <2> SUFFICES ASSUME NEW g \in Hubs PROVE SocketOf(g)'
    BY DEF Sockets
  <2>1. HubTypes /\ SocketOf(g) /\ LockedOf(g)
    BY DEF IInv, HubInv, Sockets, Locked
  <2>2. SocketOf(h) /\ LockedOf(h)
    BY DEF IInv, HubInv, Sockets, Locked
  <2>3. CASE g = h
    BY <2>1, <2>3, NobodyIsNoHub DEF HubTypes, SocketOf, HoldPC, OpenPC, UnboundPC,
       DropLock, LockedOf
  <2>4. CASE g # h
    BY <2>1, <2>2, <2>4, NobodyIsNoHub DEF HubTypes, SocketOf, HoldPC, OpenPC, UnboundPC,
       DropLock, LockedOf
  <2>5. QED
    BY <2>3, <2>4
<1>4. Records'
  BY NobodyIsNoHub, OneHolds DEF IInv, HubInv, HubTypes, Records, RecordOf, HoldPC, UnwrittenPC,
     DropLock, Locked, LockedOf
<1>5. Leavings'
  <2> SUFFICES ASSUME NEW g \in Hubs PROVE LeavingOf(g)'
    BY DEF Leavings
  <2>1. HubTypes /\ LeavingOf(g) /\ RecordOf(g) /\ SocketOf(g) /\ LockedOf(g)
    BY DEF IInv, HubInv, Leavings, Records, Sockets, Locked
  <2>2. LeavingOf(h) /\ RecordOf(h) /\ SocketOf(h) /\ LockedOf(h)
    BY DEF IInv, HubInv, Leavings, Records, Sockets, Locked
  <2>3. CASE g = h
    BY <2>1, <2>3, NobodyIsNoHub DEF HubTypes, LeavingOf, UnboundPC, UnwrittenPC,
       SocketOf, RecordOf, LockedOf, HoldPC, DropLock
  <2>4. CASE g # h
    BY <2>1, <2>2, <2>4, NobodyIsNoHub DEF HubTypes, LeavingOf, UnboundPC, UnwrittenPC,
       SocketOf, RecordOf, LockedOf, HoldPC, DropLock
  <2>5. QED
    BY <2>3, <2>4
<1>6. Graces'
  BY NobodyIsNoHub, OneHolds DEF IInv, HubInv, HubTypes, Graces, GraceOf, DropLock, Locked, LockedOf
<1>7. CallTypes'
  BY NobodyIsNoHub DEF IInv, HubInv, HubTypes, CallTypes, DropLock
<1>8. QED
  BY <1>1, <1>2, <1>3, <1>4, <1>5, <1>6, <1>7 DEF IInv, HubInv

LEMMA DropListenerKeeps ==
  ASSUME IInv, NEW h \in Hubs, DropListener(h)
  PROVE  IInv'
<1>1. HubTypes'
  BY NobodyIsNoHub DEF IInv, HubInv, HubTypes, CallTypes, DropListener
<1>2. Locked'
  BY NobodyIsNoHub, OneHolds DEF IInv, HubInv, HubTypes, Locked, LockedOf, HoldPC, DropListener
<1>3. Sockets'
  <2> SUFFICES ASSUME NEW g \in Hubs PROVE SocketOf(g)'
    BY DEF Sockets
  <2>1. HubTypes /\ SocketOf(g) /\ LockedOf(g)
    BY DEF IInv, HubInv, Sockets, Locked
  <2>2. SocketOf(h) /\ LockedOf(h)
    BY DEF IInv, HubInv, Sockets, Locked
  <2>3. CASE g = h
    BY <2>1, <2>3, NobodyIsNoHub DEF HubTypes, SocketOf, HoldPC, OpenPC, UnboundPC,
       DropListener, LockedOf
  <2>4. CASE g # h
    BY <2>1, <2>2, <2>4, NobodyIsNoHub DEF HubTypes, SocketOf, HoldPC, OpenPC, UnboundPC,
       DropListener, LockedOf
  <2>5. QED
    BY <2>3, <2>4
<1>4. Records'
  BY NobodyIsNoHub, OneHolds DEF IInv, HubInv, HubTypes, Records, RecordOf, HoldPC, UnwrittenPC,
     DropListener, Locked, LockedOf
<1>5. Leavings'
  <2> SUFFICES ASSUME NEW g \in Hubs PROVE LeavingOf(g)'
    BY DEF Leavings
  <2>1. HubTypes /\ LeavingOf(g) /\ RecordOf(g) /\ SocketOf(g) /\ LockedOf(g)
    BY DEF IInv, HubInv, Leavings, Records, Sockets, Locked
  <2>2. LeavingOf(h) /\ RecordOf(h) /\ SocketOf(h) /\ LockedOf(h)
    BY DEF IInv, HubInv, Leavings, Records, Sockets, Locked
  <2>3. CASE g = h
    BY <2>1, <2>3, NobodyIsNoHub DEF HubTypes, LeavingOf, UnboundPC, UnwrittenPC,
       SocketOf, RecordOf, LockedOf, HoldPC, DropListener
  <2>4. CASE g # h
    BY <2>1, <2>2, <2>4, NobodyIsNoHub DEF HubTypes, LeavingOf, UnboundPC, UnwrittenPC,
       SocketOf, RecordOf, LockedOf, HoldPC, DropListener
  <2>5. QED
    BY <2>3, <2>4
<1>6. Graces'
  BY NobodyIsNoHub, OneHolds DEF IInv, HubInv, HubTypes, Graces, GraceOf, DropListener, Locked,
     LockedOf
<1>7. CallTypes'
  BY NobodyIsNoHub DEF IInv, HubInv, HubTypes, CallTypes, DropListener
<1>8. QED
  BY <1>1, <1>2, <1>3, <1>4, <1>5, <1>6, <1>7 DEF IInv, HubInv

LEMMA ReapKeeps ==
  ASSUME IInv, NEW h \in Hubs, Reap(h)
  PROVE  IInv'
<1>1. HubTypes'
  BY NobodyIsNoHub DEF IInv, HubInv, HubTypes, CallTypes, Reap
<1>2. Locked'
  BY NobodyIsNoHub, OneHolds DEF IInv, HubInv, HubTypes, Locked, LockedOf, HoldPC, Reap
<1>3. Sockets'
  <2> SUFFICES ASSUME NEW g \in Hubs PROVE SocketOf(g)'
    BY DEF Sockets
  <2>1. HubTypes /\ SocketOf(g) /\ LockedOf(g)
    BY DEF IInv, HubInv, Sockets, Locked
  <2>2. SocketOf(h) /\ LockedOf(h)
    BY DEF IInv, HubInv, Sockets, Locked
  <2>3. CASE g = h
    BY <2>1, <2>3, NobodyIsNoHub DEF HubTypes, SocketOf, HoldPC, OpenPC, UnboundPC, Reap,
       LockedOf
  <2>4. CASE g # h
    BY <2>1, <2>2, <2>4, NobodyIsNoHub DEF HubTypes, SocketOf, HoldPC, OpenPC, UnboundPC,
       Reap, LockedOf
  <2>5. QED
    BY <2>3, <2>4
<1>4. Records'
  BY NobodyIsNoHub, OneHolds DEF IInv, HubInv, HubTypes, Records, RecordOf, HoldPC, UnwrittenPC,
     Reap, Locked, LockedOf
<1>5. Leavings'
  <2> SUFFICES ASSUME NEW g \in Hubs PROVE LeavingOf(g)'
    BY DEF Leavings
  <2>1. HubTypes /\ LeavingOf(g) /\ RecordOf(g) /\ SocketOf(g) /\ LockedOf(g)
    BY DEF IInv, HubInv, Leavings, Records, Sockets, Locked
  <2>2. LeavingOf(h) /\ RecordOf(h) /\ SocketOf(h) /\ LockedOf(h)
    BY DEF IInv, HubInv, Leavings, Records, Sockets, Locked
  <2>3. CASE g = h
    BY <2>1, <2>3, NobodyIsNoHub DEF HubTypes, LeavingOf, UnboundPC, UnwrittenPC,
       SocketOf, RecordOf, LockedOf, HoldPC, Reap
  <2>4. CASE g # h
    BY <2>1, <2>2, <2>4, NobodyIsNoHub DEF HubTypes, LeavingOf, UnboundPC, UnwrittenPC,
       SocketOf, RecordOf, LockedOf, HoldPC, Reap
  <2>5. QED
    BY <2>3, <2>4
<1>6. Graces'
  BY NobodyIsNoHub, OneHolds DEF IInv, HubInv, HubTypes, Graces, GraceOf, Reap, Locked, LockedOf
<1>7. CallTypes'
  BY NobodyIsNoHub DEF IInv, HubInv, HubTypes, CallTypes, Reap
<1>8. QED
  BY <1>1, <1>2, <1>3, <1>4, <1>5, <1>6, <1>7 DEF IInv, HubInv

-----------------------------------------------------------------------------
(* Losses, kills and the hosts *)

LEMMA LoseSocketKeeps ==
  ASSUME IInv, LoseSocket
  PROVE  IInv'
<1>1. HubTypes'
  BY NobodyIsNoHub DEF IInv, HubInv, HubTypes, LoseSocket
<1>2. CallTypes'
  BY DEF IInv, CallTypes, LoseSocket
<1>3. Locked' /\ Graces'
  BY DEF IInv, HubInv, HubTypes, Locked, LockedOf, HoldPC, Graces, GraceOf, LoseSocket
<1>4. Sockets'
  BY NobodyIsNoHub DEF IInv, HubInv, HubTypes, Sockets, SocketOf, OpenPC, UnboundPC, LoseSocket
<1>5. Records'
  BY NobodyIsNoHub DEF IInv, HubInv, HubTypes, Records, RecordOf, UnwrittenPC, LoseSocket
<1>6. Leavings'
  BY NobodyIsNoHub DEF IInv, HubInv, HubTypes, Leavings, LeavingOf, LoseSocket
<1>7. QED
  BY <1>1, <1>2, <1>3, <1>4, <1>5, <1>6 DEF IInv, HubInv

LEMMA LoseRecordKeeps ==
  ASSUME IInv, LoseRecord
  PROVE  IInv'
<1>1. HubTypes'
  BY NobodyIsNoHub DEF IInv, HubInv, HubTypes, LoseRecord
<1>2. CallTypes'
  BY DEF IInv, CallTypes, LoseRecord
<1>3. Locked' /\ Graces'
  BY DEF IInv, HubInv, HubTypes, Locked, LockedOf, HoldPC, Graces, GraceOf, LoseRecord
<1>4. Sockets'
  BY NobodyIsNoHub DEF IInv, HubInv, HubTypes, Sockets, SocketOf, OpenPC, UnboundPC, LoseRecord
<1>5. Records'
  BY NobodyIsNoHub DEF IInv, HubInv, HubTypes, Records, RecordOf, UnwrittenPC, LoseRecord
<1>6. Leavings'
  BY NobodyIsNoHub DEF IInv, HubInv, HubTypes, Leavings, LeavingOf, LoseRecord
<1>7. QED
  BY <1>1, <1>2, <1>3, <1>4, <1>5, <1>6 DEF IInv, HubInv

\* What a step that only touches the lifecycle of one hub, the hosts and the calls leaves as it was.
Undisturbed == UNCHANGED <<pc, lockVars, files, starting, killed, strayed>>

LEMMA UndisturbedKeeps ==
  ASSUME IInv, Undisturbed
  PROVE  /\ Locked' /\ Sockets' /\ Records' /\ Leavings'
         /\ pc' \in [Hubs -> HubPC] /\ listening' \subseteq Hubs
         /\ lock' \in SomeHub /\ line' \in SomeHub /\ sockAt' \in SomeHub /\ recAt' \in SomeHub
         /\ looked' \in [Hubs -> SomeHub] /\ sockID' \in [Hubs -> SomeHub]
  BY DEF IInv, HubInv, HubTypes, Undisturbed, Locked, Sockets, Records, Leavings,
     LockedOf, SocketOf, RecordOf, LeavingOf, HoldPC, OpenPC, UnboundPC, UnwrittenPC

\* It keeps the invariant when the hub's lifecycle stays one whose grace is quiet.
LEMMA LifeStepKeeps ==
  ASSUME IInv, Undisturbed, NEW h \in Hubs, NEW l \in Lives, LifeIs(h, l),
         sessions' \subseteq Sessions, CallTypes',
         NEW q \in {"quiet", "disturbed"}, quiet' = [quiet EXCEPT ![h] = q],
         l.armed <= l.epoch,
         l.grace = "armed" /\ l.armed = l.epoch => q = "quiet" /\ l.ids = {}
  PROVE  IInv'
<1>1. Locked' /\ Sockets' /\ Records' /\ Leavings'
  BY UndisturbedKeeps
<1>2. HubTypes'
  BY UndisturbedKeeps DEF HubTypes, IInv, HubInv
<1>3. Graces'
  <2> SUFFICES ASSUME NEW g \in Hubs PROVE GraceOf(g)'
    BY DEF Graces
  <2>1. CASE g = h
    <3>1. life'[g] = l /\ quiet'[g] = q
      BY <2>1 DEF IInv, HubInv, HubTypes
    <3>2. QED
      BY <3>1 DEF GraceOf
  <2>2. CASE g # h
    <3>1. life'[g] = life[g] /\ quiet'[g] = quiet[g]
      BY <2>2 DEF IInv, HubInv, HubTypes
    <3>2. GraceOf(g)
      BY DEF IInv, HubInv, Graces
    <3>3. QED
      BY <3>1, <3>2 DEF GraceOf
  <2>3. QED
    BY <2>1, <2>2
<1>4. QED
  BY <1>1, <1>2, <1>3 DEF IInv, HubInv

LEMMA HostsKeep ==
  ASSUME IInv, NEW s \in Sessions, HostStarts(s) \/ HostEnds(s)
  PROVE  IInv'
<1>1. Undisturbed /\ UNCHANGED <<calls, life, quiet>> /\ sessions' \subseteq Sessions
  BY DEF HostStarts, HostEnds, Undisturbed, IInv, HubInv, HubTypes
<1>2. CallTypes' /\ Graces'
  BY <1>1 DEF IInv, HubInv, CallTypes, Graces, GraceOf
<1>3. Locked' /\ Sockets' /\ Records' /\ Leavings'
  BY <1>1, UndisturbedKeeps
<1>4. HubTypes'
  BY <1>1, UndisturbedKeeps DEF HubTypes, IInv, HubInv
<1>5. QED
  BY <1>2, <1>3, <1>4 DEF IInv, HubInv

\* A client or a create admitted goes past any grace there is.
LEMMA AdmitLife ==
  ASSUME NEW l \in Lives, NEW what \in {"clients", "creates"}, l.armed <= l.epoch
  PROVE  /\ Admit(l, what) \in Lives /\ Admit(l, what).armed <= Admit(l, what).epoch
         /\ Admit(l, what).armed # Admit(l, what).epoch
<1> DEFINE k == IF what = "clients" THEN [l EXCEPT !.clients = @ + 1, !.epoch = @ + 1]
                ELSE [l EXCEPT !.creates = @ + 1, !.epoch = @ + 1]
<1>1. Admit(l, what) = k
  BY DEF Admit, Lives
<1>2. l.clients + 1 \in Nat /\ l.creates + 1 \in Nat /\ l.epoch + 1 \in Nat
      /\ l.armed <= l.epoch + 1 /\ l.armed # l.epoch + 1
  BY DEF Lives
<1>3. k \in Lives
  BY <1>2 DEF Lives
<1>4. k.armed = l.armed /\ k.epoch = l.epoch + 1
  BY DEF Lives
<1>5. QED
  BY <1>1, <1>2, <1>3, <1>4

LEMMA AdmissionKeeps ==
  ASSUME IInv, Undisturbed, NEW h \in Hubs, NEW what \in {"clients", "creates"},
         LifeIs(h, Admit(life[h], what)), Disturbs(h), UNCHANGED sessions, CallTypes'
  PROVE  IInv'
<1>1. life[h] \in Lives /\ life[h].armed <= life[h].epoch /\ sessions \subseteq Sessions
  BY DEF IInv, HubInv, HubTypes, Graces, GraceOf
<1>2. QED
  BY <1>1, AdmitLife, LifeStepKeeps DEF Disturbs

-----------------------------------------------------------------------------
(* The lifecycle and the loop *)

\* The parts of a lifecycle its grace does not depend on.
LEMMA SameGrace ==
  ASSUME IInv, Undisturbed, NEW h \in Hubs, NEW l \in Lives, LifeIs(h, l),
         l.armed = life[h].armed, l.epoch = life[h].epoch, l.ids = life[h].ids,
         l.grace = life[h].grace, UNCHANGED quiet, sessions' \subseteq Sessions, CallTypes'
  PROVE  IInv'
<1>1. quiet' = [quiet EXCEPT ![h] = quiet[h]] /\ quiet[h] \in {"quiet", "disturbed"}
  BY DEF IInv, HubInv, HubTypes
<1>2. GraceOf(h)
  BY DEF IInv, HubInv, Graces
<1>3. QED
  BY <1>1, <1>2, LifeStepKeeps DEF GraceOf

LEMMA VisitKeeps ==
  ASSUME IInv, NEW h \in Hubs, Visit(h)
  PROVE  IInv'
<1>1. Undisturbed /\ CallTypes'
  BY DEF Visit, Undisturbed, IInv, CallTypes
<1>2. QED
  BY <1>1, AdmissionKeeps DEF Visit

LEMMA BeginCreateKeeps ==
  ASSUME IInv, NEW h \in Hubs, BeginCreate(h)
  PROVE  IInv'
<1>1. Undisturbed /\ CallTypes'
  BY DEF BeginCreate, Undisturbed, IInv, CallTypes
<1>2. QED
  BY <1>1, AdmissionKeeps DEF BeginCreate

LEMMA DropConnKeeps ==
  ASSUME IInv, NEW h \in Hubs, DropConn(h)
  PROVE  IInv'
<1> DEFINE l == [life[h] EXCEPT !.clients = @ - 1, !.kick = "yes"]
<1>1. Undisturbed /\ CallTypes' /\ sessions' \subseteq Sessions /\ life[h] \in Lives
  BY DEF DropConn, Undisturbed, IInv, HubInv, HubTypes, CallTypes
<1>2. life[h].clients - 1 \in Nat
  BY <1>1 DEF DropConn, Lives
<1>3. l \in Lives
  BY <1>1, <1>2 DEF Lives
<1>4. l.armed = life[h].armed /\ l.epoch = life[h].epoch /\ l.ids = life[h].ids /\ l.grace = life[h].grace
  BY <1>1 DEF Lives
<1>5. LifeIs(h, l) /\ UNCHANGED quiet
  BY DEF DropConn
<1> HIDE DEF l
<1>6. QED
  BY <1>1, <1>3, <1>4, <1>5, SameGrace

LEMMA EndCreateKeeps ==
  ASSUME IInv, NEW h \in Hubs, EndCreate(h)
  PROVE  IInv'
<1> DEFINE l == [life[h] EXCEPT !.creates = @ - 1, !.kick = "yes"]
<1>1. Undisturbed /\ CallTypes' /\ sessions' \subseteq Sessions /\ life[h] \in Lives
  BY DEF EndCreate, Undisturbed, IInv, HubInv, HubTypes, CallTypes
<1>2. life[h].creates - 1 \in Nat
  BY <1>1 DEF EndCreate, Lives
<1>3. l \in Lives
  BY <1>1, <1>2 DEF Lives
<1>4. l.armed = life[h].armed /\ l.epoch = life[h].epoch /\ l.ids = life[h].ids /\ l.grace = life[h].grace
  BY <1>1 DEF Lives
<1>5. LifeIs(h, l) /\ UNCHANGED quiet
  BY DEF EndCreate
<1> HIDE DEF l
<1>6. QED
  BY <1>1, <1>3, <1>4, <1>5, SameGrace

LEMMA PollReadsKeeps ==
  ASSUME IInv, NEW h \in Hubs, PollReads(h)
  PROVE  IInv'
<1>1. PICK r \in RegistryRead : LifeIs(h, [life[h] EXCEPT !.poll = r])
  BY DEF PollReads
<1> DEFINE l == [life[h] EXCEPT !.poll = r]
<1>2. Undisturbed /\ CallTypes' /\ sessions' \subseteq Sessions /\ life[h] \in Lives /\ UNCHANGED quiet
  BY DEF PollReads, Undisturbed, IInv, HubInv, HubTypes, CallTypes
<1>3. r \in Reads
  BY ReadsAreReads DEF IInv, HubInv, HubTypes
<1>4. l \in Lives /\ l.armed = life[h].armed /\ l.epoch = life[h].epoch /\ l.ids = life[h].ids
      /\ l.grace = life[h].grace
  BY <1>2, <1>3 DEF Lives
<1>5. LifeIs(h, l)
  BY <1>1
<1> HIDE DEF l
<1>6. QED
  BY <1>2, <1>4, <1>5, SameGrace

\* A read recorded: a grace that still stands has met no host.
LEMMA SetHostsGrace ==
  ASSUME NEW l \in Lives, NEW r \in Reads, l.armed <= l.epoch,
         l.grace = "armed" /\ l.armed = l.epoch => l.ids = {},
         SetHosts(l, r).grace = "armed", SetHosts(l, r).armed = SetHosts(l, r).epoch
  PROVE  /\ l.grace = "armed" /\ l.armed = l.epoch /\ SetHosts(l, r).ids = {}
         /\ r.is # "failed" => r.of = {}
<1> DEFINE k == SetHosts(l, r)
<1>1. l.armed \in Nat /\ l.epoch \in Nat /\ k.epoch \in Nat
  BY SetHostsLife DEF Lives
<1>2. k.armed = l.armed /\ k.grace = l.grace /\ k.epoch >= l.epoch
  BY SetHostsLife
<1>3. l.armed = l.epoch /\ k.epoch = l.epoch
  BY <1>1, <1>2
<1>4. l.ids = {} /\ l.grace = "armed"
  BY <1>2, <1>3
<1>5. CASE r.is = "failed"
  BY <1>3, <1>4, <1>5, SetHostsLife
<1>6. CASE r.is # "failed"
  <2>1. r.of \subseteq l.ids
    <3>1. ~(r.of \subseteq l.ids) => k.epoch = l.epoch + 1
      BY <1>6, SetHostsLife
    <3>2. QED
      BY <1>1, <1>3, <3>1
  <2>2. QED
    BY <1>3, <1>4, <1>6, <2>1, SetHostsLife
<1>7. QED
  BY <1>5, <1>6

LEMMA PollHostsKeeps ==
  ASSUME IInv, NEW h \in Hubs, PollHosts(h)
  PROVE  IInv'
<1> DEFINE r == life[h].poll
           k == SetHosts(life[h], r)
           l == [k EXCEPT !.poll = NoRead, !.kick = "yes"]
           q == IF r.of = {} THEN quiet[h] ELSE "disturbed"
<1>1. Undisturbed /\ CallTypes' /\ sessions' \subseteq Sessions /\ life[h] \in Lives
  BY DEF PollHosts, Undisturbed, IInv, HubInv, HubTypes, CallTypes
<1>2. r \in Reads /\ NoRead \in Reads
  BY <1>1 DEF Lives, Reads, NoRead, FailedRead
<1>3. k \in Lives /\ k.armed = life[h].armed /\ k.epoch >= life[h].epoch
  BY <1>1, <1>2, SetHostsLife
<1>4. GraceOf(h)
  BY DEF IInv, HubInv, Graces
<1>5. LifeIs(h, l) /\ quiet' = [quiet EXCEPT ![h] = q] /\ q \in {"quiet", "disturbed"}
  BY DEF PollHosts, IInv, HubInv, HubTypes
<1>6. k.grace = "armed" /\ k.armed = k.epoch =>
        life[h].grace = "armed" /\ life[h].armed = life[h].epoch /\ k.ids = {} /\ (r.is # "failed" => r.of = {})
  <2> HIDE DEF r
  <2>1. QED
    BY <1>1, <1>2, <1>4, SetHostsGrace DEF GraceOf
<1>7. r.is = "failed" => r.of = {}
  BY <1>1 DEF Lives, Reads, NoRead, FailedRead
<1> HIDE DEF r
<1>8. k.grace = "armed" /\ k.armed = k.epoch => q = "quiet" /\ k.ids = {}
  BY <1>4, <1>6, <1>7 DEF GraceOf
<1>9. k.armed <= k.epoch
  <2>1. life[h].armed \in Nat /\ life[h].epoch \in Nat /\ k.armed \in Nat /\ k.epoch \in Nat
    BY <1>1, <1>3 DEF Lives
  <2>2. QED
    BY <1>3, <1>4, <2>1 DEF GraceOf
<1> HIDE DEF k
<1>10. l \in Lives /\ l.armed = k.armed /\ l.epoch = k.epoch /\ l.ids = k.ids /\ l.grace = k.grace
  BY <1>2, <1>3 DEF Lives
<1> HIDE DEF l, q
<1>11. QED
  BY <1>1, <1>5, <1>8, <1>9, <1>10, LifeStepKeeps

\* A grace armed or left, of a lifecycle whose own grace was quiet.
LEMMA ArmKeeps ==
  ASSUME IInv, Undisturbed, NEW h \in Hubs, NEW l \in Lives, l.armed <= l.epoch,
         LifeIs(h, Arm(l)), sessions' \subseteq Sessions, CallTypes',
         NEW q \in {"quiet", "disturbed"}, quiet' = [quiet EXCEPT ![h] = q],
         Arms(l) => q = "quiet",
         l.grace = "armed" /\ l.armed = l.epoch => q = "quiet"
  PROVE  IInv'
<1>1. /\ Arm(l) \in Lives /\ Arm(l).armed <= Arm(l).epoch
      /\ Arm(l).epoch = l.epoch /\ Arm(l).ids = l.ids
      /\ Arm(l).grace = "armed" => l.ids = {}
      /\ Arm(l).grace = "armed" /\ ~Arms(l) =>
           l.grace = "armed" /\ l.armed = l.epoch /\ Arm(l).armed = l.armed
  BY ArmLife
<1>2. Arm(l).grace = "armed" => q = "quiet" /\ Arm(l).ids = {}
  BY <1>1
<1> DEFINE k == Arm(l)
<1>3. k \in Lives /\ k.armed <= k.epoch /\ LifeIs(h, k)
  BY <1>1
<1>4. k.grace = "armed" => q = "quiet" /\ k.ids = {}
  BY <1>2
<1> HIDE DEF k
<1>5. QED
  BY <1>3, <1>4, LifeStepKeeps

LEMMA KickedKeeps ==
  ASSUME IInv, NEW h \in Hubs, Kicked(h)
  PROVE  IInv'
<1> DEFINE l == [life[h] EXCEPT !.kick = "no"]
           q == IF Arms(l) THEN "quiet" ELSE quiet[h]
<1>1. Undisturbed /\ CallTypes' /\ sessions' \subseteq Sessions /\ life[h] \in Lives
  BY DEF Kicked, Undisturbed, IInv, HubInv, HubTypes, CallTypes
<1>2. l \in Lives /\ l.armed = life[h].armed /\ l.epoch = life[h].epoch /\ l.grace = life[h].grace
  BY <1>1 DEF Lives
<1>3. GraceOf(h)
  BY DEF IInv, HubInv, Graces
<1>4. LifeIs(h, Arm(l)) /\ quiet' = [quiet EXCEPT ![h] = q] /\ q \in {"quiet", "disturbed"}
  BY DEF Kicked, ArmIs, IInv, HubInv, HubTypes
<1>5. Arms(l) => q = "quiet"
  OBVIOUS
<1>6. l.grace = "armed" /\ l.armed = l.epoch => q = "quiet"
  BY <1>2, <1>3 DEF GraceOf
<1>7. l.armed <= l.epoch
  BY <1>2, <1>3 DEF GraceOf
<1> HIDE DEF l, q
<1>8. QED
  BY <1>1, <1>2, <1>4, <1>5, <1>6, <1>7, ArmKeeps

\* A read recorded, whatever of a grace survives it.
LEMMA ReadRecorded ==
  ASSUME IInv, NEW h \in Hubs, NEW r \in RegistryRead
  PROVE  /\ SetHosts(life[h], r) \in Lives
         /\ SetHosts(life[h], r).armed <= SetHosts(life[h], r).epoch
         /\ SetHosts(life[h], r).grace = "armed"
            /\ SetHosts(life[h], r).armed = SetHosts(life[h], r).epoch =>
              quiet[h] = "quiet" /\ r.of = {}
<1> DEFINE k == SetHosts(life[h], r)
<1>1. life[h] \in Lives /\ r \in Reads /\ (r.is = "failed" => r.of = {})
  BY ReadsAreReads DEF IInv, HubInv, HubTypes
<1>2. k \in Lives /\ k.armed = life[h].armed /\ k.epoch >= life[h].epoch
  BY <1>1, SetHostsLife
<1>3. GraceOf(h)
  BY DEF IInv, HubInv, Graces
<1>4. k.armed <= k.epoch
  <2>1. life[h].armed \in Nat /\ life[h].epoch \in Nat /\ k.armed \in Nat /\ k.epoch \in Nat
    BY <1>1, <1>2 DEF Lives
  <2>2. QED
    BY <1>2, <1>3, <2>1 DEF GraceOf
<1>5. k.grace = "armed" /\ k.armed = k.epoch =>
        life[h].grace = "armed" /\ life[h].armed = life[h].epoch /\ (r.is # "failed" => r.of = {})
  BY <1>1, <1>3, SetHostsGrace DEF GraceOf
<1>6. QED
  BY <1>1, <1>2, <1>3, <1>4, <1>5 DEF GraceOf

LEMMA HostsTickKeeps ==
  ASSUME IInv, NEW h \in Hubs, HostsTick(h)
  PROVE  IInv'
<1>1. PICK r \in RegistryRead :
        /\ LifeIs(h, Arm(SetHosts(life[h], r)))
        /\ quiet' = CASE Arms(SetHosts(life[h], r)) -> [quiet EXCEPT ![h] = "quiet"]
                      [] ~Arms(SetHosts(life[h], r)) /\ r.of # {} -> [quiet EXCEPT ![h] = "disturbed"]
                      [] OTHER -> quiet
  BY DEF HostsTick
<1> DEFINE l == SetHosts(life[h], r)
           q == IF Arms(l) THEN "quiet" ELSE IF r.of # {} THEN "disturbed" ELSE quiet[h]
<1>2. Undisturbed /\ CallTypes' /\ sessions' \subseteq Sessions
  BY DEF HostsTick, Undisturbed, IInv, HubInv, HubTypes, CallTypes
<1>3. quiet[h] \in {"quiet", "disturbed"} /\ quiet = [quiet EXCEPT ![h] = quiet[h]]
  BY DEF IInv, HubInv, HubTypes
<1>4. quiet' = [quiet EXCEPT ![h] = q] /\ q \in {"quiet", "disturbed"}
  <2>1. CASE Arms(l)
    BY <1>1, <2>1
  <2>2. CASE ~Arms(l) /\ r.of # {}
    BY <1>1, <2>2
  <2>3. CASE ~Arms(l) /\ r.of = {}
    BY <1>1, <1>3, <2>3
  <2>4. QED
    BY <2>1, <2>2, <2>3
<1>5. /\ l \in Lives /\ l.armed <= l.epoch
      /\ l.grace = "armed" /\ l.armed = l.epoch => quiet[h] = "quiet" /\ r.of = {}
  BY ReadRecorded
<1>6. (Arms(l) => q = "quiet") /\ (l.grace = "armed" /\ l.armed = l.epoch => q = "quiet")
  BY <1>5
<1>7. LifeIs(h, Arm(l))
  BY <1>1
<1> HIDE DEF l, q
<1>8. QED
  BY <1>2, <1>4, <1>5, <1>6, <1>7, ArmKeeps

\* A hub that closes: its lifecycle admits nothing any more.
LEMMA ClosesKeeps ==
  ASSUME IInv, NEW h \in Hubs, pc[h] = "serve", NEW step \in Closing, Goes(h, step), Closes(h),
         UNCHANGED <<lockVars, files, starting, sessions, calls, killed, strayed>>
  PROVE  IInv'
<1>1. HubTypes'
  BY FreshIsLife DEF IInv, HubInv, HubTypes, Closes
<1>2. CallTypes'
  BY DEF IInv, CallTypes
<1>3. Locked'
  BY OneHolds DEF IInv, HubInv, HubTypes, Locked, LockedOf, HoldPC
<1>4. Sockets'
  BY DEF IInv, HubInv, HubTypes, Sockets, SocketOf, OpenPC, UnboundPC
<1>5. Records'
  BY DEF IInv, HubInv, HubTypes, Records, RecordOf, UnwrittenPC
<1>6. Leavings'
  BY DEF IInv, HubInv, HubTypes, Leavings, LeavingOf
<1>7. Graces'
  <2> SUFFICES ASSUME NEW g \in Hubs PROVE GraceOf(g)'
    BY DEF Graces
  <2>1. CASE g = h
    <3>1. life'[g] = Fresh
      BY <2>1 DEF Closes, IInv, HubInv, HubTypes
    <3>2. 0 <= 0
      OBVIOUS
    <3>3. QED
      BY <3>1, <3>2, FreshIsLife DEF GraceOf
  <2>2. CASE g # h
    <3>1. life'[g] = life[g] /\ quiet'[g] = quiet[g] /\ GraceOf(g)
      BY <2>2 DEF Closes, IInv, HubInv, HubTypes, Graces
    <3>2. QED
      BY <3>1 DEF GraceOf
  <2>3. QED
    BY <2>1, <2>2
<1>8. QED
  BY <1>1, <1>2, <1>3, <1>4, <1>5, <1>6, <1>7 DEF IInv, HubInv

LEMMA DecideIdleKeeps ==
  ASSUME IInv, NEW h \in Hubs, DecideIdle(h)
  PROVE  IInv'
<1>1. PICK r \in RegistryRead :
        LET l == [SetHosts(life[h], r) EXCEPT !.grace = "none"]
        IN \/ Decides(l) /\ Goes(h, "idled") /\ Closes(h)
           \/ ~Decides(l) /\ ArmIs(h, l) /\ UNCHANGED pc
  BY DEF DecideIdle
<1> DEFINE k == SetHosts(life[h], r)
           l == [k EXCEPT !.grace = "none"]
           q == IF Arms(l) THEN "quiet" ELSE quiet[h]
<1>2. CASE Goes(h, "idled") /\ Closes(h)
  <2>1. pc[h] = "serve" /\ UNCHANGED <<lockVars, files, starting, sessions, calls, killed, strayed>>
    BY DEF DecideIdle
  <2>2. QED
    BY <1>2, <2>1, ClosesKeeps
<1>3. CASE ArmIs(h, l) /\ UNCHANGED pc
  <2>1. Undisturbed /\ CallTypes' /\ sessions' \subseteq Sessions
    BY <1>3 DEF DecideIdle, Undisturbed, IInv, HubInv, HubTypes, CallTypes
  <2>2. k \in Lives /\ k.armed <= k.epoch
    BY ReadRecorded
  <2>3. LifeIs(h, Arm(l)) /\ quiet' = [quiet EXCEPT ![h] = q] /\ q \in {"quiet", "disturbed"}
    BY <1>3 DEF ArmIs, IInv, HubInv, HubTypes
  <2>4. Arms(l) => q = "quiet"
    OBVIOUS
  <2> HIDE DEF k
  <2>5. l \in Lives /\ l.armed <= l.epoch /\ l.grace = "none"
    BY <2>2 DEF Lives
  <2> HIDE DEF l, q
  <2>6. QED
    BY <2>1, <2>3, <2>4, <2>5, ArmKeeps
<1>4. QED
  BY <1>1, <1>2, <1>3

LEMMA StopsKeeps ==
  ASSUME IInv, NEW h \in Hubs, Lost(h) \/ TakeSignal(h)
  PROVE  IInv'
<1>1. Stops(h)
  BY DEF Lost, TakeSignal
<1>2. QED
  BY <1>1, ClosesKeeps DEF Stops

-----------------------------------------------------------------------------
(* A kill *)

LEMMA KillKeeps ==
  ASSUME IInv, NEW h \in Hubs, Kill(h), CallTypes'
  PROVE  IInv'
<1>1. HubTypes'
  BY FreshIsLife DEF IInv, HubInv, HubTypes, Kill, Closes
<1>2. Locked'
  BY DEF IInv, HubInv, HubTypes, Locked, LockedOf, HoldPC, Kill
<1>3. Sockets'
  BY DEF IInv, HubInv, HubTypes, Sockets, SocketOf, OpenPC, UnboundPC, Kill
<1>4. Records'
  BY DEF IInv, HubInv, HubTypes, Records, RecordOf, UnwrittenPC, Kill
<1>5. Leavings'
  BY DEF IInv, HubInv, HubTypes, Leavings, LeavingOf, Kill
<1>6. Graces'
  <2> SUFFICES ASSUME NEW g \in Hubs PROVE GraceOf(g)'
    BY DEF Graces
  <2>1. CASE g = h
    <3>1. life'[g] = Fresh
      BY <2>1 DEF Kill, Closes, IInv, HubInv, HubTypes
    <3>2. 0 <= 0
      OBVIOUS
    <3>3. QED
      BY <3>1, <3>2, FreshIsLife DEF GraceOf
  <2>2. CASE g # h
    <3>1. life'[g] = life[g] /\ quiet'[g] = quiet[g] /\ GraceOf(g)
      BY <2>2 DEF Kill, Closes, IInv, HubInv, HubTypes, Graces
    <3>2. QED
      BY <3>1 DEF GraceOf
  <2>3. QED
    BY <2>1, <2>2
<1>7. QED
  BY <1>1, <1>2, <1>3, <1>4, <1>5, <1>6 DEF IInv, HubInv

\* A kill of nobody changes no hub.
LEMMA KillAnyKeeps ==
  ASSUME IInv, NEW h \in SomeHub, Kill(h), CallTypes'
  PROVE  IInv'
<1>1. CASE h \in Hubs
  BY <1>1, KillKeeps
<1>2. CASE h = Nobody
  <2>0. /\ pc \in [Hubs -> HubPC] /\ life \in [Hubs -> Lives]
        /\ quiet \in [Hubs -> {"quiet", "disturbed"}]
    BY DEF IInv, HubInv, HubTypes
  <2>1. pc' = pc /\ life' = life /\ quiet' = quiet
    <3>1. pc' = [pc EXCEPT ![h] = "dying"] /\ life' = [life EXCEPT ![h] = Fresh]
          /\ quiet' = [quiet EXCEPT ![h] = "disturbed"]
      BY DEF Kill, Closes
    <3>2. h \notin Hubs
      BY <1>2, NobodyIsNoHub
    <3>3. QED
      BY <2>0, <3>1, <3>2
  <2>2. HubTypes' /\ Locked' /\ Sockets' /\ Records' /\ Graces'
    BY <2>1 DEF Kill, IInv, HubInv, HubTypes, Locked, LockedOf, Sockets, SocketOf,
       Records, RecordOf, Graces, GraceOf
  <2>3. Leavings'
    BY <2>1 DEF Kill, IInv, HubInv, Leavings, LeavingOf
  <2>4. QED
    BY <2>2, <2>3 DEF IInv, HubInv
<1>3. QED
  BY <1>1, <1>2

-----------------------------------------------------------------------------
(* The calls *)

\* What a call of Ensure that no hub takes part in leaves as it was.
HubsStay == UNCHANGED <<pc, lockVars, files, starting, life, sessions, history>>

LEMMA CallKeeps ==
  ASSUME IInv, HubsStay, CallTypes'
  PROVE  IInv'
<1>1. HubTypes' /\ Locked' /\ Sockets' /\ Records' /\ Leavings'
  BY DEF IInv, HubInv, HubTypes, Locked, LockedOf, Sockets, SocketOf, Records, RecordOf,
     Leavings, LeavingOf, HubsStay
<1>2. Graces'
  BY DEF IInv, HubInv, Graces, GraceOf, HubsStay
<1>3. QED
  BY <1>1, <1>2 DEF IInv, HubInv

\* A hello answered, whatever the call makes of the answer.
LEMMA HelloKeeps ==
  ASSUME IInv, Answers(sockAt), LifeIs(sockAt, Admit(life[sockAt], "clients")), Disturbs(sockAt),
         UNCHANGED <<pc, lockVars, files, starting, sessions, killed, strayed>>, CallTypes'
  PROVE  IInv'
<1>1. sockAt \in Hubs
  BY DEF Answers, IInv, HubInv, HubTypes
<1>2. Undisturbed
  BY DEF Undisturbed
<1>3. QED
  BY <1>1, <1>2, AdmissionKeeps

LEMMA HelloFoundKeeps ==
  ASSUME IInv, NEW c \in Callers, NEW from, HelloFound(c, from)
  PROVE  IInv'
<1>1. CallTypes'
  BY DEF HelloFound, Finds, Forgets, CallGoes, IInv, CallTypes
<1>2. QED
  BY <1>1, HelloKeeps DEF HelloFound

LEMMA HelloOtherKeeps ==
  ASSUME IInv, NEW c \in Callers, NEW from, NEW to \in CallPC, HelloOther(c, from, to)
  PROVE  IInv'
<1>1. CallTypes'
  BY DEF HelloOther, CallGoes, IInv, CallTypes
<1>2. QED
  BY <1>1, HelloKeeps DEF HelloOther

LEMMA FailureKeeps ==
  ASSUME IInv, NEW c \in Callers, NEW from, Failure(c, from)
  PROVE  IInv'
<1>1. CallTypes'
  BY DEF Failure, CallStep, Forgets, CallGoes, IInv, CallTypes
<1>2. QED
  BY <1>1, CallKeeps DEF Failure, CallStep, HubsStay

LEMMA RoundAgainKeeps ==
  ASSUME IInv, NEW c \in Callers, NEW from, RoundAgain(c, from)
  PROVE  IInv'
<1>1. CallTypes'
  BY DEF RoundAgain, CallStep, Forgets, CallGoes, IInv, CallTypes
<1>2. QED
  BY <1>1, CallKeeps DEF RoundAgain, CallStep, HubsStay

LEMMA CallIsKept ==
  ASSUME IInv, NEW c \in Callers, Call(c)
  PROVE  IInv'
<1>1. CallTypes'
  BY DEF Call, CallStep, CallGoes, Forgets, IInv, HubInv, HubTypes, CallTypes
<1>2. HubsStay
  BY DEF Call, CallStep, HubsStay
<1>3. QED
  BY <1>1, <1>2, CallKeeps

LEMMA CancelKeeps ==
  ASSUME IInv, NEW c \in Callers, Cancel(c)
  PROVE  IInv'
<1>1. PICK from \in CallPC : CallStep(c, from, "idle")
  BY DEF Cancel
<1>2. retried' = [retried EXCEPT ![c] = "no"] /\ Forgets(c)
  BY DEF Cancel
<1>3. cpc' \in [Callers -> CallPC]
  BY <1>1 DEF CallStep, CallGoes, IInv, CallTypes
<1>4. CallTypes'
  BY <1>2, <1>3 DEF Forgets, IInv, CallTypes
<1>5. HubsStay
  BY <1>1 DEF CallStep, HubsStay
<1>6. QED
  BY <1>4, <1>5, CallKeeps

LEMMA FindKeeps ==
  ASSUME IInv, NEW c \in Callers, Find(c)
  PROVE  IInv'
<1>1. CallTypes'
  BY DEF Find, CallStep, CallGoes, Forgets, IInv, HubInv, HubTypes, CallTypes
<1>2. HubsStay
  BY DEF Find, CallStep, HubsStay
<1>3. QED
  BY <1>1, <1>2, CallKeeps

LEMMA WedgedGoneKeeps ==
  ASSUME IInv, NEW c \in Callers, WedgedGone(c)
  PROVE  IInv'
<1>1. PICK from \in {"wedged", "termed", "killed"} :
        /\ CallStep(c, from, "spawn") /\ seen' = [seen EXCEPT ![c] = Nobody]
        /\ UNCHANGED <<tried, child, ready, holder, again, retried, signalled, spent>>
  BY DEF WedgedGone
<1>2. CallTypes
  BY DEF IInv
<1>3. cpc' \in [Callers -> CallPC]
  BY <1>1, <1>2 DEF CallStep, CallGoes, CallTypes
<1>4. seen' \in [Callers -> SomeHub]
  BY <1>1, <1>2 DEF CallTypes
<1>5. CallTypes'
  BY <1>1, <1>2, <1>3, <1>4 DEF CallTypes
<1>6. HubsStay
  BY <1>1 DEF CallStep, HubsStay
<1>7. QED
  BY <1>5, <1>6, CallKeeps

LEMMA WedgedKeeps ==
  ASSUME IInv, NEW c \in Callers, Wedged(c)
  PROVE  IInv'
<1>1. CASE Failure(c, "wedged")
  BY <1>1, FailureKeeps
<1>2. CASE /\ CallStep(c, "wedged", "termed")
          /\ UNCHANGED <<seen, tried, child, ready, holder, again, retried>>
  <2>1. CallTypes'
    BY <1>2 DEF CallStep, CallGoes, Forgets, IInv, HubInv, HubTypes, CallTypes
  <2>2. HubsStay
    BY <1>2 DEF CallStep, HubsStay
  <2>3. QED
    BY <2>1, <2>2, CallKeeps
<1>3. QED
  BY <1>1, <1>2 DEF Wedged

LEMMA ReadReadyKeeps ==
  ASSUME IInv, NEW c \in Callers, ReadReady(c)
  PROVE  IInv'
<1>1. CASE /\ CallStep(c, "ready", "greet")
          /\ seen' = [seen EXCEPT ![c] = child[c]]
          /\ child' = [child EXCEPT ![c] = Nobody] /\ ready' = [ready EXCEPT ![c] = "none"]
          /\ UNCHANGED <<tried, holder, again, retried>>
  <2>1. CallTypes'
    BY <1>1 DEF CallStep, CallGoes, Forgets, IInv, HubInv, HubTypes, CallTypes
  <2>2. HubsStay
    BY <1>1 DEF CallStep, HubsStay
  <2>3. QED
    BY <2>1, <2>2, CallKeeps
<1>2. CASE /\ CallStep(c, "ready", "meet")
          /\ child' = [child EXCEPT ![c] = Nobody] /\ ready' = [ready EXCEPT ![c] = "none"]
          /\ UNCHANGED <<seen, tried, holder, again, retried>>
  <2>1. CallTypes'
    BY <1>2 DEF CallStep, CallGoes, Forgets, IInv, HubInv, HubTypes, CallTypes
  <2>2. HubsStay
    BY <1>2 DEF CallStep, HubsStay
  <2>3. QED
    BY <2>1, <2>2, CallKeeps
<1>3. CASE Failure(c, "ready")
  BY <1>3, FailureKeeps
<1>4. CASE /\ CallStep(c, "ready", "end child")
          /\ UNCHANGED <<seen, tried, child, ready, holder, again, retried>>
  <2>1. CallTypes'
    BY <1>4 DEF CallStep, CallGoes, Forgets, IInv, HubInv, HubTypes, CallTypes
  <2>2. HubsStay
    BY <1>4 DEF CallStep, HubsStay
  <2>3. QED
    BY <2>1, <2>2, CallKeeps
<1>5. QED
  BY <1>1, <1>2, <1>3, <1>4 DEF ReadReady

LEMMA MeetKeeps ==
  ASSUME IInv, NEW c \in Callers, Meet(c)
  PROVE  IInv'
<1>1. CASE /\ CallStep(c, "meet", "meet hello")
          /\ seen' = [seen EXCEPT ![c] = recAt] /\ tried' = [tried EXCEPT ![c] = recAt]
          /\ again' = [again EXCEPT ![c] = "no"]
          /\ UNCHANGED <<child, ready, holder, retried>>
  <2>1. CallTypes'
    BY <1>1 DEF CallStep, CallGoes, Forgets, IInv, HubInv, HubTypes, CallTypes
  <2>2. HubsStay
    BY <1>1 DEF CallStep, HubsStay
  <2>3. QED
    BY <2>1, <2>2, CallKeeps
<1>2. CASE RoundAgain(c, "meet")
  BY <1>2, RoundAgainKeeps
<1>3. CASE Failure(c, "meet")
  BY <1>3, FailureKeeps
<1>4. QED
  BY <1>1, <1>2, <1>3 DEF Meet

LEMMA HelloMeetKeeps ==
  ASSUME IInv, NEW c \in Callers, HelloMeet(c)
  PROVE  IInv'
<1>1. CASE HelloFound(c, "meet hello")
  BY <1>1, HelloFoundKeeps
<1>2. CASE HelloOther(c, "meet hello", "meet")
  BY <1>2, HelloOtherKeeps
<1>3. CASE /\ CallStep(c, "meet hello", "meet")
          /\ seen' = [seen EXCEPT ![c] = Nobody]
          /\ again' \in {again, [again EXCEPT ![c] = "yes"]}
          /\ UNCHANGED <<tried, child, ready, holder, retried>>
  <2>1. CallTypes'
    BY <1>3 DEF CallStep, CallGoes, Forgets, IInv, HubInv, HubTypes, CallTypes
  <2>2. HubsStay
    BY <1>3 DEF CallStep, HubsStay
  <2>3. QED
    BY <2>1, <2>2, CallKeeps
<1>4. QED
  BY <1>1, <1>2, <1>3 DEF HelloMeet

LEMMA HelloFindKeeps ==
  ASSUME IInv, NEW c \in Callers, HelloFind(c)
  PROVE  IInv'
<1>1. PICK from \in {"hello", "hello again"} :
        \/ HelloFound(c, from)
        \/ HelloOther(c, from, "spawn")
        \/ /\ CallStep(c, from, "spawn")
           /\ seen' = [seen EXCEPT ![c] = Nobody]
           /\ UNCHANGED <<tried, child, ready, holder, again, retried>>
        \/ /\ CallStep(c, from, IF from = "hello" THEN "hello again" ELSE "wedged")
           /\ UNCHANGED <<seen, tried, child, ready, holder, again, retried>>
  BY DEF HelloFind
<1>2. CASE HelloFound(c, from) \/ HelloOther(c, from, "spawn")
  BY <1>2, HelloFoundKeeps, HelloOtherKeeps
<1>3. CASE /\ CallStep(c, from, "spawn")
           /\ seen' = [seen EXCEPT ![c] = Nobody]
           /\ UNCHANGED <<tried, child, ready, holder, again, retried>>
  <2>1. CallTypes' /\ HubsStay
    BY <1>3 DEF CallStep, CallGoes, IInv, CallTypes, HubsStay
  <2>2. QED
    BY <2>1, CallKeeps
<1>4. CASE /\ CallStep(c, from, IF from = "hello" THEN "hello again" ELSE "wedged")
           /\ UNCHANGED <<seen, tried, child, ready, holder, again, retried>>
  <2>1. CallTypes' /\ HubsStay
    BY <1>4 DEF CallStep, CallGoes, IInv, CallTypes, HubsStay
  <2>2. QED
    BY <2>1, CallKeeps
<1>5. QED
  BY <1>1, <1>2, <1>3, <1>4

LEMMA GreetKeeps ==
  ASSUME IInv, NEW c \in Callers, Greet(c)
  PROVE  IInv'
<1>1. CASE HelloFound(c, "greet") \/ Failure(c, "greet")
  BY <1>1, HelloFoundKeeps, FailureKeeps
<1>2. CASE /\ Answers(sockAt)
           /\ LifeIs(sockAt, Admit(life[sockAt], "clients")) /\ Disturbs(sockAt)
           /\ CallGoes(c, IF retried[c] = "no" THEN "find" ELSE "failed")
           /\ retried' = [retried EXCEPT ![c] = "yes"] /\ Forgets(c)
           /\ UNCHANGED <<pc, lockVars, files, starting, sessions, killed, strayed>>
  <2>1. CallTypes'
    BY <1>2 DEF CallGoes, Forgets, IInv, CallTypes
  <2>2. QED
    BY <1>2, <2>1, HelloKeeps
<1>3. QED
  BY <1>1, <1>2 DEF Greet

LEMMA WedgedStaysKeeps ==
  ASSUME IInv, NEW c \in Callers, WedgedStays(c)
  PROVE  IInv'
<1>1. CASE /\ CallGoes(c, "killed")
           /\ UNCHANGED <<seen, tried, child, ready, holder, again, retried>>
           /\ Kill(seen[c]) \/ HubsStay
  <2>1. CallTypes' /\ seen[c] \in SomeHub
    BY <1>1 DEF CallGoes, IInv, CallTypes
  <2>2. QED
    BY <1>1, <2>1, KillAnyKeeps, CallKeeps
<1>2. CASE Failure(c, "killed")
  BY <1>2, FailureKeeps
<1>3. QED
  BY <1>1, <1>2 DEF WedgedStays, HubsStay

LEMMA EndContenderKeeps ==
  ASSUME IInv, NEW c \in Callers, EndContender(c)
  PROVE  IInv'
<1>1. CASE Kill(child[c]) /\ UNCHANGED calls
  <2>1. CallTypes' /\ child[c] \in SomeHub
    BY <1>1 DEF IInv, CallTypes
  <2>2. QED
    BY <1>1, <2>1, KillAnyKeeps
<1>2. CASE Failure(c, "end child")
  BY <1>2, FailureKeeps
<1>3. QED
  BY <1>1, <1>2 DEF EndContender

\* A hub spawned is one that nothing names: it starts with nothing at any path its own.
LEMMA SpawnKeeps ==
  ASSUME IInv, NEW c \in Callers, Spawn(c)
  PROVE  IInv'
<1> DEFINE h == CHOOSE g \in Hubs : Unused(g)
<1>1. h \in Hubs /\ Unused(h)
  BY DEF Spawn
<1>2. /\ CallGoes(c, "ready") /\ child' = [child EXCEPT ![c] = h]
      /\ Goes(h, "lock")
      /\ line' = IF line = h THEN Nobody ELSE line
      /\ killed' = killed \ {h} /\ strayed' = strayed \ {h}
      /\ UNCHANGED <<lock, files, starting, life, sessions, seen, tried, ready, holder,
                     again, retried, quiet>>
  BY DEF Spawn
<1> HIDE DEF h
<1>3. pc[h] = "gone" /\ sockAt # h /\ recAt # h
  BY <1>1 DEF Unused
<1>4. HubTypes' /\ CallTypes'
  BY <1>1, <1>2 DEF CallGoes, IInv, HubInv, HubTypes, CallTypes
<1>5. Locked'
  BY <1>1, <1>2, <1>3 DEF IInv, HubInv, HubTypes, Locked, LockedOf, HoldPC
<1>6. Sockets'
  BY <1>1, <1>2, <1>3 DEF IInv, HubInv, HubTypes, Sockets, SocketOf, OpenPC, UnboundPC
<1>7. Records'
  BY <1>1, <1>2, <1>3 DEF IInv, HubInv, HubTypes, Records, RecordOf, UnwrittenPC
<1>8. Leavings'
  BY <1>1, <1>2, <1>3, NobodyIsNoHub DEF IInv, HubInv, HubTypes, Leavings, LeavingOf
<1>9. Graces'
  BY <1>2 DEF IInv, HubInv, Graces, GraceOf
<1>10. QED
  BY <1>4, <1>5, <1>6, <1>7, <1>8, <1>9 DEF IInv, HubInv

-----------------------------------------------------------------------------
(* The theorems *)

LEMMA HubStepKeeps ==
  ASSUME IInv, NEW h \in Hubs, HubStep(h)
  PROVE  IInv'
<1>1. CASE Start(h)
  BY <1>1, TakeLockKeeps, WriteHolderKeeps, LstatSocketKeeps, ProbeSocketKeeps, SettleKeeps,
     ClearRefusedKeeps, BindKeeps, IdentifyKeeps, WriteRecordKeeps, ServeKeeps DEF Start
<1>2. CASE Loop(h)
  BY <1>2, HostsTickKeeps, KickedKeeps, DecideIdleKeeps, StopsKeeps DEF Loop
<1>3. CASE End(h)
  BY <1>3, CloseListenerKeeps, SocketOursKeeps, UnlinkSocketKeeps, RecordOursKeeps,
     RemoveRecordKeeps, ReleaseKeeps DEF End
<1>4. CASE Dies(h)
  BY <1>4, DropLockKeeps, DropListenerKeeps, ReapKeeps DEF Dies
<1>5. CASE Visit(h) \/ DropConn(h) \/ BeginCreate(h) \/ EndCreate(h) \/ PollReads(h) \/ PollHosts(h)
  BY <1>5, VisitKeeps, DropConnKeeps, BeginCreateKeeps, EndCreateKeeps, PollReadsKeeps,
     PollHostsKeeps
<1>6. QED
  BY <1>1, <1>2, <1>3, <1>4, <1>5 DEF HubStep

LEMMA EnsureKeeps ==
  ASSUME IInv, NEW c \in Callers, Ensure(c)
  PROVE  IInv'
  BY FindKeeps, HelloFindKeeps, WedgedKeeps, WedgedGoneKeeps, WedgedStaysKeeps, SpawnKeeps,
     ReadReadyKeeps, EndContenderKeeps, GreetKeeps, MeetKeeps, HelloMeetKeeps DEF Ensure

LEMMA NextKeeps == IInv /\ [Next]_vars => IInv'
<1> SUFFICES ASSUME IInv, [Next]_vars PROVE IInv'
  OBVIOUS
<1>1. CASE \E h \in Hubs : HubStep(h) \/ KillHub(h)
  <2>1. PICK h \in Hubs : HubStep(h) \/ KillHub(h)
    BY <1>1
  <2>2. CASE KillHub(h)
    <3>1. CallTypes'
      BY <2>2 DEF KillHub, IInv, CallTypes
    <3>2. QED
      BY <2>2, <3>1, KillKeeps DEF KillHub
  <2>3. QED
    BY <2>1, <2>2, HubStepKeeps
<1>2. CASE \E c \in Callers : Call(c) \/ Cancel(c) \/ Ensure(c)
  BY <1>2, CallIsKept, CancelKeeps, EnsureKeeps
<1>3. CASE \E s \in Sessions : HostStarts(s) \/ HostEnds(s)
  BY <1>3, HostsKeep
<1>4. CASE LoseSocket \/ LoseRecord
  BY <1>4, LoseSocketKeeps, LoseRecordKeeps
<1>5. CASE UNCHANGED vars
  <2>1. CallTypes' /\ HubsStay
    BY <1>5 DEF vars, IInv, CallTypes, HubsStay
  <2>2. QED
    BY <2>1, CallKeeps
<1>6. QED
  BY <1>1, <1>2, <1>3, <1>4, <1>5 DEF Next

\* Every reachable state satisfies the invariant: the inductive fact that the hub's start,
\* loop and teardown, and the calls of Ensure, all keep.
THEOREM Invariant == Spec => []IInv
<1>1. Init => IInv
  BY InitHolds
<1>2. IInv /\ [Next]_vars => IInv'
  BY NextKeeps
<1>3. QED
  BY <1>1, <1>2, PTL DEF Spec

\* The variables of the hub and of the calls keep their types.
THEOREM TypeCorrect == Spec => []TypeOK
<1>1. IInv => TypeOK
  BY DEF IInv, HubInv, HubTypes, CallTypes, TypeOK
<1>2. QED
  BY <1>1, Invariant, PTL

\* The hub that serves is the only one, and is found at its socket and its record.
THEOREM ServingHubIsFindable == Spec => []HubFindable
<1>1. IInv => HubFindable
  <2> SUFFICES ASSUME IInv, NEW h \in Hubs, pc[h] = "serve"
               PROVE  /\ \A g \in Hubs \ {h} : pc[g] # "serve"
                      /\ h \in strayed \/ (sockAt = h /\ h \in listening /\ recAt = h)
    BY DEF HubFindable
  <2>1. \A g \in Hubs \ {h} : pc[g] # "serve"
    BY OneHolds DEF IInv, HoldPC
  <2>2. SocketOf(h) /\ RecordOf(h)
    BY DEF IInv, HubInv, Sockets, Records
  <2>3. QED
    BY <2>1, <2>2 DEF SocketOf, RecordOf, OpenPC
<1>2. QED
  BY <1>1, Invariant, PTL

\* A hub that stopped, at whatever stage of its start or its teardown, leaves no socket, no
\* record, no lock and no holder line.
THEOREM StoppedHubLeavesNothing == Spec => []StoppedLeavesNothing
<1>1. IInv => StoppedLeavesNothing
  BY DEF IInv, HubInv, Locked, LockedOf, Leavings, LeavingOf, HoldPC, StoppedLeavesNothing
<1>2. QED
  BY <1>1, Invariant, PTL

\* A grace that decides has met nothing since it was armed.
LEMMA DecisionIsQuiet ==
  ASSUME IInv, NEW h \in Hubs, DecideIdle(h), pc'[h] = "idled"
  PROVE  quiet[h] = "quiet" /\ sessions = {}
<1>1. PICK r \in RegistryRead :
        LET l == [SetHosts(life[h], r) EXCEPT !.grace = "none"]
        IN \/ Decides(l) /\ Goes(h, "idled") /\ Closes(h)
           \/ ~Decides(l) /\ ArmIs(h, l) /\ UNCHANGED pc
  BY DEF DecideIdle
<1> DEFINE k == SetHosts(life[h], r)
           l == [k EXCEPT !.grace = "none"]
<1>2. pc[h] = "serve" /\ life[h].grace = "armed"
  BY DEF DecideIdle
<1>3. Decides(l)
  BY <1>1, <1>2
<1>4. life[h] \in Lives /\ r \in Reads /\ (r.is # "failed" => r.of = sessions)
  BY ReadsAreReads DEF IInv, HubInv, HubTypes
<1>5. k \in Lives /\ k.grace = "armed" /\ (r.is = "failed" => k.read = "failed")
      /\ (r.is # "failed" => k.ids = r.of)
  BY <1>2, <1>4, SetHostsLife
<1> HIDE DEF k
<1>6. l.ids = k.ids /\ l.read = k.read /\ l.epoch = k.epoch /\ l.armed = k.armed
  BY <1>5 DEF Lives
<1>7. k.ids = {} /\ k.read = "good" /\ k.armed = k.epoch
  BY <1>3, <1>6 DEF Decides, Idle
<1>8. r.is # "failed"
  BY <1>5, <1>7
<1>9. quiet[h] = "quiet"
  BY <1>5, <1>7, ReadRecorded DEF k
<1>10. QED
  BY <1>4, <1>5, <1>7, <1>8, <1>9

\* No other step is an idle decision.
LEMMA OnlyDecideIdles ==
  ASSUME IInv, [Next]_vars, NEW h \in Hubs, pc[h] # "idled", pc'[h] = "idled"
  PROVE  DecideIdle(h)
<1>1. pc \in [Hubs -> HubPC]
  BY DEF IInv, HubInv, HubTypes
<1>2. CASE \E g \in Hubs : Start(g) \/ End(g) \/ Dies(g)
  <2>1. PICK g \in Hubs : Start(g) \/ End(g) \/ Dies(g)
    BY <1>2
  <2>2. CASE Start(g)
    BY <1>1, <2>2 DEF Start, TakeLock, WriteHolder, LstatSocket, ProbeSocket, Settle,
       ClearRefused, Bind, Identify, WriteRecord, Serve
  <2>3. CASE End(g) \/ Dies(g)
    BY <1>1, <2>3 DEF End, Dies, CloseListener, SocketOurs, UnlinkSocket, RecordOurs,
       RemoveRecord, Release, DropLock, DropListener, Reap
  <2>4. QED
    BY <2>1, <2>2, <2>3
<1>3. CASE \E g \in Hubs : Visit(g) \/ DropConn(g) \/ BeginCreate(g) \/ EndCreate(g) \/ PollReads(g)
                            \/ PollHosts(g) \/ HostsTick(g) \/ Kicked(g)
  BY <1>1, <1>3 DEF Visit, DropConn, BeginCreate, EndCreate, PollReads, PollHosts, HostsTick, Kicked
<1>4. CASE \E g \in Hubs : Lost(g) \/ TakeSignal(g) \/ KillHub(g)
  BY <1>1, <1>4 DEF Lost, TakeSignal, Stops, KillHub, Kill
<1>5. CASE \E g \in Hubs : DecideIdle(g)
  <2>1. PICK g \in Hubs : DecideIdle(g)
    BY <1>5
  <2>2. pc' = pc \/ Goes(g, "idled")
    BY <2>1 DEF DecideIdle
  <2>3. g = h
    BY <1>1, <2>2
  <2>4. QED
    BY <2>1, <2>3
<1>6. CASE \E c \in Callers : Call(c) \/ Cancel(c) \/ Ensure(c)
  <2>1. PICK c \in Callers : Call(c) \/ Cancel(c) \/ Ensure(c)
    BY <1>6
  <2>2. CASE Call(c) \/ Cancel(c) \/ Find(c) \/ Wedged(c) \/ WedgedGone(c) \/ ReadReady(c)
            \/ Meet(c)
    BY <2>2 DEF Call, Cancel, Find, Wedged, WedgedGone, ReadReady, Meet, RoundAgain, Failure,
       CallStep
  <2>3. CASE HelloFind(c) \/ HelloMeet(c) \/ Greet(c)
    BY <2>3 DEF HelloFind, HelloMeet, Greet, HelloFound, HelloOther, Failure, CallStep
  <2>4. CASE WedgedStays(c) \/ EndContender(c)
    BY <1>1, <2>4 DEF WedgedStays, EndContender, Kill, Failure, CallStep
  <2>5. CASE Spawn(c)
    <3>1. Goes(CHOOSE g \in Hubs : Unused(g), "lock")
      BY <2>5 DEF Spawn
    <3>2. QED
      BY <1>1, <3>1
  <2>6. QED
    BY <2>1, <2>2, <2>3, <2>4, <2>5 DEF Ensure
<1>7. CASE (\E s \in Sessions : HostStarts(s) \/ HostEnds(s)) \/ LoseSocket \/ LoseRecord
            \/ UNCHANGED vars
  BY <1>7 DEF HostStarts, HostEnds, LoseSocket, LoseRecord, vars
<1>8. QED
  BY <1>2, <1>3, <1>4, <1>5, <1>6, <1>7 DEF Next, HubStep, Loop

\* A hub decides that it is idle only of a quiet grace, and with no host live.
THEOREM IdleDecisionWasQuiet == Spec => IdleWasQuiet
<1>1. IInv /\ [Next]_vars =>
        [\A h \in Hubs : pc[h] # "idled" /\ pc'[h] = "idled" => quiet[h] = "quiet" /\ sessions = {}]_vars
  BY OnlyDecideIdles, DecisionIsQuiet
<1>2. QED
  BY <1>1, Invariant, PTL DEF Spec, IdleWasQuiet

=============================================================================
