--------------------------- MODULE RegistryProofs ---------------------------
(***************************************************************************)
(* One host at a time, and nobody takes its files, for any number of hosts *)
(* given one id, of scans, and of inode numbers.                           *)
(*                                                                         *)
(* The argument: a flock on the file that is at the lock's name is held by *)
(* one process, and only that process changes what is at the name; so a    *)
(* host past its identity check, a scan about to sweep and an orphan sweep *)
(* about to unlink exclude each other (AtName).  The socket is not guarded *)
(* by the lock itself: an orphan sweep that found the lock missing or free *)
(* is looking at the socket of a host that will never hold it again        *)
(* (Looks), because no id is bound twice by one process.                   *)
(***************************************************************************)
EXTENDS Registry, TLAPS

-----------------------------------------------------------------------------
(* The invariant *)

\* Who has the file it opened flocked, and who has one open at all.
HeldPC == HostHolds \cup {"named", "unlock", "check", "sweepentry", "sweeplock", "letgo",
                          "ocheck", "oentry", "ounlink", "oletgo", "sletgo"}
OpenPC == HeldPC \cup {"touch", "flock", "refused", "try", "read", "again",
                       "oage", "otry", "sage", "stry"}

\* Who has found that file at its name, and not unlinked it.
AtNamePC == HostHolds \cup {"sweepentry", "sweeplock", "oentry", "ounlink"}

\* A host before it binds, and one that will not hold the lock again.
PrePC == {"new", "open", "touch", "flock", "named", "refused", "bind"}
PastPC == {"unlock", "gone"}

Attempts == \A h \in Hosts : pc[h] = "new" => tries[h] < LockTries
Opened == \A p \in Procs : pc[p] \in OpenPC => fd[p] \in Files
Held == \A p \in Procs : pc[p] \in HeldPC => flock[fd[p]] = p
AtName == \A p \in Procs : pc[p] \in AtNamePC => lockAt = fd[p]

Bound ==
  /\ sockAt # Nobody => pc[sockAt] \notin PrePC
  /\ \A h \in Hosts : pc[h] \in {"listen", "write", "bound"} => sockAt = h

Entered ==
  /\ entryAt # Nobody => pc[entryAt.by] \notin PrePC \cup {"listen", "write"}
  /\ \A h \in Hosts : pc[h] = "bound" => told[h] \in Entries /\ entryAt = told[h]
  /\ \A h \in Hosts : pc[h] = "bound" => told[h].by = h /\ (told[h].as = "stopping" => h \in marked)

Looks ==
  \A o \in Sweepers :
    /\ pc[o] \in {"sopen", "sage", "stry", "sletgo", "probe", "relstat", "unsock"} =>
         looksAt[o] \in Hosts /\ pc[looksAt[o]] \notin PrePC
    /\ pc[o] \in {"sage", "stry"} /\ pc[looksAt[o]] \in HostHolds => fd[o] = fd[looksAt[o]]
    /\ pc[o] \in {"sletgo", "probe", "relstat", "unsock"} => pc[looksAt[o]] \in PastPC
    /\ pc[o] = "unsock" => sockAt = looksAt[o]

Seen ==
  \A s \in Scanners :
    /\ witness[s] # Nobody => pc[witness[s]] = "bound"
    /\ pc[s] \in {"try", "read", "again"} /\ witness[s] # Nobody => fd[s] = fd[witness[s]]
    /\ pc[s] \in {"check", "sweepentry", "sweeplock", "letgo"} => witness[s] = Nobody
    /\ pc[s] = "answered" /\ verdict[s] = "gone" => witness[s] = Nobody

IInv ==
  /\ TypeOK /\ Attempts /\ Opened /\ Held /\ AtName /\ Bound /\ Entered /\ Looks /\ Seen

USE DEF Procs, At, Goes, Opens, Closes, Takes, Free, Named, LetsGo, KeepsTree, KeepsRest,
        KeepsButTries, lock, socket, hosting, reading, HostHolds, HostPC, ScanPC, SweepPC

LEMMA InitHolds == Init => IInv
<1> SUFFICES ASSUME Init PROVE IInv
  OBVIOUS
<1>1. TypeOK
  BY ProcsDisjoint, Bounds DEF Init, TypeOK
<1>2. Attempts /\ Opened /\ Held /\ AtName
  BY ProcsDisjoint, Bounds
  DEF Init, Attempts, Opened, Held, AtName, OpenPC, HeldPC, AtNamePC
<1>3. Bound /\ Entered /\ Looks /\ Seen
  BY ProcsDisjoint DEF Init, Bound, Entered, Looks, Seen
<1>4. QED
  BY <1>1, <1>2, <1>3 DEF IInv

\* Whoever has the lock at its name is alone.
LEMMA OneAtName ==
  ASSUME IInv, NEW p \in Procs, NEW q \in Procs, pc[p] \in AtNamePC, pc[q] \in AtNamePC
  PROVE  p = q
  BY DEF IInv, Held, AtName, AtNamePC, HeldPC

\* A live host has an entry of its own at its name.
LEMMA BoundHasEntry ==
  ASSUME IInv, NEW h \in Hosts, pc[h] = "bound"
  PROVE  entryAt # Nobody /\ lockAt = fd[h] /\ fd[h] \in Files /\ flock[fd[h]] = h
<1>1. entryAt = told[h] /\ told[h] \in Entries
  BY DEF IInv, Entered
<1>2. QED
  BY <1>1, ProcsDisjoint DEF IInv, AtName, Held, Opened, AtNamePC, HeldPC, OpenPC

LEMMA CreateLockKeeps ==
  ASSUME IInv, NEW h \in Hosts, CreateLock(h)
  PROVE  IInv'
  <1>1. TypeOK'
    <2>1. lockAt' \in Files \cup {NoFile} /\ youngLock' \subseteq Files
      BY ProcsDisjoint, Bounds DEF IInv, TypeOK, CreateLock, Unused
    <2>2. flock' \in [Files -> Procs \cup {Nobody}]
      BY ProcsDisjoint, Bounds DEF IInv, TypeOK, CreateLock, Unused
    <2>3. pc' \in [Procs -> HostPC \cup ScanPC \cup SweepPC]
      BY ProcsDisjoint, Bounds DEF IInv, TypeOK, CreateLock, Unused
    <2>4. \A x \in Hosts : pc'[x] \in HostPC
      BY ProcsDisjoint, Bounds DEF IInv, TypeOK, CreateLock, Unused
    <2>5. (\A x \in Scanners : pc'[x] \in ScanPC) /\ (\A x \in Sweepers : pc'[x] \in SweepPC)
      BY ProcsDisjoint, Bounds DEF IInv, TypeOK, CreateLock, Unused
    <2>6. fd' \in [Procs -> Files \cup {NoFile}]
      BY ProcsDisjoint, Bounds DEF IInv, TypeOK, CreateLock, Unused
    <2>7. tries' \in [Hosts -> 0..LockTries] /\ marked' \subseteq Hosts /\ told' \in [Hosts -> Entries \cup {Nobody}]
      BY ProcsDisjoint, Bounds DEF IInv, TypeOK, CreateLock, Attempts
    <2>8. sockAt' \in Hosts \cup {Nobody} /\ sockAge' \in {"young", "old"} /\ listening' \subseteq Hosts
      BY ProcsDisjoint, Bounds DEF IInv, TypeOK, CreateLock, Unused
    <2>9. QED
      BY <2>1, <2>2, <2>3, <2>4, <2>5, <2>6, <2>7, <2>8 DEF IInv, TypeOK, CreateLock, Unused
  <1>2. Attempts'
    BY ProcsDisjoint, Bounds DEF IInv, TypeOK, CreateLock, Unused, Attempts
  <1>3. Opened'
    BY ProcsDisjoint, Bounds DEF IInv, TypeOK, CreateLock, Unused, Opened, OpenPC, HeldPC
  <1>4. Held'
    BY ProcsDisjoint, Bounds DEF IInv, TypeOK, CreateLock, Unused, Held, Opened, OpenPC, HeldPC
  <1>5. AtName'
    BY ProcsDisjoint, Bounds DEF IInv, TypeOK, CreateLock, Unused, AtName, Opened, Held, AtNamePC, OpenPC, HeldPC
  <1>6. Bound'
    BY ProcsDisjoint, Bounds DEF IInv, TypeOK, CreateLock, Unused, Bound, PrePC
  <1>7. Entered'
    BY ProcsDisjoint, Bounds DEF IInv, TypeOK, CreateLock, Unused, Entered, Entries, PrePC
  <1>8. Looks'
    BY ProcsDisjoint, Bounds DEF IInv, TypeOK, CreateLock, Unused, Looks, PrePC, PastPC
  <1>9. Seen'
    BY ProcsDisjoint, Bounds DEF IInv, TypeOK, CreateLock, Unused, Seen
  <1>10. QED
    BY <1>1, <1>2, <1>3, <1>4, <1>5, <1>6, <1>7, <1>8, <1>9 DEF IInv

LEMMA OpenLockKeeps ==
  ASSUME IInv, NEW h \in Hosts, OpenLock(h)
  PROVE  IInv'
  <1>1. TypeOK'
    BY ProcsDisjoint, Bounds DEF IInv, TypeOK, OpenLock, TryAfresh, Returns, Entries
  <1>2. Attempts'
    BY ProcsDisjoint, Bounds DEF IInv, TypeOK, OpenLock, TryAfresh, Returns, Attempts
  <1>3. Opened'
    BY ProcsDisjoint, Bounds DEF IInv, TypeOK, OpenLock, TryAfresh, Returns, Opened, OpenPC, HeldPC
  <1>4. Held'
    BY ProcsDisjoint, Bounds DEF IInv, TypeOK, OpenLock, TryAfresh, Returns, Held, Opened, OpenPC, HeldPC
  <1>5. AtName'
    BY ProcsDisjoint, Bounds DEF IInv, TypeOK, OpenLock, TryAfresh, Returns, AtName, Opened, Held, AtNamePC, OpenPC, HeldPC
  <1>6. Bound'
    BY ProcsDisjoint, Bounds DEF IInv, TypeOK, OpenLock, TryAfresh, Returns, Bound, PrePC
  <1>7. Entered'
    BY ProcsDisjoint, Bounds DEF IInv, TypeOK, OpenLock, TryAfresh, Returns, Entered, Entries, PrePC
  <1>8. Looks'
    BY ProcsDisjoint, Bounds DEF IInv, TypeOK, OpenLock, TryAfresh, Returns, Looks, PrePC, PastPC
  <1>9. Seen'
    BY ProcsDisjoint, Bounds DEF IInv, TypeOK, OpenLock, TryAfresh, Returns, Seen
  <1>10. QED
    BY <1>1, <1>2, <1>3, <1>4, <1>5, <1>6, <1>7, <1>8, <1>9 DEF IInv

LEMMA TouchLockKeeps ==
  ASSUME IInv, NEW h \in Hosts, TouchLock(h)
  PROVE  IInv'
  <1>1. TypeOK'
    <2>1. lockAt' \in Files \cup {NoFile} /\ youngLock' \subseteq Files
      BY ProcsDisjoint DEF IInv, TypeOK, TouchLock, Opened, OpenPC
    <2>2. flock' \in [Files -> Procs \cup {Nobody}]
      BY ProcsDisjoint, Bounds DEF IInv, TypeOK, TouchLock
    <2>3. pc' \in [Procs -> HostPC \cup ScanPC \cup SweepPC]
      BY ProcsDisjoint, Bounds DEF IInv, TypeOK, TouchLock
    <2>4. \A x \in Hosts : pc'[x] \in HostPC
      BY ProcsDisjoint, Bounds DEF IInv, TypeOK, TouchLock
    <2>5. (\A x \in Scanners : pc'[x] \in ScanPC) /\ (\A x \in Sweepers : pc'[x] \in SweepPC)
      BY ProcsDisjoint, Bounds DEF IInv, TypeOK, TouchLock
    <2>6. fd' \in [Procs -> Files \cup {NoFile}]
      BY ProcsDisjoint, Bounds DEF IInv, TypeOK, TouchLock
    <2>7. tries' \in [Hosts -> 0..LockTries] /\ marked' \subseteq Hosts /\ told' \in [Hosts -> Entries \cup {Nobody}]
      BY ProcsDisjoint, Bounds DEF IInv, TypeOK, TouchLock
    <2>8. sockAt' \in Hosts \cup {Nobody} /\ sockAge' \in {"young", "old"} /\ listening' \subseteq Hosts
      BY ProcsDisjoint, Bounds DEF IInv, TypeOK, TouchLock
    <2>9. QED
      BY <2>1, <2>2, <2>3, <2>4, <2>5, <2>6, <2>7, <2>8 DEF IInv, TypeOK, TouchLock
  <1>2. Attempts'
    BY ProcsDisjoint, Bounds DEF IInv, TypeOK, TouchLock, Attempts
  <1>3. Opened'
    BY ProcsDisjoint, Bounds DEF IInv, TypeOK, TouchLock, Opened, OpenPC, HeldPC
  <1>4. Held'
    BY ProcsDisjoint, Bounds DEF IInv, TypeOK, TouchLock, Held, Opened, OpenPC, HeldPC
  <1>5. AtName'
    BY ProcsDisjoint, Bounds DEF IInv, TypeOK, TouchLock, AtName, Opened, Held, AtNamePC, OpenPC, HeldPC
  <1>6. Bound'
    BY ProcsDisjoint, Bounds DEF IInv, TypeOK, TouchLock, Bound, PrePC
  <1>7. Entered'
    BY ProcsDisjoint, Bounds DEF IInv, TypeOK, TouchLock, Entered, Entries, PrePC
  <1>8. Looks'
    BY ProcsDisjoint, Bounds DEF IInv, TypeOK, TouchLock, Looks, PrePC, PastPC
  <1>9. Seen'
    BY ProcsDisjoint, Bounds DEF IInv, TypeOK, TouchLock, Seen
  <1>10. QED
    BY <1>1, <1>2, <1>3, <1>4, <1>5, <1>6, <1>7, <1>8, <1>9 DEF IInv

LEMMA HostTriesKeeps ==
  ASSUME IInv, NEW h \in Hosts, TryLock(h, "flock", "named", "refused")
  PROVE  IInv'
  <1>1. TypeOK'
    BY ProcsDisjoint, Bounds DEF IInv, TypeOK, TryLock, Entries
  <1>2. Attempts'
    BY ProcsDisjoint, Bounds DEF IInv, TypeOK, TryLock, Attempts
  <1>3. Opened'
    BY ProcsDisjoint, Bounds DEF IInv, TypeOK, TryLock, Opened, OpenPC, HeldPC
  <1>4. Held'
    BY ProcsDisjoint, Bounds DEF IInv, TypeOK, TryLock, Held, Opened, OpenPC, HeldPC
  <1>5. AtName'
    BY ProcsDisjoint, Bounds DEF IInv, TypeOK, TryLock, AtName, Opened, Held, AtNamePC, OpenPC, HeldPC
  <1>6. Bound'
    BY ProcsDisjoint, Bounds DEF IInv, TypeOK, TryLock, Bound, PrePC
  <1>7. Entered'
    BY ProcsDisjoint, Bounds DEF IInv, TypeOK, TryLock, Entered, Entries, PrePC
  <1>8. Looks'
    BY ProcsDisjoint, Bounds DEF IInv, TypeOK, TryLock, Looks, PrePC, PastPC
  <1>9. Seen'
    BY ProcsDisjoint, Bounds DEF IInv, TypeOK, TryLock, Seen
  <1>10. QED
    BY <1>1, <1>2, <1>3, <1>4, <1>5, <1>6, <1>7, <1>8, <1>9 DEF IInv

LEMMA CheckNamedKeeps ==
  ASSUME IInv, NEW h \in Hosts, CheckNamed(h)
  PROVE  IInv'
  <1>1. TypeOK'
    BY ProcsDisjoint, Bounds DEF IInv, TypeOK, CheckNamed, TryAfresh, Returns, Entries
  <1>2. Attempts'
    BY ProcsDisjoint, Bounds DEF IInv, TypeOK, CheckNamed, TryAfresh, Returns, Attempts
  <1>3. Opened'
    BY ProcsDisjoint, Bounds DEF IInv, TypeOK, CheckNamed, TryAfresh, Returns, Opened, OpenPC, HeldPC
  <1>4. Held'
    BY ProcsDisjoint, Bounds DEF IInv, TypeOK, CheckNamed, TryAfresh, Returns, Held, Opened, OpenPC, HeldPC
  <1>5. AtName'
    BY ProcsDisjoint, Bounds DEF IInv, TypeOK, CheckNamed, TryAfresh, Returns, AtName, Opened, Held, AtNamePC, OpenPC, HeldPC
  <1>6. Bound'
    BY ProcsDisjoint, Bounds DEF IInv, TypeOK, CheckNamed, TryAfresh, Returns, Bound, PrePC
  <1>7. Entered'
    BY ProcsDisjoint, Bounds DEF IInv, TypeOK, CheckNamed, TryAfresh, Returns, Entered, Entries, PrePC
  <1>8. Looks'
    BY ProcsDisjoint, Bounds DEF IInv, TypeOK, CheckNamed, TryAfresh, Returns, Looks, PrePC, PastPC
  <1>9. Seen'
    BY ProcsDisjoint, Bounds DEF IInv, TypeOK, CheckNamed, TryAfresh, Returns, Seen
  <1>10. QED
    BY <1>1, <1>2, <1>3, <1>4, <1>5, <1>6, <1>7, <1>8, <1>9 DEF IInv

LEMMA CheckRefusedKeeps ==
  ASSUME IInv, NEW h \in Hosts, CheckRefused(h)
  PROVE  IInv'
  <1>1. TypeOK'
    BY ProcsDisjoint, Bounds DEF IInv, TypeOK, CheckRefused, TryAfresh, Returns, Entries
  <1>2. Attempts'
    BY ProcsDisjoint, Bounds DEF IInv, TypeOK, CheckRefused, TryAfresh, Returns, Attempts
  <1>3. Opened'
    BY ProcsDisjoint, Bounds DEF IInv, TypeOK, CheckRefused, TryAfresh, Returns, Opened, OpenPC, HeldPC
  <1>4. Held'
    BY ProcsDisjoint, Bounds DEF IInv, TypeOK, CheckRefused, TryAfresh, Returns, Held, Opened, OpenPC, HeldPC
  <1>5. AtName'
    BY ProcsDisjoint, Bounds DEF IInv, TypeOK, CheckRefused, TryAfresh, Returns, AtName, Opened, Held, AtNamePC, OpenPC, HeldPC
  <1>6. Bound'
    BY ProcsDisjoint, Bounds DEF IInv, TypeOK, CheckRefused, TryAfresh, Returns, Bound, PrePC
  <1>7. Entered'
    BY ProcsDisjoint, Bounds DEF IInv, TypeOK, CheckRefused, TryAfresh, Returns, Entered, Entries, PrePC
  <1>8. Looks'
    BY ProcsDisjoint, Bounds DEF IInv, TypeOK, CheckRefused, TryAfresh, Returns, Looks, PrePC, PastPC
  <1>9. Seen'
    BY ProcsDisjoint, Bounds DEF IInv, TypeOK, CheckRefused, TryAfresh, Returns, Seen
  <1>10. QED
    BY <1>1, <1>2, <1>3, <1>4, <1>5, <1>6, <1>7, <1>8, <1>9 DEF IInv

LEMMA BindSocketKeeps ==
  ASSUME IInv, NEW h \in Hosts, BindSocket(h)
  PROVE  IInv'
  <1>1. TypeOK'
    <2>1. lockAt' \in Files \cup {NoFile} /\ youngLock' \subseteq Files
      BY ProcsDisjoint, Bounds DEF IInv, TypeOK, BindSocket
    <2>2. flock' \in [Files -> Procs \cup {Nobody}]
      BY ProcsDisjoint, Bounds DEF IInv, TypeOK, BindSocket
    <2>3. pc' \in [Procs -> HostPC \cup ScanPC \cup SweepPC]
      BY ProcsDisjoint, Bounds DEF IInv, TypeOK, BindSocket
    <2>4. \A x \in Hosts : pc'[x] \in HostPC
      BY ProcsDisjoint, Bounds DEF IInv, TypeOK, BindSocket
    <2>5. (\A x \in Scanners : pc'[x] \in ScanPC) /\ (\A x \in Sweepers : pc'[x] \in SweepPC)
      BY ProcsDisjoint, Bounds DEF IInv, TypeOK, BindSocket
    <2>6. fd' \in [Procs -> Files \cup {NoFile}]
      BY ProcsDisjoint, Bounds DEF IInv, TypeOK, BindSocket
    <2>7. tries' \in [Hosts -> 0..LockTries] /\ marked' \subseteq Hosts /\ told' \in [Hosts -> Entries \cup {Nobody}]
      BY ProcsDisjoint, Bounds DEF IInv, TypeOK, BindSocket
    <2>8. sockAt' \in Hosts \cup {Nobody} /\ sockAge' \in {"young", "old"} /\ listening' \subseteq Hosts
      BY ProcsDisjoint, Bounds DEF IInv, TypeOK, BindSocket
    <2>9. QED
      BY <2>1, <2>2, <2>3, <2>4, <2>5, <2>6, <2>7, <2>8 DEF IInv, TypeOK, BindSocket
  <1>2. Attempts'
    BY ProcsDisjoint, Bounds DEF IInv, TypeOK, BindSocket, Attempts
  <1>3. Opened'
    BY ProcsDisjoint, Bounds DEF IInv, TypeOK, BindSocket, Opened, OpenPC, HeldPC
  <1>4. Held'
    BY ProcsDisjoint, Bounds DEF IInv, TypeOK, BindSocket, Held, Opened, OpenPC, HeldPC
  <1>5. AtName'
    BY ProcsDisjoint, Bounds DEF IInv, TypeOK, BindSocket, AtName, Opened, Held, AtNamePC, OpenPC, HeldPC
  <1>6. Bound'
    BY ProcsDisjoint, Bounds DEF IInv, TypeOK, BindSocket, Bound, PrePC
  <1>7. Entered'
    BY ProcsDisjoint, Bounds DEF IInv, TypeOK, BindSocket, Entered, Entries, PrePC
  <1>8. Looks'
    BY ProcsDisjoint, Bounds DEF IInv, TypeOK, BindSocket, Looks, PrePC, PastPC
  <1>9. Seen'
    BY ProcsDisjoint, Bounds DEF IInv, TypeOK, BindSocket, Seen
  <1>10. QED
    BY <1>1, <1>2, <1>3, <1>4, <1>5, <1>6, <1>7, <1>8, <1>9 DEF IInv

LEMMA ListenSocketKeeps ==
  ASSUME IInv, NEW h \in Hosts, ListenSocket(h)
  PROVE  IInv'
  <1>1. TypeOK'
    BY ProcsDisjoint, Bounds DEF IInv, TypeOK, ListenSocket, Entries
  <1>2. Attempts'
    BY ProcsDisjoint, Bounds DEF IInv, TypeOK, ListenSocket, Attempts
  <1>3. Opened'
    BY ProcsDisjoint, Bounds DEF IInv, TypeOK, ListenSocket, Opened, OpenPC, HeldPC
  <1>4. Held'
    BY ProcsDisjoint, Bounds DEF IInv, TypeOK, ListenSocket, Held, Opened, OpenPC, HeldPC
  <1>5. AtName'
    BY ProcsDisjoint, Bounds DEF IInv, TypeOK, ListenSocket, AtName, Opened, Held, AtNamePC, OpenPC, HeldPC
  <1>6. Bound'
    BY ProcsDisjoint, Bounds DEF IInv, TypeOK, ListenSocket, Bound, PrePC
  <1>7. Entered'
    BY ProcsDisjoint, Bounds DEF IInv, TypeOK, ListenSocket, Entered, Entries, PrePC
  <1>8. Looks'
    BY ProcsDisjoint, Bounds DEF IInv, TypeOK, ListenSocket, Looks, PrePC, PastPC
  <1>9. Seen'
    BY ProcsDisjoint, Bounds DEF IInv, TypeOK, ListenSocket, Seen
  <1>10. QED
    BY <1>1, <1>2, <1>3, <1>4, <1>5, <1>6, <1>7, <1>8, <1>9 DEF IInv

LEMMA RegisterKeeps ==
  ASSUME IInv, NEW h \in Hosts, Register(h)
  PROVE  IInv'
  <1>1. TypeOK'
    BY ProcsDisjoint, Bounds DEF IInv, TypeOK, Register, WriteEntry, Entries
  <1>2. Attempts'
    BY ProcsDisjoint, Bounds DEF IInv, TypeOK, Register, WriteEntry, Attempts
  <1>3. Opened'
    BY ProcsDisjoint, Bounds DEF IInv, TypeOK, Register, WriteEntry, Opened, OpenPC, HeldPC
  <1>4. Held'
    BY ProcsDisjoint, Bounds DEF IInv, TypeOK, Register, WriteEntry, Held, Opened, OpenPC, HeldPC
  <1>5. AtName'
    BY ProcsDisjoint, Bounds DEF IInv, TypeOK, Register, WriteEntry, AtName, Opened, Held, AtNamePC, OpenPC, HeldPC
  <1>6. Bound'
    BY ProcsDisjoint, Bounds DEF IInv, TypeOK, Register, WriteEntry, Bound, PrePC
  <1>7. Entered'
    BY ProcsDisjoint, OneAtName DEF IInv, TypeOK, Register, WriteEntry, Entered, Entries, PrePC, AtNamePC
  <1>8. Looks'
    BY ProcsDisjoint, Bounds DEF IInv, TypeOK, Register, WriteEntry, Looks, PrePC, PastPC
  <1>9. Seen'
    BY ProcsDisjoint, Bounds DEF IInv, TypeOK, Register, WriteEntry, Seen
  <1>10. QED
    BY <1>1, <1>2, <1>3, <1>4, <1>5, <1>6, <1>7, <1>8, <1>9 DEF IInv

LEMMA CloseListenerKeeps ==
  ASSUME IInv, NEW h \in Hosts, CloseListener(h)
  PROVE  IInv'
  <1>1. TypeOK'
    BY ProcsDisjoint, Bounds DEF IInv, TypeOK, CloseListener, Entries
  <1>2. Attempts'
    BY ProcsDisjoint, Bounds DEF IInv, TypeOK, CloseListener, Attempts
  <1>3. Opened'
    BY ProcsDisjoint, Bounds DEF IInv, TypeOK, CloseListener, Opened, OpenPC, HeldPC
  <1>4. Held'
    BY ProcsDisjoint, Bounds DEF IInv, TypeOK, CloseListener, Held, Opened, OpenPC, HeldPC
  <1>5. AtName'
    BY ProcsDisjoint, Bounds DEF IInv, TypeOK, CloseListener, AtName, Opened, Held, AtNamePC, OpenPC, HeldPC
  <1>6. Bound'
    BY ProcsDisjoint, Bounds DEF IInv, TypeOK, CloseListener, Bound, PrePC
  <1>7. Entered'
    BY ProcsDisjoint, Bounds DEF IInv, TypeOK, CloseListener, Entered, Entries, PrePC
  <1>8. Looks'
    BY ProcsDisjoint, Bounds DEF IInv, TypeOK, CloseListener, Looks, PrePC, PastPC
  <1>9. Seen'
    BY ProcsDisjoint, Bounds DEF IInv, TypeOK, CloseListener, Seen
  <1>10. QED
    BY <1>1, <1>2, <1>3, <1>4, <1>5, <1>6, <1>7, <1>8, <1>9 DEF IInv

LEMMA UnlinkEntryKeeps ==
  ASSUME IInv, NEW h \in Hosts, UnlinkEntry(h)
  PROVE  IInv'
  <1>1. TypeOK'
    BY ProcsDisjoint, Bounds DEF IInv, TypeOK, UnlinkEntry, OwnsEntry, Entries
  <1>2. Attempts'
    BY ProcsDisjoint, Bounds DEF IInv, TypeOK, UnlinkEntry, OwnsEntry, Attempts
  <1>3. Opened'
    BY ProcsDisjoint, Bounds DEF IInv, TypeOK, UnlinkEntry, OwnsEntry, Opened, OpenPC, HeldPC
  <1>4. Held'
    BY ProcsDisjoint, Bounds DEF IInv, TypeOK, UnlinkEntry, OwnsEntry, Held, Opened, OpenPC, HeldPC
  <1>5. AtName'
    BY ProcsDisjoint, Bounds DEF IInv, TypeOK, UnlinkEntry, OwnsEntry, AtName, Opened, Held, AtNamePC, OpenPC, HeldPC
  <1>6. Bound'
    BY ProcsDisjoint, Bounds DEF IInv, TypeOK, UnlinkEntry, OwnsEntry, Bound, PrePC
  <1>7. Entered'
    BY ProcsDisjoint, OneAtName DEF IInv, TypeOK, UnlinkEntry, OwnsEntry, Entered, PrePC, AtNamePC
  <1>8. Looks'
    BY ProcsDisjoint, Bounds DEF IInv, TypeOK, UnlinkEntry, OwnsEntry, Looks, PrePC, PastPC
  <1>9. Seen'
    BY ProcsDisjoint, Bounds DEF IInv, TypeOK, UnlinkEntry, OwnsEntry, Seen
  <1>10. QED
    BY <1>1, <1>2, <1>3, <1>4, <1>5, <1>6, <1>7, <1>8, <1>9 DEF IInv

LEMMA UnlinkSocketKeeps ==
  ASSUME IInv, NEW h \in Hosts, UnlinkSocket(h)
  PROVE  IInv'
  <1>1. TypeOK'
    BY ProcsDisjoint, Bounds DEF IInv, TypeOK, UnlinkSocket, Entries
  <1>2. Attempts'
    BY ProcsDisjoint, Bounds DEF IInv, TypeOK, UnlinkSocket, Attempts
  <1>3. Opened'
    BY ProcsDisjoint, Bounds DEF IInv, TypeOK, UnlinkSocket, Opened, OpenPC, HeldPC
  <1>4. Held'
    BY ProcsDisjoint, Bounds DEF IInv, TypeOK, UnlinkSocket, Held, Opened, OpenPC, HeldPC
  <1>5. AtName'
    BY ProcsDisjoint, Bounds DEF IInv, TypeOK, UnlinkSocket, AtName, Opened, Held, AtNamePC, OpenPC, HeldPC
  <1>6. Bound'
    BY ProcsDisjoint, Bounds DEF IInv, TypeOK, UnlinkSocket, Bound, PrePC
  <1>7. Entered'
    BY ProcsDisjoint, Bounds DEF IInv, TypeOK, UnlinkSocket, Entered, Entries, PrePC
  <1>8. Looks'
    BY ProcsDisjoint, Bounds DEF IInv, TypeOK, UnlinkSocket, Looks, PrePC, PastPC
  <1>9. Seen'
    BY ProcsDisjoint, Bounds DEF IInv, TypeOK, UnlinkSocket, Seen
  <1>10. QED
    BY <1>1, <1>2, <1>3, <1>4, <1>5, <1>6, <1>7, <1>8, <1>9 DEF IInv

LEMMA HostChecksNameKeeps ==
  ASSUME IInv, NEW h \in Hosts, SameFile(h, "unname", "unlink", "unlock")
  PROVE  IInv'
  <1>1. TypeOK'
    BY ProcsDisjoint, Bounds DEF IInv, TypeOK, SameFile, Entries
  <1>2. Attempts'
    BY ProcsDisjoint, Bounds DEF IInv, TypeOK, SameFile, Attempts
  <1>3. Opened'
    BY ProcsDisjoint, Bounds DEF IInv, TypeOK, SameFile, Opened, OpenPC, HeldPC
  <1>4. Held'
    BY ProcsDisjoint, Bounds DEF IInv, TypeOK, SameFile, Held, Opened, OpenPC, HeldPC
  <1>5. AtName'
    BY ProcsDisjoint, Bounds DEF IInv, TypeOK, SameFile, AtName, Opened, Held, AtNamePC, OpenPC, HeldPC
  <1>6. Bound'
    BY ProcsDisjoint, Bounds DEF IInv, TypeOK, SameFile, Bound, PrePC
  <1>7. Entered'
    BY ProcsDisjoint, Bounds DEF IInv, TypeOK, SameFile, Entered, Entries, PrePC
  <1>8. Looks'
    BY ProcsDisjoint, Bounds DEF IInv, TypeOK, SameFile, Looks, PrePC, PastPC
  <1>9. Seen'
    BY ProcsDisjoint, Bounds DEF IInv, TypeOK, SameFile, Seen
  <1>10. QED
    BY <1>1, <1>2, <1>3, <1>4, <1>5, <1>6, <1>7, <1>8, <1>9 DEF IInv

LEMMA HostUnlinksKeeps ==
  ASSUME IInv, NEW h \in Hosts, UnlinkLock(h, "unlink", "unlock")
  PROVE  IInv'
  <1>1. TypeOK'
    BY ProcsDisjoint, Bounds DEF IInv, TypeOK, UnlinkLock, Entries
  <1>2. Attempts'
    BY ProcsDisjoint, Bounds DEF IInv, TypeOK, UnlinkLock, Attempts
  <1>3. Opened'
    BY ProcsDisjoint, Bounds DEF IInv, TypeOK, UnlinkLock, Opened, OpenPC, HeldPC
  <1>4. Held'
    BY ProcsDisjoint, Bounds DEF IInv, TypeOK, UnlinkLock, Held, Opened, OpenPC, HeldPC
  <1>5. AtName'
    BY ProcsDisjoint, Bounds DEF IInv, TypeOK, UnlinkLock, AtName, Opened, Held, AtNamePC, OpenPC, HeldPC
  <1>6. Bound'
    BY ProcsDisjoint, Bounds DEF IInv, TypeOK, UnlinkLock, Bound, PrePC
  <1>7. Entered'
    BY ProcsDisjoint, Bounds DEF IInv, TypeOK, UnlinkLock, Entered, Entries, PrePC
  <1>8. Looks'
    BY ProcsDisjoint, Bounds DEF IInv, TypeOK, UnlinkLock, Looks, PrePC, PastPC
  <1>9. Seen'
    BY ProcsDisjoint, Bounds DEF IInv, TypeOK, UnlinkLock, Seen
  <1>10. QED
    BY <1>1, <1>2, <1>3, <1>4, <1>5, <1>6, <1>7, <1>8, <1>9 DEF IInv

LEMMA ExitKeeps ==
  ASSUME IInv, NEW h \in Hosts, Exit(h)
  PROVE  IInv'
  <1>1. TypeOK'
    <2>1. lockAt' \in Files \cup {NoFile} /\ youngLock' \subseteq Files
      BY ProcsDisjoint, Bounds DEF IInv, TypeOK, Exit, Ends
    <2>2. flock' \in [Files -> Procs \cup {Nobody}]
      BY ProcsDisjoint, Bounds DEF IInv, TypeOK, Exit, Ends
    <2>3. pc' \in [Procs -> HostPC \cup ScanPC \cup SweepPC]
      BY ProcsDisjoint, Bounds DEF IInv, TypeOK, Exit, Ends
    <2>4. \A x \in Hosts : pc'[x] \in HostPC
      BY ProcsDisjoint, Bounds DEF IInv, TypeOK, Exit, Ends
    <2>5. (\A x \in Scanners : pc'[x] \in ScanPC) /\ (\A x \in Sweepers : pc'[x] \in SweepPC)
      BY ProcsDisjoint, Bounds DEF IInv, TypeOK, Exit, Ends
    <2>6. fd' \in [Procs -> Files \cup {NoFile}]
      BY ProcsDisjoint, Bounds DEF IInv, TypeOK, Exit, Ends
    <2>7. tries' \in [Hosts -> 0..LockTries] /\ marked' \subseteq Hosts /\ told' \in [Hosts -> Entries \cup {Nobody}]
      BY ProcsDisjoint, Bounds DEF IInv, TypeOK, Exit, Ends
    <2>8. sockAt' \in Hosts \cup {Nobody} /\ sockAge' \in {"young", "old"} /\ listening' \subseteq Hosts
      BY ProcsDisjoint, Bounds DEF IInv, TypeOK, Exit, Ends
    <2>9. QED
      BY <2>1, <2>2, <2>3, <2>4, <2>5, <2>6, <2>7, <2>8 DEF IInv, TypeOK, Exit, Ends
  <1>2. Attempts'
    BY ProcsDisjoint, Bounds DEF IInv, TypeOK, Exit, Ends, Attempts
  <1>3. Opened'
    BY ProcsDisjoint, Bounds DEF IInv, TypeOK, Exit, Ends, Opened, OpenPC, HeldPC
  <1>4. Held'
    BY ProcsDisjoint, Bounds DEF IInv, TypeOK, Exit, Ends, Held, Opened, OpenPC, HeldPC
  <1>5. AtName'
    BY ProcsDisjoint, Bounds DEF IInv, TypeOK, Exit, Ends, AtName, Opened, Held, AtNamePC, OpenPC, HeldPC
  <1>6. Bound'
    BY ProcsDisjoint, Bounds DEF IInv, TypeOK, Exit, Ends, Bound, PrePC
  <1>7. Entered'
    BY ProcsDisjoint, Bounds DEF IInv, TypeOK, Exit, Ends, Entered, Entries, PrePC
  <1>8. Looks'
    BY ProcsDisjoint, Bounds DEF IInv, TypeOK, Exit, Ends, Looks, PrePC, PastPC
  <1>9. Seen'
    BY ProcsDisjoint, Bounds DEF IInv, TypeOK, Exit, Ends, Seen
  <1>10. QED
    BY <1>1, <1>2, <1>3, <1>4, <1>5, <1>6, <1>7, <1>8, <1>9 DEF IInv

LEMMA UpdateKeeps ==
  ASSUME IInv, NEW h \in Hosts, Update(h)
  PROVE  IInv'
  <1>1. TypeOK'
    BY ProcsDisjoint, Bounds DEF IInv, TypeOK, Update, WriteEntry, OwnsEntry, Entries
  <1>2. Attempts'
    BY ProcsDisjoint, Bounds DEF IInv, TypeOK, Update, WriteEntry, OwnsEntry, Attempts
  <1>3. Opened'
    BY ProcsDisjoint, Bounds DEF IInv, TypeOK, Update, WriteEntry, OwnsEntry, Opened, OpenPC, HeldPC
  <1>4. Held'
    BY ProcsDisjoint, Bounds DEF IInv, TypeOK, Update, WriteEntry, OwnsEntry, Held, Opened, OpenPC, HeldPC
  <1>5. AtName'
    BY ProcsDisjoint, Bounds DEF IInv, TypeOK, Update, WriteEntry, OwnsEntry, AtName, Opened, Held, AtNamePC, OpenPC, HeldPC
  <1>6. Bound'
    BY ProcsDisjoint, Bounds DEF IInv, TypeOK, Update, WriteEntry, OwnsEntry, Bound, PrePC
  <1>7. Entered'
    BY ProcsDisjoint, Bounds DEF IInv, TypeOK, Update, WriteEntry, OwnsEntry, Entered, Entries, PrePC
  <1>8. Looks'
    BY ProcsDisjoint, Bounds DEF IInv, TypeOK, Update, WriteEntry, OwnsEntry, Looks, PrePC, PastPC
  <1>9. Seen'
    BY ProcsDisjoint, Bounds DEF IInv, TypeOK, Update, WriteEntry, OwnsEntry, Seen
  <1>10. QED
    BY <1>1, <1>2, <1>3, <1>4, <1>5, <1>6, <1>7, <1>8, <1>9 DEF IInv

LEMMA MarkStoppingKeeps ==
  ASSUME IInv, NEW h \in Hosts, MarkStopping(h)
  PROVE  IInv'
  <1>1. TypeOK'
    BY ProcsDisjoint, Bounds DEF IInv, TypeOK, MarkStopping, WriteEntry, OwnsEntry, Entries
  <1>2. Attempts'
    BY ProcsDisjoint, Bounds DEF IInv, TypeOK, MarkStopping, WriteEntry, OwnsEntry, Attempts
  <1>3. Opened'
    BY ProcsDisjoint, Bounds DEF IInv, TypeOK, MarkStopping, WriteEntry, OwnsEntry, Opened, OpenPC, HeldPC
  <1>4. Held'
    BY ProcsDisjoint, Bounds DEF IInv, TypeOK, MarkStopping, WriteEntry, OwnsEntry, Held, Opened, OpenPC, HeldPC
  <1>5. AtName'
    BY ProcsDisjoint, Bounds DEF IInv, TypeOK, MarkStopping, WriteEntry, OwnsEntry, AtName, Opened, Held, AtNamePC, OpenPC, HeldPC
  <1>6. Bound'
    BY ProcsDisjoint, Bounds DEF IInv, TypeOK, MarkStopping, WriteEntry, OwnsEntry, Bound, PrePC
  <1>7. Entered'
    BY ProcsDisjoint, Bounds DEF IInv, TypeOK, MarkStopping, WriteEntry, OwnsEntry, Entered, Entries, PrePC
  <1>8. Looks'
    BY ProcsDisjoint, Bounds DEF IInv, TypeOK, MarkStopping, WriteEntry, OwnsEntry, Looks, PrePC, PastPC
  <1>9. Seen'
    BY ProcsDisjoint, Bounds DEF IInv, TypeOK, MarkStopping, WriteEntry, OwnsEntry, Seen
  <1>10. QED
    BY <1>1, <1>2, <1>3, <1>4, <1>5, <1>6, <1>7, <1>8, <1>9 DEF IInv

LEMMA CloseKeeps ==
  ASSUME IInv, NEW h \in Hosts, Close(h)
  PROVE  IInv'
  <1>1. TypeOK'
    BY ProcsDisjoint, Bounds DEF IInv, TypeOK, Close, Forgets, Entries
  <1>2. Attempts'
    BY ProcsDisjoint, Bounds DEF IInv, TypeOK, Close, Forgets, Attempts
  <1>3. Opened'
    BY ProcsDisjoint, Bounds DEF IInv, TypeOK, Close, Forgets, Opened, OpenPC, HeldPC
  <1>4. Held'
    BY ProcsDisjoint, Bounds DEF IInv, TypeOK, Close, Forgets, Held, Opened, OpenPC, HeldPC
  <1>5. AtName'
    BY ProcsDisjoint, Bounds DEF IInv, TypeOK, Close, Forgets, AtName, Opened, Held, AtNamePC, OpenPC, HeldPC
  <1>6. Bound'
    BY ProcsDisjoint, Bounds DEF IInv, TypeOK, Close, Forgets, Bound, PrePC
  <1>7. Entered'
    BY ProcsDisjoint, Bounds DEF IInv, TypeOK, Close, Forgets, Entered, Entries, PrePC
  <1>8. Looks'
    BY ProcsDisjoint, Bounds DEF IInv, TypeOK, Close, Forgets, Looks, PrePC, PastPC
  <1>9. Seen'
    BY ProcsDisjoint, Bounds DEF IInv, TypeOK, Close, Forgets, Seen
  <1>10. QED
    BY <1>1, <1>2, <1>3, <1>4, <1>5, <1>6, <1>7, <1>8, <1>9 DEF IInv

LEMMA KillHostKeeps ==
  ASSUME IInv, NEW h \in Hosts, KillHost(h)
  PROVE  IInv'
  <1>1. TypeOK'
    BY ProcsDisjoint, Bounds DEF IInv, TypeOK, KillHost, Dies, Forgets, Ends, Entries
  <1>2. Attempts'
    BY ProcsDisjoint, Bounds DEF IInv, TypeOK, KillHost, Dies, Forgets, Ends, Attempts
  <1>3. Opened'
    BY ProcsDisjoint, Bounds DEF IInv, TypeOK, KillHost, Dies, Forgets, Ends, Opened, OpenPC, HeldPC
  <1>4. Held'
    BY ProcsDisjoint, Bounds DEF IInv, TypeOK, KillHost, Dies, Forgets, Ends, Held, Opened, OpenPC, HeldPC
  <1>5. AtName'
    BY ProcsDisjoint, Bounds DEF IInv, TypeOK, KillHost, Dies, Forgets, Ends, AtName, Opened, Held, AtNamePC, OpenPC, HeldPC
  <1>6. Bound'
    BY ProcsDisjoint, Bounds DEF IInv, TypeOK, KillHost, Dies, Forgets, Ends, Bound, PrePC
  <1>7. Entered'
    BY ProcsDisjoint, Bounds DEF IInv, TypeOK, KillHost, Dies, Forgets, Ends, Entered, Entries, PrePC
  <1>8. Looks'
    BY ProcsDisjoint, Bounds DEF IInv, TypeOK, KillHost, Dies, Forgets, Ends, Looks, PrePC, PastPC
  <1>9. Seen'
    BY ProcsDisjoint, Bounds DEF IInv, TypeOK, KillHost, Dies, Forgets, Ends, Seen
  <1>10. QED
    BY <1>1, <1>2, <1>3, <1>4, <1>5, <1>6, <1>7, <1>8, <1>9 DEF IInv

LEMMA ListKeeps ==
  ASSUME IInv, NEW s \in Scanners, List(s)
  PROVE  IInv'
  <1>1. TypeOK'
    BY ProcsDisjoint, Bounds DEF IInv, TypeOK, List, Registered, Entries
  <1>2. Attempts'
    BY ProcsDisjoint, Bounds DEF IInv, TypeOK, List, Registered, Attempts
  <1>3. Opened'
    BY ProcsDisjoint, Bounds DEF IInv, TypeOK, List, Registered, Opened, OpenPC, HeldPC
  <1>4. Held'
    BY ProcsDisjoint, Bounds DEF IInv, TypeOK, List, Registered, Held, Opened, OpenPC, HeldPC
  <1>5. AtName'
    BY ProcsDisjoint, Bounds DEF IInv, TypeOK, List, Registered, AtName, Opened, Held, AtNamePC, OpenPC, HeldPC
  <1>6. Bound'
    BY ProcsDisjoint, Bounds DEF IInv, TypeOK, List, Registered, Bound, PrePC
  <1>7. Entered'
    BY ProcsDisjoint, Bounds DEF IInv, TypeOK, List, Registered, Entered, Entries, PrePC
  <1>8. Looks'
    BY ProcsDisjoint, Bounds DEF IInv, TypeOK, List, Registered, Looks, PrePC, PastPC
  <1>9. Seen'
    BY ProcsDisjoint, BoundHasEntry DEF IInv, TypeOK, List, Registered, Seen
  <1>10. QED
    BY <1>1, <1>2, <1>3, <1>4, <1>5, <1>6, <1>7, <1>8, <1>9 DEF IInv

LEMMA ProbeOpenKeeps ==
  ASSUME IInv, NEW s \in Scanners, ProbeOpen(s)
  PROVE  IInv'
  <1>1. TypeOK'
    BY ProcsDisjoint, Bounds DEF IInv, TypeOK, ProbeOpen, Answers, Entries
  <1>2. Attempts'
    BY ProcsDisjoint, Bounds DEF IInv, TypeOK, ProbeOpen, Answers, Attempts
  <1>3. Opened'
    BY ProcsDisjoint, Bounds DEF IInv, TypeOK, ProbeOpen, Answers, Opened, OpenPC, HeldPC
  <1>4. Held'
    BY ProcsDisjoint, Bounds DEF IInv, TypeOK, ProbeOpen, Answers, Held, Opened, OpenPC, HeldPC
  <1>5. AtName'
    BY ProcsDisjoint, Bounds DEF IInv, TypeOK, ProbeOpen, Answers, AtName, Opened, Held, AtNamePC, OpenPC, HeldPC
  <1>6. Bound'
    BY ProcsDisjoint, Bounds DEF IInv, TypeOK, ProbeOpen, Answers, Bound, PrePC
  <1>7. Entered'
    BY ProcsDisjoint, Bounds DEF IInv, TypeOK, ProbeOpen, Answers, Entered, Entries, PrePC
  <1>8. Looks'
    BY ProcsDisjoint, Bounds DEF IInv, TypeOK, ProbeOpen, Answers, Looks, PrePC, PastPC
  <1>9. Seen'
    BY ProcsDisjoint, BoundHasEntry DEF IInv, TypeOK, ProbeOpen, Answers, Seen
  <1>10. QED
    BY <1>1, <1>2, <1>3, <1>4, <1>5, <1>6, <1>7, <1>8, <1>9 DEF IInv

LEMMA ScanTriesKeeps ==
  ASSUME IInv, NEW s \in Scanners, TryLock(s, "try", "check", "read")
  PROVE  IInv'
  <1>1. TypeOK'
    BY ProcsDisjoint, Bounds DEF IInv, TypeOK, TryLock, Entries
  <1>2. Attempts'
    BY ProcsDisjoint, Bounds DEF IInv, TypeOK, TryLock, Attempts
  <1>3. Opened'
    BY ProcsDisjoint, Bounds DEF IInv, TypeOK, TryLock, Opened, OpenPC, HeldPC
  <1>4. Held'
    BY ProcsDisjoint, Bounds DEF IInv, TypeOK, TryLock, Held, Opened, OpenPC, HeldPC
  <1>5. AtName'
    BY ProcsDisjoint, Bounds DEF IInv, TypeOK, TryLock, AtName, Opened, Held, AtNamePC, OpenPC, HeldPC
  <1>6. Bound'
    BY ProcsDisjoint, Bounds DEF IInv, TypeOK, TryLock, Bound, PrePC
  <1>7. Entered'
    BY ProcsDisjoint, Bounds DEF IInv, TypeOK, TryLock, Entered, Entries, PrePC
  <1>8. Looks'
    BY ProcsDisjoint, Bounds DEF IInv, TypeOK, TryLock, Looks, PrePC, PastPC
  <1>9. Seen'
    BY ProcsDisjoint, BoundHasEntry DEF IInv, TypeOK, TryLock, Seen
  <1>10. QED
    BY <1>1, <1>2, <1>3, <1>4, <1>5, <1>6, <1>7, <1>8, <1>9 DEF IInv

LEMMA ReadEntryKeeps ==
  ASSUME IInv, NEW s \in Scanners, ReadEntry(s)
  PROVE  IInv'
  <1>1. TypeOK'
    BY ProcsDisjoint, Bounds DEF IInv, TypeOK, ReadEntry, Answers, Entries
  <1>2. Attempts'
    BY ProcsDisjoint, Bounds DEF IInv, TypeOK, ReadEntry, Answers, Attempts
  <1>3. Opened'
    BY ProcsDisjoint, Bounds DEF IInv, TypeOK, ReadEntry, Answers, Opened, OpenPC, HeldPC
  <1>4. Held'
    BY ProcsDisjoint, Bounds DEF IInv, TypeOK, ReadEntry, Answers, Held, Opened, OpenPC, HeldPC
  <1>5. AtName'
    BY ProcsDisjoint, Bounds DEF IInv, TypeOK, ReadEntry, Answers, AtName, Opened, Held, AtNamePC, OpenPC, HeldPC
  <1>6. Bound'
    BY ProcsDisjoint, Bounds DEF IInv, TypeOK, ReadEntry, Answers, Bound, PrePC
  <1>7. Entered'
    BY ProcsDisjoint, Bounds DEF IInv, TypeOK, ReadEntry, Answers, Entered, Entries, PrePC
  <1>8. Looks'
    BY ProcsDisjoint, Bounds DEF IInv, TypeOK, ReadEntry, Answers, Looks, PrePC, PastPC
  <1>9. Seen'
    BY ProcsDisjoint, BoundHasEntry DEF IInv, TypeOK, ReadEntry, Answers, Seen, Entries
  <1>10. QED
    BY <1>1, <1>2, <1>3, <1>4, <1>5, <1>6, <1>7, <1>8, <1>9 DEF IInv

LEMMA TryAgainKeeps ==
  ASSUME IInv, NEW s \in Scanners, TryAgain(s)
  PROVE  IInv'
  <1>1. TypeOK'
    BY ProcsDisjoint, Bounds DEF IInv, TypeOK, TryAgain, Answers, Entries
  <1>2. Attempts'
    BY ProcsDisjoint, Bounds DEF IInv, TypeOK, TryAgain, Answers, Attempts
  <1>3. Opened'
    BY ProcsDisjoint, Bounds DEF IInv, TypeOK, TryAgain, Answers, Opened, OpenPC, HeldPC
  <1>4. Held'
    BY ProcsDisjoint, Bounds DEF IInv, TypeOK, TryAgain, Answers, Held, Opened, OpenPC, HeldPC
  <1>5. AtName'
    BY ProcsDisjoint, Bounds DEF IInv, TypeOK, TryAgain, Answers, AtName, Opened, Held, AtNamePC, OpenPC, HeldPC
  <1>6. Bound'
    BY ProcsDisjoint, Bounds DEF IInv, TypeOK, TryAgain, Answers, Bound, PrePC
  <1>7. Entered'
    BY ProcsDisjoint, Bounds DEF IInv, TypeOK, TryAgain, Answers, Entered, Entries, PrePC
  <1>8. Looks'
    BY ProcsDisjoint, Bounds DEF IInv, TypeOK, TryAgain, Answers, Looks, PrePC, PastPC
  <1>9. Seen'
    BY ProcsDisjoint, BoundHasEntry DEF IInv, TypeOK, TryAgain, Answers, Seen
  <1>10. QED
    BY <1>1, <1>2, <1>3, <1>4, <1>5, <1>6, <1>7, <1>8, <1>9 DEF IInv

LEMMA ScanChecksNameKeeps ==
  ASSUME IInv, NEW s \in Scanners, SameFile(s, "check", "sweepentry", "letgo")
  PROVE  IInv'
  <1>1. TypeOK'
    BY ProcsDisjoint, Bounds DEF IInv, TypeOK, SameFile, Entries
  <1>2. Attempts'
    BY ProcsDisjoint, Bounds DEF IInv, TypeOK, SameFile, Attempts
  <1>3. Opened'
    BY ProcsDisjoint, Bounds DEF IInv, TypeOK, SameFile, Opened, OpenPC, HeldPC
  <1>4. Held'
    BY ProcsDisjoint, Bounds DEF IInv, TypeOK, SameFile, Held, Opened, OpenPC, HeldPC
  <1>5. AtName'
    BY ProcsDisjoint, Bounds DEF IInv, TypeOK, SameFile, AtName, Opened, Held, AtNamePC, OpenPC, HeldPC
  <1>6. Bound'
    BY ProcsDisjoint, Bounds DEF IInv, TypeOK, SameFile, Bound, PrePC
  <1>7. Entered'
    BY ProcsDisjoint, Bounds DEF IInv, TypeOK, SameFile, Entered, Entries, PrePC
  <1>8. Looks'
    BY ProcsDisjoint, Bounds DEF IInv, TypeOK, SameFile, Looks, PrePC, PastPC
  <1>9. Seen'
    BY ProcsDisjoint, Bounds DEF IInv, TypeOK, SameFile, Seen
  <1>10. QED
    BY <1>1, <1>2, <1>3, <1>4, <1>5, <1>6, <1>7, <1>8, <1>9 DEF IInv

LEMMA SweepEntryKeeps ==
  ASSUME IInv, NEW s \in Scanners, SweepEntry(s)
  PROVE  IInv'
  <1>1. TypeOK'
    BY ProcsDisjoint, Bounds DEF IInv, TypeOK, SweepEntry, Entries
  <1>2. Attempts'
    BY ProcsDisjoint, Bounds DEF IInv, TypeOK, SweepEntry, Attempts
  <1>3. Opened'
    BY ProcsDisjoint, Bounds DEF IInv, TypeOK, SweepEntry, Opened, OpenPC, HeldPC
  <1>4. Held'
    BY ProcsDisjoint, Bounds DEF IInv, TypeOK, SweepEntry, Held, Opened, OpenPC, HeldPC
  <1>5. AtName'
    BY ProcsDisjoint, Bounds DEF IInv, TypeOK, SweepEntry, AtName, Opened, Held, AtNamePC, OpenPC, HeldPC
  <1>6. Bound'
    BY ProcsDisjoint, Bounds DEF IInv, TypeOK, SweepEntry, Bound, PrePC
  <1>7. Entered'
    BY ProcsDisjoint, OneAtName DEF IInv, TypeOK, SweepEntry, Entered, PrePC, AtNamePC
  <1>8. Looks'
    BY ProcsDisjoint, Bounds DEF IInv, TypeOK, SweepEntry, Looks, PrePC, PastPC
  <1>9. Seen'
    BY ProcsDisjoint, Bounds DEF IInv, TypeOK, SweepEntry, Seen
  <1>10. QED
    BY <1>1, <1>2, <1>3, <1>4, <1>5, <1>6, <1>7, <1>8, <1>9 DEF IInv

LEMMA ScanUnlinksKeeps ==
  ASSUME IInv, NEW s \in Scanners, UnlinkLock(s, "sweeplock", "letgo")
  PROVE  IInv'
  <1>1. TypeOK'
    BY ProcsDisjoint, Bounds DEF IInv, TypeOK, UnlinkLock, Entries
  <1>2. Attempts'
    BY ProcsDisjoint, Bounds DEF IInv, TypeOK, UnlinkLock, Attempts
  <1>3. Opened'
    BY ProcsDisjoint, Bounds DEF IInv, TypeOK, UnlinkLock, Opened, OpenPC, HeldPC
  <1>4. Held'
    BY ProcsDisjoint, Bounds DEF IInv, TypeOK, UnlinkLock, Held, Opened, OpenPC, HeldPC
  <1>5. AtName'
    BY ProcsDisjoint, Bounds DEF IInv, TypeOK, UnlinkLock, AtName, Opened, Held, AtNamePC, OpenPC, HeldPC
  <1>6. Bound'
    BY ProcsDisjoint, Bounds DEF IInv, TypeOK, UnlinkLock, Bound, PrePC
  <1>7. Entered'
    BY ProcsDisjoint, Bounds DEF IInv, TypeOK, UnlinkLock, Entered, Entries, PrePC
  <1>8. Looks'
    BY ProcsDisjoint, Bounds DEF IInv, TypeOK, UnlinkLock, Looks, PrePC, PastPC
  <1>9. Seen'
    BY ProcsDisjoint, Bounds DEF IInv, TypeOK, UnlinkLock, Seen
  <1>10. QED
    BY <1>1, <1>2, <1>3, <1>4, <1>5, <1>6, <1>7, <1>8, <1>9 DEF IInv

LEMMA LetGoKeeps ==
  ASSUME IInv, NEW s \in Scanners, LetGo(s)
  PROVE  IInv'
  <1>1. TypeOK'
    BY ProcsDisjoint, Bounds DEF IInv, TypeOK, LetGo, Answers, Entries
  <1>2. Attempts'
    BY ProcsDisjoint, Bounds DEF IInv, TypeOK, LetGo, Answers, Attempts
  <1>3. Opened'
    BY ProcsDisjoint, Bounds DEF IInv, TypeOK, LetGo, Answers, Opened, OpenPC, HeldPC
  <1>4. Held'
    BY ProcsDisjoint, Bounds DEF IInv, TypeOK, LetGo, Answers, Held, Opened, OpenPC, HeldPC
  <1>5. AtName'
    BY ProcsDisjoint, Bounds DEF IInv, TypeOK, LetGo, Answers, AtName, Opened, Held, AtNamePC, OpenPC, HeldPC
  <1>6. Bound'
    BY ProcsDisjoint, Bounds DEF IInv, TypeOK, LetGo, Answers, Bound, PrePC
  <1>7. Entered'
    BY ProcsDisjoint, Bounds DEF IInv, TypeOK, LetGo, Answers, Entered, Entries, PrePC
  <1>8. Looks'
    BY ProcsDisjoint, Bounds DEF IInv, TypeOK, LetGo, Answers, Looks, PrePC, PastPC
  <1>9. Seen'
    BY ProcsDisjoint, Bounds DEF IInv, TypeOK, LetGo, Answers, Seen
  <1>10. QED
    BY <1>1, <1>2, <1>3, <1>4, <1>5, <1>6, <1>7, <1>8, <1>9 DEF IInv

LEMMA RestKeeps ==
  ASSUME IInv, NEW s \in Scanners, Rest(s)
  PROVE  IInv'
  <1>1. TypeOK'
    BY ProcsDisjoint, Bounds DEF IInv, TypeOK, Rest, Entries
  <1>2. Attempts'
    BY ProcsDisjoint, Bounds DEF IInv, TypeOK, Rest, Attempts
  <1>3. Opened'
    BY ProcsDisjoint, Bounds DEF IInv, TypeOK, Rest, Opened, OpenPC, HeldPC
  <1>4. Held'
    BY ProcsDisjoint, Bounds DEF IInv, TypeOK, Rest, Held, Opened, OpenPC, HeldPC
  <1>5. AtName'
    BY ProcsDisjoint, Bounds DEF IInv, TypeOK, Rest, AtName, Opened, Held, AtNamePC, OpenPC, HeldPC
  <1>6. Bound'
    BY ProcsDisjoint, Bounds DEF IInv, TypeOK, Rest, Bound, PrePC
  <1>7. Entered'
    BY ProcsDisjoint, Bounds DEF IInv, TypeOK, Rest, Entered, Entries, PrePC
  <1>8. Looks'
    BY ProcsDisjoint, Bounds DEF IInv, TypeOK, Rest, Looks, PrePC, PastPC
  <1>9. Seen'
    BY ProcsDisjoint, Bounds DEF IInv, TypeOK, Rest, Seen
  <1>10. QED
    BY <1>1, <1>2, <1>3, <1>4, <1>5, <1>6, <1>7, <1>8, <1>9 DEF IInv

LEMMA ListOrphansKeeps ==
  ASSUME IInv, NEW o \in Sweepers, ListOrphans(o)
  PROVE  IInv'
  <1>1. TypeOK'
    BY ProcsDisjoint, Bounds DEF IInv, TypeOK, ListOrphans, Entries
  <1>2. Attempts'
    BY ProcsDisjoint, Bounds DEF IInv, TypeOK, ListOrphans, Attempts
  <1>3. Opened'
    BY ProcsDisjoint, Bounds DEF IInv, TypeOK, ListOrphans, Opened, OpenPC, HeldPC
  <1>4. Held'
    BY ProcsDisjoint, Bounds DEF IInv, TypeOK, ListOrphans, Held, Opened, OpenPC, HeldPC
  <1>5. AtName'
    BY ProcsDisjoint, Bounds DEF IInv, TypeOK, ListOrphans, AtName, Opened, Held, AtNamePC, OpenPC, HeldPC
  <1>6. Bound'
    BY ProcsDisjoint, Bounds DEF IInv, TypeOK, ListOrphans, Bound, PrePC
  <1>7. Entered'
    BY ProcsDisjoint, Bounds DEF IInv, TypeOK, ListOrphans, Entered, Entries, PrePC
  <1>8. Looks'
    BY ProcsDisjoint, Bounds DEF IInv, TypeOK, ListOrphans, Looks, PrePC, PastPC
  <1>9. Seen'
    BY ProcsDisjoint, Bounds DEF IInv, TypeOK, ListOrphans, Seen
  <1>10. QED
    BY <1>1, <1>2, <1>3, <1>4, <1>5, <1>6, <1>7, <1>8, <1>9 DEF IInv

LEMMA OrphanOpensKeeps ==
  ASSUME IInv, NEW o \in Sweepers, OpenHeld(o, "oopen", "oage", "socket")
  PROVE  IInv'
  <1>1. TypeOK'
    BY ProcsDisjoint, Bounds DEF IInv, TypeOK, OpenHeld, Entries
  <1>2. Attempts'
    BY ProcsDisjoint, Bounds DEF IInv, TypeOK, OpenHeld, Attempts
  <1>3. Opened'
    BY ProcsDisjoint, Bounds DEF IInv, TypeOK, OpenHeld, Opened, OpenPC, HeldPC
  <1>4. Held'
    BY ProcsDisjoint, Bounds DEF IInv, TypeOK, OpenHeld, Held, Opened, OpenPC, HeldPC
  <1>5. AtName'
    BY ProcsDisjoint, Bounds DEF IInv, TypeOK, OpenHeld, AtName, Opened, Held, AtNamePC, OpenPC, HeldPC
  <1>6. Bound'
    BY ProcsDisjoint, Bounds DEF IInv, TypeOK, OpenHeld, Bound, PrePC
  <1>7. Entered'
    BY ProcsDisjoint, Bounds DEF IInv, TypeOK, OpenHeld, Entered, Entries, PrePC
  <1>8. Looks'
    BY ProcsDisjoint, Bounds DEF IInv, TypeOK, OpenHeld, Looks, PrePC, PastPC
  <1>9. Seen'
    BY ProcsDisjoint, Bounds DEF IInv, TypeOK, OpenHeld, Seen
  <1>10. QED
    BY <1>1, <1>2, <1>3, <1>4, <1>5, <1>6, <1>7, <1>8, <1>9 DEF IInv

LEMMA OrphanAgesKeeps ==
  ASSUME IInv, NEW o \in Sweepers, LockAge(o, "oage", "otry", "socket")
  PROVE  IInv'
  <1>1. TypeOK'
    BY ProcsDisjoint, Bounds DEF IInv, TypeOK, LockAge, Entries
  <1>2. Attempts'
    BY ProcsDisjoint, Bounds DEF IInv, TypeOK, LockAge, Attempts
  <1>3. Opened'
    BY ProcsDisjoint, Bounds DEF IInv, TypeOK, LockAge, Opened, OpenPC, HeldPC
  <1>4. Held'
    BY ProcsDisjoint, Bounds DEF IInv, TypeOK, LockAge, Held, Opened, OpenPC, HeldPC
  <1>5. AtName'
    BY ProcsDisjoint, Bounds DEF IInv, TypeOK, LockAge, AtName, Opened, Held, AtNamePC, OpenPC, HeldPC
  <1>6. Bound'
    BY ProcsDisjoint, Bounds DEF IInv, TypeOK, LockAge, Bound, PrePC
  <1>7. Entered'
    BY ProcsDisjoint, Bounds DEF IInv, TypeOK, LockAge, Entered, Entries, PrePC
  <1>8. Looks'
    BY ProcsDisjoint, Bounds DEF IInv, TypeOK, LockAge, Looks, PrePC, PastPC
  <1>9. Seen'
    BY ProcsDisjoint, Bounds DEF IInv, TypeOK, LockAge, Seen
  <1>10. QED
    BY <1>1, <1>2, <1>3, <1>4, <1>5, <1>6, <1>7, <1>8, <1>9 DEF IInv

LEMMA OrphanTriesKeeps ==
  ASSUME IInv, NEW o \in Sweepers, TryOrLeave(o, "otry", "ocheck", "socket")
  PROVE  IInv'
  <1>1. TypeOK'
    BY ProcsDisjoint, Bounds DEF IInv, TypeOK, TryOrLeave, Entries
  <1>2. Attempts'
    BY ProcsDisjoint, Bounds DEF IInv, TypeOK, TryOrLeave, Attempts
  <1>3. Opened'
    BY ProcsDisjoint, Bounds DEF IInv, TypeOK, TryOrLeave, Opened, OpenPC, HeldPC
  <1>4. Held'
    BY ProcsDisjoint, Bounds DEF IInv, TypeOK, TryOrLeave, Held, Opened, OpenPC, HeldPC
  <1>5. AtName'
    BY ProcsDisjoint, Bounds DEF IInv, TypeOK, TryOrLeave, AtName, Opened, Held, AtNamePC, OpenPC, HeldPC
  <1>6. Bound'
    BY ProcsDisjoint, Bounds DEF IInv, TypeOK, TryOrLeave, Bound, PrePC
  <1>7. Entered'
    BY ProcsDisjoint, Bounds DEF IInv, TypeOK, TryOrLeave, Entered, Entries, PrePC
  <1>8. Looks'
    BY ProcsDisjoint, Bounds DEF IInv, TypeOK, TryOrLeave, Looks, PrePC, PastPC
  <1>9. Seen'
    BY ProcsDisjoint, Bounds DEF IInv, TypeOK, TryOrLeave, Seen
  <1>10. QED
    BY <1>1, <1>2, <1>3, <1>4, <1>5, <1>6, <1>7, <1>8, <1>9 DEF IInv

LEMMA OrphanChecksNameKeeps ==
  ASSUME IInv, NEW o \in Sweepers, SameFile(o, "ocheck", "oentry", "oletgo")
  PROVE  IInv'
  <1>1. TypeOK'
    BY ProcsDisjoint, Bounds DEF IInv, TypeOK, SameFile, Entries
  <1>2. Attempts'
    BY ProcsDisjoint, Bounds DEF IInv, TypeOK, SameFile, Attempts
  <1>3. Opened'
    BY ProcsDisjoint, Bounds DEF IInv, TypeOK, SameFile, Opened, OpenPC, HeldPC
  <1>4. Held'
    BY ProcsDisjoint, Bounds DEF IInv, TypeOK, SameFile, Held, Opened, OpenPC, HeldPC
  <1>5. AtName'
    BY ProcsDisjoint, Bounds DEF IInv, TypeOK, SameFile, AtName, Opened, Held, AtNamePC, OpenPC, HeldPC
  <1>6. Bound'
    BY ProcsDisjoint, Bounds DEF IInv, TypeOK, SameFile, Bound, PrePC
  <1>7. Entered'
    BY ProcsDisjoint, Bounds DEF IInv, TypeOK, SameFile, Entered, Entries, PrePC
  <1>8. Looks'
    BY ProcsDisjoint, Bounds DEF IInv, TypeOK, SameFile, Looks, PrePC, PastPC
  <1>9. Seen'
    BY ProcsDisjoint, Bounds DEF IInv, TypeOK, SameFile, Seen
  <1>10. QED
    BY <1>1, <1>2, <1>3, <1>4, <1>5, <1>6, <1>7, <1>8, <1>9 DEF IInv

LEMMA OrphanEntryKeeps ==
  ASSUME IInv, NEW o \in Sweepers, OrphanEntry(o)
  PROVE  IInv'
  <1>1. TypeOK'
    BY ProcsDisjoint, Bounds DEF IInv, TypeOK, OrphanEntry, Entries
  <1>2. Attempts'
    BY ProcsDisjoint, Bounds DEF IInv, TypeOK, OrphanEntry, Attempts
  <1>3. Opened'
    BY ProcsDisjoint, Bounds DEF IInv, TypeOK, OrphanEntry, Opened, OpenPC, HeldPC
  <1>4. Held'
    BY ProcsDisjoint, Bounds DEF IInv, TypeOK, OrphanEntry, Held, Opened, OpenPC, HeldPC
  <1>5. AtName'
    BY ProcsDisjoint, Bounds DEF IInv, TypeOK, OrphanEntry, AtName, Opened, Held, AtNamePC, OpenPC, HeldPC
  <1>6. Bound'
    BY ProcsDisjoint, Bounds DEF IInv, TypeOK, OrphanEntry, Bound, PrePC
  <1>7. Entered'
    BY ProcsDisjoint, Bounds DEF IInv, TypeOK, OrphanEntry, Entered, Entries, PrePC
  <1>8. Looks'
    BY ProcsDisjoint, Bounds DEF IInv, TypeOK, OrphanEntry, Looks, PrePC, PastPC
  <1>9. Seen'
    BY ProcsDisjoint, Bounds DEF IInv, TypeOK, OrphanEntry, Seen
  <1>10. QED
    BY <1>1, <1>2, <1>3, <1>4, <1>5, <1>6, <1>7, <1>8, <1>9 DEF IInv

LEMMA OrphanUnlinksKeeps ==
  ASSUME IInv, NEW o \in Sweepers, UnlinkLock(o, "ounlink", "oletgo")
  PROVE  IInv'
  <1>1. TypeOK'
    BY ProcsDisjoint, Bounds DEF IInv, TypeOK, UnlinkLock, Entries
  <1>2. Attempts'
    BY ProcsDisjoint, Bounds DEF IInv, TypeOK, UnlinkLock, Attempts
  <1>3. Opened'
    BY ProcsDisjoint, Bounds DEF IInv, TypeOK, UnlinkLock, Opened, OpenPC, HeldPC
  <1>4. Held'
    BY ProcsDisjoint, Bounds DEF IInv, TypeOK, UnlinkLock, Held, Opened, OpenPC, HeldPC
  <1>5. AtName'
    BY ProcsDisjoint, Bounds DEF IInv, TypeOK, UnlinkLock, AtName, Opened, Held, AtNamePC, OpenPC, HeldPC
  <1>6. Bound'
    BY ProcsDisjoint, Bounds DEF IInv, TypeOK, UnlinkLock, Bound, PrePC
  <1>7. Entered'
    BY ProcsDisjoint, Bounds DEF IInv, TypeOK, UnlinkLock, Entered, Entries, PrePC
  <1>8. Looks'
    BY ProcsDisjoint, Bounds DEF IInv, TypeOK, UnlinkLock, Looks, PrePC, PastPC
  <1>9. Seen'
    BY ProcsDisjoint, Bounds DEF IInv, TypeOK, UnlinkLock, Seen
  <1>10. QED
    BY <1>1, <1>2, <1>3, <1>4, <1>5, <1>6, <1>7, <1>8, <1>9 DEF IInv

LEMMA OrphanReleasesKeeps ==
  ASSUME IInv, NEW o \in Sweepers, ReleaseLock(o, "oletgo", "socket")
  PROVE  IInv'
  <1>1. TypeOK'
    BY ProcsDisjoint, Bounds DEF IInv, TypeOK, ReleaseLock, Entries
  <1>2. Attempts'
    BY ProcsDisjoint, Bounds DEF IInv, TypeOK, ReleaseLock, Attempts
  <1>3. Opened'
    BY ProcsDisjoint, Bounds DEF IInv, TypeOK, ReleaseLock, Opened, OpenPC, HeldPC
  <1>4. Held'
    BY ProcsDisjoint, Bounds DEF IInv, TypeOK, ReleaseLock, Held, Opened, OpenPC, HeldPC
  <1>5. AtName'
    BY ProcsDisjoint, Bounds DEF IInv, TypeOK, ReleaseLock, AtName, Opened, Held, AtNamePC, OpenPC, HeldPC
  <1>6. Bound'
    BY ProcsDisjoint, Bounds DEF IInv, TypeOK, ReleaseLock, Bound, PrePC
  <1>7. Entered'
    BY ProcsDisjoint, Bounds DEF IInv, TypeOK, ReleaseLock, Entered, Entries, PrePC
  <1>8. Looks'
    BY ProcsDisjoint, Bounds DEF IInv, TypeOK, ReleaseLock, Looks, PrePC, PastPC
  <1>9. Seen'
    BY ProcsDisjoint, Bounds DEF IInv, TypeOK, ReleaseLock, Seen
  <1>10. QED
    BY <1>1, <1>2, <1>3, <1>4, <1>5, <1>6, <1>7, <1>8, <1>9 DEF IInv

LEMMA LstatSocketKeeps ==
  ASSUME IInv, NEW o \in Sweepers, LstatSocket(o)
  PROVE  IInv'
  <1>1. TypeOK'
    BY ProcsDisjoint, Bounds DEF IInv, TypeOK, LstatSocket, Entries
  <1>2. Attempts'
    BY ProcsDisjoint, Bounds DEF IInv, TypeOK, LstatSocket, Attempts
  <1>3. Opened'
    BY ProcsDisjoint, Bounds DEF IInv, TypeOK, LstatSocket, Opened, OpenPC, HeldPC
  <1>4. Held'
    BY ProcsDisjoint, Bounds DEF IInv, TypeOK, LstatSocket, Held, Opened, OpenPC, HeldPC
  <1>5. AtName'
    BY ProcsDisjoint, Bounds DEF IInv, TypeOK, LstatSocket, AtName, Opened, Held, AtNamePC, OpenPC, HeldPC
  <1>6. Bound'
    BY ProcsDisjoint, Bounds DEF IInv, TypeOK, LstatSocket, Bound, PrePC
  <1>7. Entered'
    BY ProcsDisjoint, Bounds DEF IInv, TypeOK, LstatSocket, Entered, Entries, PrePC
  <1>8. Looks'
    BY ProcsDisjoint DEF IInv, TypeOK, LstatSocket, Bound, Looks, PastPC, PrePC
  <1>9. Seen'
    BY ProcsDisjoint, Bounds DEF IInv, TypeOK, LstatSocket, Seen
  <1>10. QED
    BY <1>1, <1>2, <1>3, <1>4, <1>5, <1>6, <1>7, <1>8, <1>9 DEF IInv

LEMMA SocketOpensKeeps ==
  ASSUME IInv, NEW o \in Sweepers, OpenHeld(o, "sopen", "sage", "probe")
  PROVE  IInv'
  <1>1. TypeOK'
    BY ProcsDisjoint, Bounds DEF IInv, TypeOK, OpenHeld, Entries
  <1>2. Attempts'
    BY ProcsDisjoint, Bounds DEF IInv, TypeOK, OpenHeld, Attempts
  <1>3. Opened'
    BY ProcsDisjoint, Bounds DEF IInv, TypeOK, OpenHeld, Opened, OpenPC, HeldPC
  <1>4. Held'
    BY ProcsDisjoint, Bounds DEF IInv, TypeOK, OpenHeld, Held, Opened, OpenPC, HeldPC
  <1>5. AtName'
    BY ProcsDisjoint, Bounds DEF IInv, TypeOK, OpenHeld, AtName, Opened, Held, AtNamePC, OpenPC, HeldPC
  <1>6. Bound'
    BY ProcsDisjoint, Bounds DEF IInv, TypeOK, OpenHeld, Bound, PrePC
  <1>7. Entered'
    BY ProcsDisjoint, Bounds DEF IInv, TypeOK, OpenHeld, Entered, Entries, PrePC
  <1>8. Looks'
    BY ProcsDisjoint DEF IInv, TypeOK, OpenHeld, Looks, PastPC, PrePC, AtName, AtNamePC, Opened, OpenPC, HeldPC
  <1>9. Seen'
    BY ProcsDisjoint, Bounds DEF IInv, TypeOK, OpenHeld, Seen
  <1>10. QED
    BY <1>1, <1>2, <1>3, <1>4, <1>5, <1>6, <1>7, <1>8, <1>9 DEF IInv

LEMMA SocketAgesKeeps ==
  ASSUME IInv, NEW o \in Sweepers, LockAge(o, "sage", "stry", "idle")
  PROVE  IInv'
  <1>1. TypeOK'
    BY ProcsDisjoint, Bounds DEF IInv, TypeOK, LockAge, Entries
  <1>2. Attempts'
    BY ProcsDisjoint, Bounds DEF IInv, TypeOK, LockAge, Attempts
  <1>3. Opened'
    BY ProcsDisjoint, Bounds DEF IInv, TypeOK, LockAge, Opened, OpenPC, HeldPC
  <1>4. Held'
    BY ProcsDisjoint, Bounds DEF IInv, TypeOK, LockAge, Held, Opened, OpenPC, HeldPC
  <1>5. AtName'
    BY ProcsDisjoint, Bounds DEF IInv, TypeOK, LockAge, AtName, Opened, Held, AtNamePC, OpenPC, HeldPC
  <1>6. Bound'
    BY ProcsDisjoint, Bounds DEF IInv, TypeOK, LockAge, Bound, PrePC
  <1>7. Entered'
    BY ProcsDisjoint, Bounds DEF IInv, TypeOK, LockAge, Entered, Entries, PrePC
  <1>8. Looks'
    BY ProcsDisjoint, Bounds DEF IInv, TypeOK, LockAge, Looks, PrePC, PastPC
  <1>9. Seen'
    BY ProcsDisjoint, Bounds DEF IInv, TypeOK, LockAge, Seen
  <1>10. QED
    BY <1>1, <1>2, <1>3, <1>4, <1>5, <1>6, <1>7, <1>8, <1>9 DEF IInv

LEMMA SocketTriesKeeps ==
  ASSUME IInv, NEW o \in Sweepers, TryOrLeave(o, "stry", "sletgo", "idle")
  PROVE  IInv'
  <1>1. TypeOK'
    BY ProcsDisjoint, Bounds DEF IInv, TypeOK, TryOrLeave, Entries
  <1>2. Attempts'
    BY ProcsDisjoint, Bounds DEF IInv, TypeOK, TryOrLeave, Attempts
  <1>3. Opened'
    BY ProcsDisjoint, Bounds DEF IInv, TypeOK, TryOrLeave, Opened, OpenPC, HeldPC
  <1>4. Held'
    BY ProcsDisjoint, Bounds DEF IInv, TypeOK, TryOrLeave, Held, Opened, OpenPC, HeldPC
  <1>5. AtName'
    BY ProcsDisjoint, Bounds DEF IInv, TypeOK, TryOrLeave, AtName, Opened, Held, AtNamePC, OpenPC, HeldPC
  <1>6. Bound'
    BY ProcsDisjoint, Bounds DEF IInv, TypeOK, TryOrLeave, Bound, PrePC
  <1>7. Entered'
    BY ProcsDisjoint, Bounds DEF IInv, TypeOK, TryOrLeave, Entered, Entries, PrePC
  <1>8. Looks'
    BY ProcsDisjoint DEF IInv, TypeOK, TryOrLeave, Looks, PastPC, PrePC, Held, HeldPC
  <1>9. Seen'
    BY ProcsDisjoint, Bounds DEF IInv, TypeOK, TryOrLeave, Seen
  <1>10. QED
    BY <1>1, <1>2, <1>3, <1>4, <1>5, <1>6, <1>7, <1>8, <1>9 DEF IInv

LEMMA SocketReleasesKeeps ==
  ASSUME IInv, NEW o \in Sweepers, ReleaseLock(o, "sletgo", "probe")
  PROVE  IInv'
  <1>1. TypeOK'
    BY ProcsDisjoint, Bounds DEF IInv, TypeOK, ReleaseLock, Entries
  <1>2. Attempts'
    BY ProcsDisjoint, Bounds DEF IInv, TypeOK, ReleaseLock, Attempts
  <1>3. Opened'
    BY ProcsDisjoint, Bounds DEF IInv, TypeOK, ReleaseLock, Opened, OpenPC, HeldPC
  <1>4. Held'
    BY ProcsDisjoint, Bounds DEF IInv, TypeOK, ReleaseLock, Held, Opened, OpenPC, HeldPC
  <1>5. AtName'
    BY ProcsDisjoint, Bounds DEF IInv, TypeOK, ReleaseLock, AtName, Opened, Held, AtNamePC, OpenPC, HeldPC
  <1>6. Bound'
    BY ProcsDisjoint, Bounds DEF IInv, TypeOK, ReleaseLock, Bound, PrePC
  <1>7. Entered'
    BY ProcsDisjoint, Bounds DEF IInv, TypeOK, ReleaseLock, Entered, Entries, PrePC
  <1>8. Looks'
    BY ProcsDisjoint, Bounds DEF IInv, TypeOK, ReleaseLock, Looks, PrePC, PastPC
  <1>9. Seen'
    BY ProcsDisjoint, Bounds DEF IInv, TypeOK, ReleaseLock, Seen
  <1>10. QED
    BY <1>1, <1>2, <1>3, <1>4, <1>5, <1>6, <1>7, <1>8, <1>9 DEF IInv

LEMMA ProbeSocketKeeps ==
  ASSUME IInv, NEW o \in Sweepers, ProbeSocket(o)
  PROVE  IInv'
  <1>1. TypeOK'
    BY ProcsDisjoint, Bounds DEF IInv, TypeOK, ProbeSocket, Refuses, Skips, Entries
  <1>2. Attempts'
    BY ProcsDisjoint, Bounds DEF IInv, TypeOK, ProbeSocket, Refuses, Skips, Attempts
  <1>3. Opened'
    BY ProcsDisjoint, Bounds DEF IInv, TypeOK, ProbeSocket, Refuses, Skips, Opened, OpenPC, HeldPC
  <1>4. Held'
    BY ProcsDisjoint, Bounds DEF IInv, TypeOK, ProbeSocket, Refuses, Skips, Held, Opened, OpenPC, HeldPC
  <1>5. AtName'
    BY ProcsDisjoint, Bounds DEF IInv, TypeOK, ProbeSocket, Refuses, Skips, AtName, Opened, Held, AtNamePC, OpenPC, HeldPC
  <1>6. Bound'
    BY ProcsDisjoint, Bounds DEF IInv, TypeOK, ProbeSocket, Refuses, Skips, Bound, PrePC
  <1>7. Entered'
    BY ProcsDisjoint, Bounds DEF IInv, TypeOK, ProbeSocket, Refuses, Skips, Entered, Entries, PrePC
  <1>8. Looks'
    BY ProcsDisjoint, Bounds DEF IInv, TypeOK, ProbeSocket, Refuses, Skips, Looks, PrePC, PastPC
  <1>9. Seen'
    BY ProcsDisjoint, Bounds DEF IInv, TypeOK, ProbeSocket, Refuses, Skips, Seen
  <1>10. QED
    BY <1>1, <1>2, <1>3, <1>4, <1>5, <1>6, <1>7, <1>8, <1>9 DEF IInv

LEMMA RelstatSocketKeeps ==
  ASSUME IInv, NEW o \in Sweepers, RelstatSocket(o)
  PROVE  IInv'
  <1>1. TypeOK'
    BY ProcsDisjoint, Bounds DEF IInv, TypeOK, RelstatSocket, Skips, Entries
  <1>2. Attempts'
    BY ProcsDisjoint, Bounds DEF IInv, TypeOK, RelstatSocket, Skips, Attempts
  <1>3. Opened'
    BY ProcsDisjoint, Bounds DEF IInv, TypeOK, RelstatSocket, Skips, Opened, OpenPC, HeldPC
  <1>4. Held'
    BY ProcsDisjoint, Bounds DEF IInv, TypeOK, RelstatSocket, Skips, Held, Opened, OpenPC, HeldPC
  <1>5. AtName'
    BY ProcsDisjoint, Bounds DEF IInv, TypeOK, RelstatSocket, Skips, AtName, Opened, Held, AtNamePC, OpenPC, HeldPC
  <1>6. Bound'
    BY ProcsDisjoint, Bounds DEF IInv, TypeOK, RelstatSocket, Skips, Bound, PrePC
  <1>7. Entered'
    BY ProcsDisjoint, Bounds DEF IInv, TypeOK, RelstatSocket, Skips, Entered, Entries, PrePC
  <1>8. Looks'
    BY ProcsDisjoint, Bounds DEF IInv, TypeOK, RelstatSocket, Skips, Looks, PrePC, PastPC
  <1>9. Seen'
    BY ProcsDisjoint, Bounds DEF IInv, TypeOK, RelstatSocket, Skips, Seen
  <1>10. QED
    BY <1>1, <1>2, <1>3, <1>4, <1>5, <1>6, <1>7, <1>8, <1>9 DEF IInv

LEMMA ClearSocketKeeps ==
  ASSUME IInv, NEW o \in Sweepers, ClearSocket(o)
  PROVE  IInv'
  <1>1. TypeOK'
    BY ProcsDisjoint, Bounds DEF IInv, TypeOK, ClearSocket, Skips, Entries
  <1>2. Attempts'
    BY ProcsDisjoint, Bounds DEF IInv, TypeOK, ClearSocket, Skips, Attempts
  <1>3. Opened'
    BY ProcsDisjoint, Bounds DEF IInv, TypeOK, ClearSocket, Skips, Opened, OpenPC, HeldPC
  <1>4. Held'
    BY ProcsDisjoint, Bounds DEF IInv, TypeOK, ClearSocket, Skips, Held, Opened, OpenPC, HeldPC
  <1>5. AtName'
    BY ProcsDisjoint, Bounds DEF IInv, TypeOK, ClearSocket, Skips, AtName, Opened, Held, AtNamePC, OpenPC, HeldPC
  <1>6. Bound'
    BY ProcsDisjoint DEF IInv, TypeOK, ClearSocket, Skips, Bound, Looks, PastPC, PrePC
  <1>7. Entered'
    BY ProcsDisjoint, Bounds DEF IInv, TypeOK, ClearSocket, Skips, Entered, Entries, PrePC
  <1>8. Looks'
    BY ProcsDisjoint, OneSweeper DEF IInv, TypeOK, ClearSocket, Skips, Looks, PastPC, PrePC
  <1>9. Seen'
    BY ProcsDisjoint, Bounds DEF IInv, TypeOK, ClearSocket, Skips, Seen
  <1>10. QED
    BY <1>1, <1>2, <1>3, <1>4, <1>5, <1>6, <1>7, <1>8, <1>9 DEF IInv

LEMMA KillReaderKeeps ==
  ASSUME IInv, NEW p \in Scanners \cup Sweepers, KillReader(p)
  PROVE  IInv'
  <1>1. TypeOK'
    BY ProcsDisjoint, Bounds DEF IInv, TypeOK, KillReader, Dies, Entries
  <1>2. Attempts'
    BY ProcsDisjoint, Bounds DEF IInv, TypeOK, KillReader, Dies, Attempts
  <1>3. Opened'
    BY ProcsDisjoint, Bounds DEF IInv, TypeOK, KillReader, Dies, Opened, OpenPC, HeldPC
  <1>4. Held'
    BY ProcsDisjoint, Bounds DEF IInv, TypeOK, KillReader, Dies, Held, Opened, OpenPC, HeldPC
  <1>5. AtName'
    BY ProcsDisjoint, Bounds DEF IInv, TypeOK, KillReader, Dies, AtName, Opened, Held, AtNamePC, OpenPC, HeldPC
  <1>6. Bound'
    BY ProcsDisjoint, Bounds DEF IInv, TypeOK, KillReader, Dies, Bound, PrePC
  <1>7. Entered'
    BY ProcsDisjoint, Bounds DEF IInv, TypeOK, KillReader, Dies, Entered, Entries, PrePC
  <1>8. Looks'
    BY ProcsDisjoint, Bounds DEF IInv, TypeOK, KillReader, Dies, Looks, PrePC, PastPC
  <1>9. Seen'
    BY ProcsDisjoint, Bounds DEF IInv, TypeOK, KillReader, Dies, Seen
  <1>10. QED
    BY <1>1, <1>2, <1>3, <1>4, <1>5, <1>6, <1>7, <1>8, <1>9 DEF IInv

LEMMA AgePassesKeeps ==
  ASSUME IInv, AgePasses
  PROVE  IInv'
  BY DEF IInv, AgePasses, TypeOK, Attempts, Opened, Held, AtName, Bound, Entered, Looks, Seen, HeldPC, OpenPC, AtNamePC, PrePC, PastPC, Entries

LEMMA StutterKeeps ==
  ASSUME IInv, UNCHANGED vars
  PROVE  IInv'
<1>1. /\ UNCHANGED <<lockAt, flock, youngLock, entryAt, sockAt, sockAge, listening, pc, fd>>
      /\ UNCHANGED <<tries, marked, told, looksAt, verdict, witness, kills>>
  BY DEF vars
<1>2. TypeOK'
  BY <1>1 DEF IInv, TypeOK
<1>3. Attempts' /\ Opened' /\ Held' /\ AtName'
  BY <1>1 DEF IInv, Attempts, Opened, Held, AtName
<1>4. Bound' /\ Entered' /\ Looks' /\ Seen'
  BY <1>1 DEF IInv, Bound, Entered, Looks, Seen
<1>5. QED
  BY <1>2, <1>3, <1>4 DEF IInv

LEMMA NextKeeps == IInv /\ [Next]_vars => IInv'
<1> SUFFICES ASSUME IInv, [Next]_vars
             PROVE  IInv'
  OBVIOUS
<1>1. ASSUME NEW h \in Hosts, HostStep(h)
      PROVE  IInv'
  BY <1>1, CreateLockKeeps, OpenLockKeeps, TouchLockKeeps, HostTriesKeeps,
       CheckNamedKeeps, CheckRefusedKeeps, BindSocketKeeps, ListenSocketKeeps,
       RegisterKeeps, CloseListenerKeeps, UnlinkEntryKeeps, UnlinkSocketKeeps,
       HostChecksNameKeeps, HostUnlinksKeeps, ExitKeeps
  DEF HostStep
<1>2. ASSUME NEW h \in Hosts, Update(h) \/ MarkStopping(h) \/ Close(h) \/ KillHost(h)
      PROVE  IInv'
  BY <1>2, UpdateKeeps, MarkStoppingKeeps, CloseKeeps, KillHostKeeps
<1>3. ASSUME NEW s \in Scanners, ScanStep(s) \/ KillReader(s)
      PROVE  IInv'
  BY <1>3, ListKeeps, ProbeOpenKeeps, ScanTriesKeeps, ReadEntryKeeps,
       TryAgainKeeps, ScanChecksNameKeeps, SweepEntryKeeps, ScanUnlinksKeeps,
       LetGoKeeps, RestKeeps,
       KillReaderKeeps
  DEF ScanStep
<1>4. ASSUME NEW o \in Sweepers, SweepStep(o) \/ KillReader(o)
      PROVE  IInv'
  BY <1>4, ListOrphansKeeps, OrphanOpensKeeps, OrphanAgesKeeps, OrphanTriesKeeps,
       OrphanChecksNameKeeps, OrphanEntryKeeps, OrphanUnlinksKeeps, OrphanReleasesKeeps,
       LstatSocketKeeps, SocketOpensKeeps, SocketAgesKeeps, SocketTriesKeeps,
       SocketReleasesKeeps, ProbeSocketKeeps, RelstatSocketKeeps, ClearSocketKeeps,
       KillReaderKeeps
  DEF SweepStep
<1>5. QED
  BY <1>1, <1>2, <1>3, <1>4, AgePassesKeeps, StutterKeeps DEF Next

-----------------------------------------------------------------------------
(* The theorems *)

\* The inductive invariant, with the type invariant in it, holds of every
\* behaviour of the registry's processes.
THEOREM Invariant == Spec => []IInv
<1>1. QED
  BY InitHolds, NextKeeps, PTL DEF Spec

\* Every variable keeps its type; a host starts an attempt at its lock
\* (takeLock) at most LockTries times.
THEOREM TypeCorrect == Spec => []TypeOK
<1>1. IInv => TypeOK
  BY DEF IInv
<1>2. QED
  BY <1>1, Invariant, PTL

\* A host past takeLock holds the flock of the file at its lock's name until
\* it unlinks that file itself (registry.go: takeLock, teardown).
THEOREM LockStaysFindable == Spec => []LockIsFindable
<1>1. IInv => LockIsFindable
  BY DEF IInv, AtName, Held, LockIsFindable, AtNamePC, HeldPC
<1>2. QED
  BY <1>1, Invariant, PTL

\* So no two processes are up as one host id at a time.
AtMostOneHost ==
  \A h, k \in Hosts : pc[h] \in HostHolds /\ pc[k] \in HostHolds => h = k

THEOREM OneHost == Spec => []AtMostOneHost
<1>1. IInv => AtMostOneHost
  BY OneAtName DEF AtMostOneHost, AtNamePC
<1>2. QED
  BY <1>1, Invariant, PTL

\* No sweep and no other host takes a live host's entry or socket: nothing
\* craze does makes Host.Lost answer.
THEOREM LiveHostNotLost == Spec => []NeverLost
<1>1. IInv => NeverLost
  BY DEF IInv, Bound, Entered, NeverLost, Registered, OwnsEntry
<1>2. QED
  BY <1>1, Invariant, PTL

\* A scan answers for every host that was registered while it ran.
THEOREM ScanAnswersForAll == Spec => []ScanMissesNobody
<1>1. IInv => ScanMissesNobody
  BY DEF IInv, Seen, ScanMissesNobody
<1>2. QED
  BY <1>1, Invariant, PTL

\* An entry that says its host is stopping is not rewritten as serving.
THEOREM StoppingStays == Spec => StoppingIsKept
<1> DEFINE Keeps == \A h \in Hosts : entryAt = [by |-> h, as |-> "stopping"]
                     => entryAt' # [by |-> h, as |-> "serving"]
<1>1. ASSUME IInv, [Next]_vars
      PROVE  Keeps
  <2> SUFFICES ASSUME NEW h \in Hosts, entryAt = [by |-> h, as |-> "stopping"],
                      entryAt' = [by |-> h, as |-> "serving"]
               PROVE  FALSE
    OBVIOUS
  <2>1. entryAt' # entryAt /\ entryAt # Nobody /\ entryAt' # Nobody
    BY ProcsDisjoint DEF Entries
  <2>2. pc[h] \notin PrePC \cup {"listen", "write"}
    BY <1>1, <2>1 DEF IInv, Entered
  <2>3. pc[h] = "bound" => h \in marked
    BY <1>1 DEF IInv, Entered
  <2>4. ASSUME NEW k \in Hosts, HostStep(k) \/ Update(k) \/ MarkStopping(k) \/ Close(k) \/ KillHost(k)
        PROVE  FALSE
    <3>1. Register(k) \/ Update(k) \/ MarkStopping(k)
      BY <2>1, <2>4
      DEF HostStep, CreateLock, OpenLock, TouchLock, TryLock, CheckNamed, CheckRefused,
          BindSocket, ListenSocket, CloseListener, UnlinkEntry, UnlinkSocket, SameFile,
          UnlinkLock, Exit, Close, KillHost, Dies
    <3>2. CASE Register(k)
      BY <2>1, <2>2, <3>2 DEF Register, WriteEntry
    <3>3. CASE Update(k)
      BY <2>1, <2>3, <3>3 DEF Update, WriteEntry
    <3>4. CASE MarkStopping(k)
      BY <2>1, <3>4 DEF MarkStopping, WriteEntry
    <3>5. QED
      BY <3>1, <3>2, <3>3, <3>4
  <2>5. ASSUME NEW s \in Scanners, ScanStep(s) \/ KillReader(s)
        PROVE  FALSE
    BY <2>1, <2>5
    DEF ScanStep, List, ProbeOpen, TryLock, ReadEntry, TryAgain, SameFile, SweepEntry,
        UnlinkLock, LetGo, Rest, KillReader, Dies
  <2>6. ASSUME NEW o \in Sweepers, SweepStep(o) \/ KillReader(o)
        PROVE  FALSE
    BY <2>1, <2>6
    DEF SweepStep, ListOrphans, OpenHeld, LockAge, TryOrLeave, SameFile, OrphanEntry,
        UnlinkLock, ReleaseLock, LstatSocket, ProbeSocket, RelstatSocket, ClearSocket,
        KillReader, Dies
  <2>7. QED
    BY <1>1, <2>1, <2>4, <2>5, <2>6 DEF Next, AgePasses, vars
<1>2. QED
  BY <1>1, Invariant, PTL DEF Spec, StoppingIsKept
=============================================================================
