--------------------------- MODULE CommandsProofs ---------------------------
(***************************************************************************)
(* A command runs at most once, as the client it was bound to, and what    *)
(* its caller is told is so; for any number of commands, connections,      *)
(* engines, hosts and refusals.                                            *)
(*                                                                         *)
(* The argument: all that has run of a command, and all that may yet, went *)
(* under one identity, the one the command remembers (Under); it forgets   *)
(* it only when nothing of it can have run, because the attempts           *)
(* unanswered before the last one are counted (Counted).  A token names    *)
(* one client of one engine (Tokens), so attempts of one identity meet at  *)
(* one receipt, which lets one of them run (Kept).                         *)
(***************************************************************************)
EXTENDS Commands, TLAPS

-----------------------------------------------------------------------------
(* The invariant *)

Known(w) == conns[w].us # "none"

\* An attempt is known by its number, went on a connection dialled, and under an
\* identity its binding allows; only an answer of done comes from one that ran.
Numbered ==
  /\ identity > 0
  /\ \A t \in tries : /\ t.n > 0 /\ t.n <= attempt[t.cmd] /\ t.as > 0 /\ t.as <= identity
                      /\ Known(t.conn) /\ pinned[t.cmd] \in {0, t.as} /\ t.ran \in {0, t.as}
  /\ \A t, u \in tries : t.cmd = u.cmd /\ t.n = u.n => t = u
  /\ \A p \in ran : /\ p.n > 0 /\ p.n <= attempt[p.cmd] /\ p.as > 0 /\ p.as <= identity
                    /\ pinned[p.cmd] \in {0, p.as}
  /\ \A p \in ran, t \in tries : p.cmd = t.cmd /\ p.n = t.n => t.at = "reply" /\ t.ans = "done"

\* The attempts unanswered, but for the one that is out.
Earlier(c) == IF c \in out THEN unanswered[c] - 1 ELSE unanswered[c]

\* With none of them, nothing has run and nothing may but the attempt that is out.
Counted ==
  \A c \in Cmds :
    /\ c \in out => unanswered[c] > 0
    /\ answer[c] = "done" => c \notin want
    /\ Earlier(c) = 0 /\ answer[c] # "done" =>
         /\ \A t \in tries : t.cmd = c /\ MayRun(t) => c \in out /\ t.n = attempt[c]
         /\ \A p \in ran : p.cmd = c => c \in out /\ p.n = attempt[c]

\* What ran or may run did so under the identity the command remembers; an attempt
\* that would make it forget that identity is alone.
Under ==
  /\ \A t \in tries : MayRun(t) => t.as = ranUnder[t.cmd]
  /\ \A p \in ran : p.as = ranUnder[p.cmd]
  /\ \A t \in tries : t.at = "claimed" /\ t.ran = 0 /\ attempt[t.cmd] = t.n =>
       /\ \A u \in tries : u.cmd = t.cmd /\ MayRun(u) => u = t
       /\ \A p \in ran : p.cmd # t.cmd

\* A token is one client's of one engine, and bound only while that engine is the host's.
Tokens ==
  /\ held.token > 0 /\ held.token <= host.tokens
  /\ \A w \in Wires : Known(w) =>
       conns[w].token > 0 /\ conns[w].token <= host.tokens /\ conns[w].client \in Wires
  /\ \A w \in Wires : ~Known(w) => host.minted < w
  /\ \A i \in Wires : binds[i].token <= host.tokens
  /\ \A w, v \in Wires : Known(w) /\ Known(v) /\ conns[w].token = conns[v].token =>
       conns[w].inc = conns[v].inc /\ conns[w].client = conns[v].client
  /\ \A i, w \in Wires : binds[i].token # 0 /\ Known(w) /\ conns[w].token = binds[i].token =>
       conns[w].inc = host.inc /\ conns[w].client = i
  /\ \E w \in Wires : Known(w) /\ conns[w].token = held.token

\* The connection in hand, and once it is adopted its token is the held one.
InHand ==
  /\ link \in {"hello", "reattach", "publish", "up"} => wire \in Wires /\ Known(wire)
  /\ link \in {"reattach", "publish", "up"} => conns[wire].token = held.token

KeyOf(w, c) == <<conns[w].inc, conns[w].client, c>>

\* One identity is one token, and what ran under it has its receipt where every
\* attempt under it asks.
Kept ==
  /\ \A t \in tries : t.as = identity => conns[t.conn].token = held.token
  /\ \A t, u \in tries : t.as = u.as => conns[t.conn].token = conns[u.conn].token
  /\ \A p \in ran, t \in tries : p.cmd = t.cmd /\ p.as = t.as => Key(t) \in stored
  /\ \A p \in ran, w \in Wires : p.as = identity /\ Known(w) /\ conns[w].token = held.token =>
       KeyOf(w, p.cmd) \in stored

\* Who runs owns its receipt, alone.
Owned ==
  /\ \A t \in tries : t.at = "running" => Key(t) \in reserved /\ Key(t) \notin stored
  /\ \A t, u \in tries : t.at = "running" /\ u.at = "running" /\ Key(t) = Key(u) => t = u

\* Where answers come from.
Told ==
  /\ \A k \in stored : \E p \in ran : p.cmd = k[3]
  /\ \A t \in tries : t.ans = "done" => \E p \in ran : p.cmd = t.cmd
  /\ \A c \in resolved : answer[c] \in {"stale", "unknown", "not_run"} /\ c \notin want
  /\ \A c \in Cmds : answer[c] = "not_run" => c \in resolved

IInv ==
  /\ TypeOK /\ Numbered /\ Counted /\ Under /\ Tokens /\ InHand /\ Kept /\ Owned /\ Told
  /\ RunsOnceAsBound /\ AnswersAreTrue

-----------------------------------------------------------------------------
(* What most steps leave *)

\* Of the connections, what names their client; one dialled stays so.
SidesKept ==
  \A w \in Wires : /\ (conns'[w].us = "none") = (conns[w].us = "none")
                   /\ conns'[w].inc = conns[w].inc /\ conns'[w].client = conns[w].client
                   /\ conns'[w].token = conns[w].token

\* An attempt t goes on as x.
Goes(t, x) ==
  /\ x.cmd = t.cmd /\ x.n = t.n /\ x.conn = t.conn /\ x.as = t.as /\ x.ran = t.ran
  /\ MayRun(x) => MayRun(t)
  /\ x.at # "claimed" /\ t.at # "reply"

\* Attempts go, and t may go on as x.
Follow(t, x) ==
  \A y \in tries' : y \in tries \/ (y = x /\ t \in tries /\ t \notin tries' /\ Goes(t, x))

LEMMA SidesSame ==
  ASSUME conns' = conns
  PROVE  SidesKept
  BY DEF SidesKept

LEMMA KeySame ==
  ASSUME TypeOK, SidesKept, NEW t, t.conn \in Wires
  PROVE  Key(t)' = Key(t)
  BY DEF SidesKept, Key

LEMMA TriesTyped ==
  ASSUME TypeOK, NEW t \in tries
  PROVE  /\ t \in Tries /\ t.cmd \in Cmds /\ t.conn \in Wires
         /\ t.n \in Nat /\ t.as \in Nat /\ t.ran \in Nat
  BY DEF TypeOK, Tries

LEMMA NumberedStays ==
  ASSUME TypeOK, Numbered, NEW t, NEW x, Follow(t, x), SidesKept,
         identity' \in Nat, identity' >= identity,
         attempt' = attempt, pinned' = pinned, ran' = ran
  PROVE  Numbered'
<1>1. \A y \in tries : y.conn \in Wires /\ y.as \in Nat
  BY TriesTyped
<1>2. \A p \in ran : p.as \in Nat
  BY DEF TypeOK
<1>3. identity \in Nat
  BY DEF TypeOK
<1>4. \A y \in tries' : /\ y.n > 0 /\ y.n <= attempt'[y.cmd] /\ y.as > 0 /\ y.as <= identity'
                        /\ Known(y.conn)' /\ pinned'[y.cmd] \in {0, y.as} /\ y.ran \in {0, y.as}
  BY <1>1, <1>3 DEF Numbered, Follow, Goes, SidesKept, Known
<1>5. \A y, z \in tries' : y.cmd = z.cmd /\ y.n = z.n => y = z
  BY DEF Numbered, Follow, Goes
<1>6. \A p \in ran', y \in tries' : p.cmd = y.cmd /\ p.n = y.n => y.at = "reply" /\ y.ans = "done"
  BY DEF Numbered, Follow, Goes
<1>7. QED
  BY <1>2, <1>3, <1>4, <1>5, <1>6 DEF Numbered

LEMMA CountedStays ==
  ASSUME TypeOK, Counted, NEW t, NEW x, Follow(t, x),
         attempt' = attempt, unanswered' = unanswered, ran' = ran, out' \subseteq out,
         \A c \in Cmds : /\ (answer'[c] = "done") = (answer[c] = "done")
                         /\ answer'[c] = "done" => c \notin want'
  PROVE  Counted'
<1> SUFFICES ASSUME NEW c \in Cmds
             PROVE  /\ c \in out' => unanswered'[c] > 0
                    /\ answer'[c] = "done" => c \notin want'
                    /\ Earlier(c)' = 0 /\ answer'[c] # "done" =>
                         /\ \A y \in tries' : y.cmd = c /\ MayRun(y) => c \in out' /\ y.n = attempt'[c]
                         /\ \A p \in ran' : p.cmd = c => c \in out' /\ p.n = attempt'[c]
  BY DEF Counted
<1>1. unanswered[c] \in Nat
  BY DEF TypeOK
<1>2. CASE c \in out /\ c \notin out'
  BY <1>1, <1>2 DEF Counted, Earlier
<1>3. CASE (c \in out) = (c \in out')
  <2>1. Earlier(c)' = Earlier(c)
    BY <1>3 DEF Earlier
  <2>2. \A y \in tries' : MayRun(y) => \E u \in tries : u.cmd = y.cmd /\ u.n = y.n /\ MayRun(u)
    BY DEF Follow, Goes
  <2>3. QED
    BY <1>3, <2>1, <2>2 DEF Counted
<1>4. QED
  BY <1>2, <1>3

LEMMA UnderStays ==
  ASSUME Under, NEW t, NEW x, Follow(t, x),
         attempt' = attempt, ranUnder' = ranUnder, ran' = ran
  PROVE  Under'
<1>1. \A y \in tries' : MayRun(y) => y.as = ranUnder'[y.cmd]
  BY DEF Under, Follow, Goes
<1>2. \A y \in tries' : y.at = "claimed" /\ y.ran = 0 /\ attempt'[y.cmd] = y.n =>
        /\ \A u \in tries' : u.cmd = y.cmd /\ MayRun(u) => u = y
        /\ \A p \in ran' : p.cmd # y.cmd
  BY DEF Under, Follow, Goes
<1>3. QED
  BY <1>1, <1>2 DEF Under

\* The host forgets its bindings, or the engine they were of.
LEMMA TokensStay ==
  ASSUME TypeOK, Tokens, SidesKept, held' = held, host' \in [proc : Nat, inc : Nat, minted : Nat, tokens : Nat],
         host'.tokens = host.tokens, host'.minted = host.minted \/ host'.minted = 0,
         \A i \in Wires : \/ binds'[i].token = 0
                          \/ binds'[i].token = binds[i].token /\ host'.inc = host.inc
  PROVE  Tokens'
<1>1. \A w \in Wires : w \in Nat /\ w > 0
  BY CommandsAssumption DEF Wires
<1>2. host.tokens \in Nat
  BY DEF TypeOK
<1>3. \A w \in Wires : Known(w)' = Known(w) /\ conns'[w].token = conns[w].token
                       /\ conns'[w].inc = conns[w].inc /\ conns'[w].client = conns[w].client
  BY DEF SidesKept, Known
<1>4. \A w \in Wires : Known(w)' =>
        conns'[w].token > 0 /\ conns'[w].token <= host'.tokens /\ conns'[w].client \in Wires
  BY <1>3 DEF Tokens
<1>5. \A w \in Wires : ~Known(w)' => host'.minted < w
  BY <1>1, <1>3 DEF Tokens
<1>6. \A i \in Wires : binds'[i].token <= host'.tokens
  BY <1>2 DEF Tokens
<1>7. \A w, v \in Wires : Known(w)' /\ Known(v)' /\ conns'[w].token = conns'[v].token =>
        conns'[w].inc = conns'[v].inc /\ conns'[w].client = conns'[v].client
  BY <1>3 DEF Tokens
<1>8. \A i, w \in Wires : binds'[i].token # 0 /\ Known(w)' /\ conns'[w].token = binds'[i].token =>
        conns'[w].inc = host'.inc /\ conns'[w].client = i
  BY <1>3 DEF Tokens
<1>9. \E w \in Wires : Known(w)' /\ conns'[w].token = held'.token
  BY <1>3 DEF Tokens
<1>10. QED
  BY <1>4, <1>5, <1>6, <1>7, <1>8, <1>9 DEF Tokens

LEMMA InHandStays ==
  ASSUME InHand, SidesKept, held' = held, wire' = wire \/ link' \in {"redial", "stopped"},
         link' \in {link, "redial", "stopped"}
           \/ (link = "reattach" /\ link' = "publish") \/ (link = "publish" /\ link' = "up")
  PROVE  InHand'
  BY DEF InHand, SidesKept, Known

LEMMA KeptStays ==
  ASSUME TypeOK, Kept, NEW t, NEW x, Follow(t, x), SidesKept, identity' = identity,
         held' = held, ran' = ran, stored \subseteq stored'
  PROVE  Kept'
<1>1. \A y \in tries' : \E u \in tries : /\ u.cmd = y.cmd /\ u.as = y.as /\ u.conn = y.conn
                                         /\ y.conn \in Wires
  BY TriesTyped DEF Follow, Goes
<1>2. \A y \in tries', u \in tries : u.conn = y.conn /\ u.cmd = y.cmd /\ y.conn \in Wires => Key(y)' = Key(u)
  BY DEF Key, SidesKept
<1>3. \A w \in Wires : Known(w)' = Known(w) /\ conns'[w].token = conns[w].token
  BY DEF SidesKept, Known
<1>4. \A y \in tries' : y.as = identity' => conns'[y.conn].token = held'.token
  BY <1>1, <1>3 DEF Kept
<1>5. \A y, z \in tries' : y.as = z.as => conns'[y.conn].token = conns'[z.conn].token
  BY <1>1, <1>3 DEF Kept
<1>6. \A p \in ran', y \in tries' : p.cmd = y.cmd /\ p.as = y.as => Key(y)' \in stored'
  BY <1>1, <1>2 DEF Kept
<1>7. \A w \in Wires : \A c : KeyOf(w, c)' = KeyOf(w, c)
  BY DEF KeyOf, SidesKept
<1>8. \A p \in ran', w \in Wires : p.as = identity' /\ Known(w)' /\ conns'[w].token = held'.token =>
        KeyOf(w, p.cmd)' \in stored'
  BY <1>3, <1>7 DEF Kept
<1>9. QED
  BY <1>4, <1>5, <1>6, <1>8 DEF Kept

LEMMA OwnedStays ==
  ASSUME TypeOK, Owned, NEW t, NEW x, Follow(t, x), SidesKept,
         t \in tries /\ x.at = "running" => t.at = "running",
         reserved' = reserved, stored' = stored
  PROVE  Owned'
<1>1. \A y \in tries : Key(y)' = Key(y)
  BY KeySame, TriesTyped
<1>2. t \in tries /\ Goes(t, x) => Key(x)' = Key(t)
  BY TriesTyped DEF Key, SidesKept, Goes
<1>3. \A y \in tries' : y.at = "running" => Key(y)' \in reserved' /\ Key(y)' \notin stored'
  BY <1>1, <1>2 DEF Owned, Follow
<1>4. \A y, z \in tries' : y.at = "running" /\ z.at = "running" /\ Key(y)' = Key(z)' => y = z
  BY <1>1, <1>2 DEF Owned, Follow
<1>5. QED
  BY <1>3, <1>4 DEF Owned

LEMMA ToldStays ==
  ASSUME TypeOK, Told, NEW t, NEW x, Follow(t, x),
         t \in tries /\ x.ans = "done" => \E p \in ran : p.cmd = t.cmd,
         stored' = stored, ran' = ran, resolved' = resolved,
         \A c \in Cmds : \/ answer'[c] = answer[c]
                         \/ answer'[c] # "not_run" /\ c \notin resolved,
         \A c \in want' : c \in want \/ c \notin resolved
  PROVE  Told'
<1>1. resolved \subseteq Cmds
  BY DEF TypeOK
<1>2. \A y \in tries' : y.ans = "done" => \E p \in ran' : p.cmd = y.cmd
  BY DEF Told, Follow, Goes
<1>3. \A c \in resolved' : answer'[c] \in {"stale", "unknown", "not_run"} /\ c \notin want'
  BY <1>1 DEF Told
<1>4. \A c \in Cmds : answer'[c] = "not_run" => c \in resolved'
  BY <1>1 DEF Told
<1>5. \A k \in stored' : \E p \in ran' : p.cmd = k[3]
  BY DEF Told
<1>6. QED
  BY <1>2, <1>3, <1>4, <1>5 DEF Told

LEMMA AnswersStay ==
  ASSUME AnswersAreTrue, NEW t, NEW x, Follow(t, x), ran' = ran,
         \A c \in Cmds : \/ answer'[c] = answer[c]
                         \/ answer'[c] \notin {"done", "not_run"}
                         \/ answer'[c] = "done" /\ \E p \in ran : p.cmd = c
  PROVE  AnswersAreTrue'
<1> SUFFICES ASSUME NEW c \in Cmds
             PROVE  /\ answer'[c] = "done" => \E p \in ran' : p.cmd = c
                    /\ answer'[c] = "not_run" => /\ \A p \in ran' : p.cmd # c
                                                 /\ \A y \in tries' : y.cmd = c => ~MayRun(y)
  BY DEF AnswersAreTrue
<1>1. \A y \in tries' : MayRun(y) => \E u \in tries : u.cmd = y.cmd /\ MayRun(u)
  BY DEF Follow, Goes
<1>2. QED
  BY <1>1 DEF AnswersAreTrue

-----------------------------------------------------------------------------
(* Steps of the host and of the wire on one attempt *)

LEMMA HostQuiet ==
  ASSUME IInv, NEW t, NEW x, Follow(t, x), SidesKept,
         t \in tries /\ x.ans = "done" => \E p \in ran : p.cmd = t.cmd,
         UNCHANGED <<client, commands, server, stored, ran>>
  PROVE  /\ Numbered' /\ Counted' /\ Under' /\ Tokens' /\ InHand' /\ Kept' /\ Told'
         /\ RunsOnceAsBound' /\ AnswersAreTrue'
<1> USE DEF client, commands, server, flags, counts
<1>1. identity' \in Nat /\ identity' >= identity
  BY DEF IInv, TypeOK
<1>2. Numbered'
  BY <1>1, NumberedStays DEF IInv
<1>3. Counted'
  BY CountedStays DEF IInv, Counted
<1>4. Under'
  BY UnderStays DEF IInv
<1>5. Tokens'
  <2>1. host \in [proc : Nat, inc : Nat, minted : Nat, tokens : Nat]
    BY DEF IInv, TypeOK
  <2>2. QED
    BY <2>1, TokensStay DEF IInv
<1>6. InHand'
  BY InHandStays DEF IInv
<1>7. Kept'
  BY KeptStays DEF IInv
<1>8. Told'
  BY ToldStays DEF IInv
<1>9. RunsOnceAsBound'
  BY DEF IInv, RunsOnceAsBound
<1>10. AnswersAreTrue'
  BY AnswersStay DEF IInv
<1>11. QED
  BY <1>2, <1>3, <1>4, <1>5, <1>6, <1>7, <1>8, <1>9, <1>10

\* An attempt t, come to a place with an answer.
Onward(t, at, a) == [t EXCEPT !.at = at, !.ans = a]

\* An attempt that goes on to another place, or goes.
LEMMA MovesFollow ==
  ASSUME TypeOK, NEW t \in tries, t.at # "reply", NEW at \in {"line", "read", "checked", "running", "reply"},
         NEW a \in {"none", "done"} \cup Retryable, at = "reply" \/ MayRun(t),
         t.at # at,
         tries' = (tries \ {t}) \cup {Onward(t, at, a)} \/ tries' = tries \ {t}
  PROVE  /\ Follow(t, Onward(t, at, a)) /\ tries' \subseteq Tries
         /\ Onward(t, at, a).at = at /\ Onward(t, at, a).ans = a
<1> DEFINE x == Onward(t, at, a)
<1>1. t \in Tries
  BY TriesTyped
<1>2. x \in Tries /\ x.at = at /\ x.ans = a /\ x.cmd = t.cmd /\ x.n = t.n /\ x.conn = t.conn
      /\ x.as = t.as /\ x.ran = t.ran
  BY <1>1 DEF Tries, Onward
<1>3. Goes(t, x)
  BY <1>2 DEF Goes, MayRun
<1>4. tries \subseteq Tries
  BY DEF TypeOK
<1>5. x # t
  BY <1>2
<1>6. QED
  BY <1>2, <1>3, <1>4, <1>5 DEF Follow

\* So of Moves and Drops.
LEMMA MoveIs ==
  ASSUME TypeOK, NEW t \in tries, NEW at \in {"line", "read", "checked", "running"}, Moves(t, at)
  PROVE  tries' = (tries \ {t}) \cup {Onward(t, at, t.ans)}
<1>1. t \in Tries
  BY TriesTyped
<1>2. [t EXCEPT !.at = at] = Onward(t, at, t.ans)
  BY <1>1 DEF Tries, Onward
<1>3. QED
  BY <1>2 DEF Moves

LEMMA TypeStays ==
  ASSUME TypeOK, tries' \subseteq Tries, conns' \in [Wires -> Sides],
         reserved' \subseteq Nat \X Nat \X Cmds, losses' = losses, refusals' \in 0..MaxRefusals,
         UNCHANGED <<client, commands, server, stored, ran>>
  PROVE  TypeOK'
  BY DEF TypeOK, client, commands, server, flags, counts

\* A step that moves one attempt, and reserves nothing.
LEMMA MovedKeeps ==
  ASSUME IInv, NEW t \in tries, t.at # "reply", NEW at \in {"line", "read", "checked", "reply"},
         NEW a \in {"none", "done"} \cup Retryable, at = "reply" \/ MayRun(t),
         tries' = (tries \ {t}) \cup {Onward(t, at, a)} \/ tries' = tries \ {t},
         a = "done" => \E p \in ran : p.cmd = t.cmd,
         t.at # at, SidesKept, conns' \in [Wires -> Sides],
         losses' = losses, refusals' \in 0..MaxRefusals,
         UNCHANGED <<client, commands, server, receipts>>
  PROVE  IInv'
<1> DEFINE x == Onward(t, at, a)
<1>1. TypeOK
  BY DEF IInv
<1>2. at \in {"line", "read", "checked", "running", "reply"}
  OBVIOUS
<1>3. Follow(t, x) /\ tries' \subseteq Tries /\ x.at = at /\ x.ans = a
  BY <1>1, <1>2, MovesFollow
<1>4. UNCHANGED <<stored, ran, reserved>>
  BY DEF receipts
<1>5. TypeOK'
  <2>1. reserved' \subseteq Nat \X Nat \X Cmds
    BY <1>4 DEF IInv, TypeOK
  <2>2. QED
    BY <1>3, <1>4, <2>1, TypeStays DEF IInv
<1>6. Owned'
  BY <1>3, <1>4, OwnedStays DEF IInv
<1>7. QED
  BY <1>3, <1>4, <1>5, <1>6, HostQuiet DEF IInv

LEMMA WrittenKeeps ==
  ASSUME IInv, NEW t \in tries, Written(t)
  PROVE  IInv'
<1>1. tries' = (tries \ {t}) \cup {Onward(t, "line", t.ans)}
  BY MoveIs DEF IInv, Written
<1>2. t \in Tries
  BY TriesTyped DEF IInv
<1>3. SidesKept
  BY SidesSame DEF Written
<1>4. t.ans = "done" => \E p \in ran : p.cmd = t.cmd
  BY DEF IInv, Told
<1>5. conns' \in [Wires -> Sides] /\ refusals' \in 0..MaxRefusals /\ losses' = losses
  BY DEF IInv, TypeOK, Written, bounds
<1>6. t.ans \in {"none", "done"} \cup Retryable
  BY <1>2 DEF Tries
<1>7. QED
  BY <1>1, <1>3, <1>4, <1>5, <1>6, MovedKeeps DEF Written, MayRun

LEMMA ReadLineKeeps ==
  ASSUME IInv, NEW t \in tries, ReadLine(t)
  PROVE  IInv'
<1>1. tries' = (tries \ {t}) \cup {Onward(t, "read", t.ans)}
  BY MoveIs DEF IInv, ReadLine
<1>2. t \in Tries
  BY TriesTyped DEF IInv
<1>3. SidesKept
  BY SidesSame DEF ReadLine
<1>4. t.ans = "done" => \E p \in ran : p.cmd = t.cmd
  BY DEF IInv, Told
<1>5. conns' \in [Wires -> Sides] /\ refusals' \in 0..MaxRefusals /\ losses' = losses
  BY DEF IInv, TypeOK, ReadLine, bounds
<1>6. t.ans \in {"none", "done"} \cup Retryable
  BY <1>2 DEF Tries
<1>7. QED
  BY <1>1, <1>3, <1>4, <1>5, <1>6, MovedKeeps DEF ReadLine, MayRun

LEMMA AdmittedKeeps ==
  ASSUME IInv, NEW t \in tries, Admitted(t)
  PROVE  IInv'
<1>1. \/ tries' = (tries \ {t}) \cup {Onward(t, "checked", t.ans)}
      \/ tries' = tries \ {t}
  BY MoveIs DEF IInv, Admitted, Drops
<1>2. t \in Tries
  BY TriesTyped DEF IInv
<1>3. SidesKept
  BY SidesSame DEF Admitted
<1>4. t.ans = "done" => \E p \in ran : p.cmd = t.cmd
  BY DEF IInv, Told
<1>5. conns' \in [Wires -> Sides] /\ refusals' \in 0..MaxRefusals /\ losses' = losses
  BY DEF IInv, TypeOK, Admitted, bounds
<1>6. t.ans \in {"none", "done"} \cup Retryable
  BY <1>2 DEF Tries
<1>7. QED
  BY <1>1, <1>3, <1>4, <1>5, <1>6, MovedKeeps DEF Admitted, MayRun

LEMMA SaysIs ==
  ASSUME NEW t \in tries, NEW a, Says(t, a)
  PROVE  tries' = (tries \ {t}) \cup {Onward(t, "reply", a)} \/ tries' = tries \ {t}
  BY DEF Says, Drops, Onward

LEMMA RefusesType ==
  ASSUME TypeOK, Refuses
  PROVE  refusals' \in 0..MaxRefusals /\ losses' = losses
  BY CommandsAssumption DEF TypeOK, Refuses

LEMMA BusyKeeps ==
  ASSUME IInv, NEW t \in tries, Busy(t) \/ InProgress(t)
  PROVE  IInv'
<1>1. PICK a \in Retryable : Says(t, a)
  BY DEF Busy, InProgress, Retryable
<1>2. SidesKept
  BY SidesSame DEF Busy, InProgress
<1>3. conns' \in [Wires -> Sides]
  BY DEF IInv, TypeOK, Busy, InProgress
<1>4. refusals' \in 0..MaxRefusals /\ losses' = losses
  BY RefusesType DEF IInv, Busy, InProgress
<1>5. tries' = (tries \ {t}) \cup {Onward(t, "reply", a)} \/ tries' = tries \ {t}
  BY <1>1, SaysIs
<1>6. a # "done" /\ t.at # "reply" /\ UNCHANGED <<client, commands, server, receipts>>
  BY <1>1 DEF Retryable, Busy, InProgress, server
<1>7. QED
  BY <1>2, <1>3, <1>4, <1>5, <1>6, MovedKeeps

LEMMA ReplayKeeps ==
  ASSUME IInv, NEW t \in tries, Replay(t)
  PROVE  IInv'
<1>1. tries' = (tries \ {t}) \cup {Onward(t, "reply", "done")} \/ tries' = tries \ {t}
  BY SaysIs DEF Replay
<1>2. \E p \in ran : p.cmd = t.cmd
  <2>1. PICK p \in ran : p.cmd = Key(t)[3]
    BY DEF IInv, Told, Replay
  <2>2. QED
    BY <2>1 DEF Key
<1>3. SidesKept
  BY SidesSame DEF Replay
<1>4. conns' \in [Wires -> Sides] /\ refusals' \in 0..MaxRefusals /\ losses' = losses
  BY DEF IInv, TypeOK, Replay, bounds
<1>5. QED
  BY <1>1, <1>2, <1>3, <1>4, MovedKeeps DEF Replay


\* A step that moves no attempt leaves the parts above; so also one that drops some.
Nothing == [at |-> "reply", ans |-> "none"]

LEMMA DropsFollow ==
  ASSUME tries' \subseteq tries
  PROVE  Follow(Nothing, Nothing) /\ Nothing.at # "running" /\ Nothing.ans # "done"
  BY DEF Follow, Nothing

\* The first call under an id runs.
LEMMA ReserveKeeps ==
  ASSUME IInv, NEW t \in tries, Reserve(t)
  PROVE  IInv'
<1> DEFINE x == Onward(t, "running", t.ans)
<1>1. tries' = (tries \ {t}) \cup {x}
  BY MoveIs DEF IInv, Reserve
<1>2. t \in Tries /\ t.cmd \in Cmds /\ t.conn \in Wires /\ t.ans \in {"none", "done"} \cup Retryable
  BY TriesTyped DEF IInv, Tries
<1>3. TypeOK /\ t.at # "reply" /\ MayRun(t) /\ t.at # "running"
  BY DEF IInv, Reserve, MayRun
<1>4. Follow(t, x) /\ tries' \subseteq Tries /\ x.at = "running" /\ x.ans = t.ans
  <2>1. PICK a \in {"none", "done"} \cup Retryable : a = t.ans
    BY <1>2
  <2>2. PICK at \in {"line", "read", "checked", "running", "reply"} : at = "running"
    OBVIOUS
  <2>3. tries' = (tries \ {t}) \cup {Onward(t, at, a)}
    BY <1>1, <2>1, <2>2
  <2>4. /\ Follow(t, Onward(t, at, a)) /\ tries' \subseteq Tries
        /\ Onward(t, at, a).at = at /\ Onward(t, at, a).ans = a
    BY <1>3, <2>2, <2>3, MovesFollow
  <2>5. QED
    BY <2>1, <2>2, <2>4
<1>5. SidesKept
  BY SidesSame DEF Reserve
<1>6. UNCHANGED <<client, commands, server, stored, ran>>
  BY DEF Reserve
<1>7. reserved' = reserved \cup {Key(t)} /\ stored' = stored /\ Key(t) \notin reserved \cup stored
  BY DEF Reserve
<1>8. Key(t) \in Nat \X Nat \X Cmds
  BY <1>2 DEF IInv, TypeOK, Sides, Key
<1>9. TypeOK'
  <2>1. reserved' \subseteq Nat \X Nat \X Cmds
    BY <1>7, <1>8 DEF IInv, TypeOK
  <2>2. conns' \in [Wires -> Sides] /\ refusals' \in 0..MaxRefusals /\ losses' = losses
    BY DEF IInv, TypeOK, Reserve, bounds
  <2>3. QED
    BY <1>4, <1>6, <2>1, <2>2, TypeStays DEF IInv
<1>10. Owned'
  <2>1. \A y \in tries : Key(y)' = Key(y)
    BY <1>5, KeySame, TriesTyped DEF IInv
  <2>2. Key(x)' = Key(t)
    BY <1>2, <1>4, <1>5 DEF Key, SidesKept, Onward, Tries
  <2>3. \A y \in tries : y.at = "running" => Key(y) \in reserved /\ Key(y) \notin stored
    BY DEF IInv, Owned
  <2>4. \A y, z \in tries : y.at = "running" /\ z.at = "running" /\ Key(y) = Key(z) => y = z
    BY DEF IInv, Owned
  <2>5. \A y \in tries' : y = x \/ y \in tries
    BY <1>1
  <2>6. QED
    BY <1>7, <2>1, <2>2, <2>3, <2>4, <2>5 DEF Owned
<1>11. t.ans = "done" => \E p \in ran : p.cmd = t.cmd
  BY DEF IInv, Told
<1>12. QED
  BY <1>4, <1>5, <1>6, <1>9, <1>10, <1>11, HostQuiet DEF IInv

\* Refused at the gate, it gives its receipt up.
LEMMA GateKeeps ==
  ASSUME IInv, NEW t \in tries, Gate(t)
  PROVE  IInv'
<1> DEFINE x == Onward(t, "reply", "gate")
<1>1. tries' = (tries \ {t}) \cup {x} \/ tries' = tries \ {t}
  BY SaysIs DEF Gate
<1>2. t.at # "reply" /\ t.at = "running"
  BY DEF Gate
<1>3. Follow(t, x) /\ tries' \subseteq Tries /\ x.at = "reply" /\ x.ans = "gate"
  BY <1>1, <1>2, MovesFollow DEF IInv, Retryable
<1>4. SidesKept
  BY SidesSame DEF Gate
<1>5. UNCHANGED <<client, commands, server, stored, ran>>
  BY DEF Gate, server
<1>6. reserved' = reserved \ {Key(t)} /\ stored' = stored
  BY DEF Gate
<1>7. TypeOK'
  <2>1. reserved' \subseteq Nat \X Nat \X Cmds
    BY <1>6 DEF IInv, TypeOK
  <2>2. conns' \in [Wires -> Sides] /\ refusals' \in 0..MaxRefusals /\ losses' = losses
    BY RefusesType DEF IInv, TypeOK, Gate
  <2>3. QED
    BY <1>3, <1>5, <2>1, <2>2, TypeStays DEF IInv
<1>8. Owned'
  <2>1. \A y \in tries : Key(y)' = Key(y)
    BY <1>4, KeySame, TriesTyped DEF IInv
  <2>2. \A y \in tries : y.at = "running" => Key(y) \in reserved /\ Key(y) \notin stored
    BY DEF IInv, Owned
  <2>3. \A y, z \in tries : y.at = "running" /\ z.at = "running" /\ Key(y) = Key(z) => y = z
    BY DEF IInv, Owned
  <2>4. \A y \in tries' : y.at = "running" => y \in tries /\ y # t
    BY <1>1, <1>3
  <2>5. QED
    BY <1>2, <1>6, <2>1, <2>2, <2>3, <2>4 DEF Owned
<1>9. QED
  BY <1>3, <1>4, <1>5, <1>7, <1>8, HostQuiet DEF IInv

\* Attempts of one identity meet at one receipt.
LEMMA OneReceipt ==
  ASSUME IInv, NEW t \in tries, NEW u \in tries, t.as = u.as, t.cmd = u.cmd
  PROVE  Key(t) = Key(u)
<1>1. t.conn \in Wires /\ u.conn \in Wires
  BY TriesTyped DEF IInv
<1>2. Known(t.conn) /\ Known(u.conn)
  BY DEF IInv, Numbered
<1>3. conns[t.conn].token = conns[u.conn].token
  BY DEF IInv, Kept
<1>4. conns[t.conn].inc = conns[u.conn].inc /\ conns[t.conn].client = conns[u.conn].client
  BY <1>1, <1>2, <1>3 DEF IInv, Tokens
<1>5. QED
  BY <1>4 DEF Key


\* It runs, once: what had run of its command would have left a receipt it has not met.
LEMMA RunKeeps ==
  ASSUME IInv, NEW t \in tries, Run(t)
  PROVE  IInv'
<1> DEFINE x == Onward(t, "reply", "done")
           e == [cmd |-> t.cmd, n |-> t.n, as |-> t.as]
<1>1. tries' = (tries \ {t}) \cup {x} \/ tries' = tries \ {t}
  BY SaysIs DEF Run
<1>2. t.at # "reply" /\ t.at = "running" /\ MayRun(t)
  BY DEF Run, MayRun
<1>3. Follow(t, x) /\ tries' \subseteq Tries /\ x.at = "reply" /\ x.ans = "done"
  BY <1>1, <1>2, MovesFollow DEF IInv
<1>4. t \in Tries /\ t.cmd \in Cmds /\ t.conn \in Wires /\ t.n \in Nat /\ t.as \in Nat
  BY TriesTyped DEF IInv
<1>5. x.cmd = t.cmd /\ x.n = t.n /\ x.conn = t.conn /\ x.as = t.as
  BY <1>4 DEF Onward, Tries
<1>6. SidesKept /\ conns' = conns
  BY SidesSame DEF Run
<1>7. /\ UNCHANGED <<client, commands, server>> /\ losses' = losses /\ refusals' = refusals
      /\ reserved' = reserved \ {Key(t)} /\ stored' = stored \cup {Key(t)} /\ ran' = ran \cup {e}
  BY DEF Run, bounds
<1>8. UNCHANGED <<link, wire, identity, held, cmds, want, out, waiting, resent, resolved, attempt,
                  ranUnder, unanswered, pinned, answer, calling, host, binds>>
  BY <1>7 DEF client, commands, server, flags, counts
<1>9. \A p \in ran : p.cmd # t.cmd
  <2> SUFFICES ASSUME NEW p \in ran, p.cmd = t.cmd
               PROVE  FALSE
    OBVIOUS
  <2>1. p.as = t.as
    BY <1>2 DEF IInv, Under
  <2>2. Key(t) \in stored
    BY <2>1 DEF IInv, Kept
  <2>3. QED
    BY <1>2, <2>2 DEF IInv, Owned
<1>10. Key(t) \in Nat \X Nat \X Cmds
  BY <1>4 DEF IInv, TypeOK, Sides, Key
<1>11. \A y \in tries : Key(y)' = Key(y)
  BY <1>6 DEF Key
<1>12. \A y \in tries' : y = x \/ (y \in tries /\ y # t)
  BY <1>1
<1>13. TypeOK'
  BY <1>3, <1>4, <1>6, <1>7, <1>8, <1>10 DEF IInv, TypeOK
<1>14. Numbered'
  <2>1. \A y \in tries' : /\ y.n > 0 /\ y.n <= attempt'[y.cmd] /\ y.as > 0 /\ y.as <= identity'
                          /\ Known(y.conn)' /\ pinned'[y.cmd] \in {0, y.as} /\ y.ran \in {0, y.as}
    BY <1>3, <1>6, <1>8 DEF IInv, Numbered, Follow, Goes, Known
  <2>2. \A y, z \in tries' : y.cmd = z.cmd /\ y.n = z.n => y = z
    BY <1>5, <1>12 DEF IInv, Numbered
  <2>3. \A p \in ran' : /\ p.n > 0 /\ p.n <= attempt'[p.cmd] /\ p.as > 0 /\ p.as <= identity'
                        /\ pinned'[p.cmd] \in {0, p.as}
    BY <1>7, <1>8 DEF IInv, Numbered
  <2>4. \A p \in ran', y \in tries' : p.cmd = y.cmd /\ p.n = y.n => y.at = "reply" /\ y.ans = "done"
    BY <1>3, <1>5, <1>7, <1>12 DEF IInv, Numbered
  <2>5. identity' > 0
    BY <1>8 DEF IInv, Numbered
  <2>6. QED
    BY <2>1, <2>2, <2>3, <2>4, <2>5 DEF Numbered
<1>15. Counted'
  <2> SUFFICES ASSUME NEW c \in Cmds
               PROVE  /\ c \in out' => unanswered'[c] > 0
                      /\ answer'[c] = "done" => c \notin want'
                      /\ Earlier(c)' = 0 /\ answer'[c] # "done" =>
                           /\ \A y \in tries' : y.cmd = c /\ MayRun(y) => c \in out' /\ y.n = attempt'[c]
                           /\ \A p \in ran' : p.cmd = c => c \in out' /\ p.n = attempt'[c]
    BY DEF Counted
  <2>1. Earlier(c)' = Earlier(c)
    BY <1>8 DEF Earlier
  <2>2. \A y \in tries' : MayRun(y) => y \in tries
    BY <1>3, <1>12 DEF MayRun
  <2>3. Earlier(c) = 0 /\ answer[c] # "done" =>
          /\ \A y \in tries : y.cmd = c /\ MayRun(y) => c \in out /\ y.n = attempt[c]
          /\ \A p \in ran : p.cmd = c => c \in out /\ p.n = attempt[c]
    BY DEF IInv, Counted
  <2>4. (c \in out => unanswered[c] > 0) /\ (answer[c] = "done" => c \notin want)
    BY DEF IInv, Counted
  <2>5. Earlier(c)' = 0 /\ answer'[c] # "done" =>
          \A p \in ran' : p.cmd = c => c \in out' /\ p.n = attempt'[c]
    BY <1>2, <1>7, <1>8, <2>1, <2>3
  <2>6. QED
    BY <1>8, <2>1, <2>2, <2>3, <2>4, <2>5
<1>16. Under'
  <2>1. \A y \in tries' : MayRun(y) => y.as = ranUnder'[y.cmd]
    BY <1>3, <1>8, <1>12 DEF IInv, Under, MayRun
  <2>2. \A p \in ran' : p.as = ranUnder'[p.cmd]
    BY <1>2, <1>7, <1>8 DEF IInv, Under
  <2>3. \A y \in tries' : y.at = "claimed" /\ y.ran = 0 /\ attempt'[y.cmd] = y.n =>
          /\ y.cmd # t.cmd
          /\ \A u \in tries' : u.cmd = y.cmd /\ MayRun(u) => u = y
          /\ \A p \in ran : p.cmd # y.cmd
    BY <1>2, <1>3, <1>8, <1>12 DEF IInv, Under, MayRun
  <2>4. QED
    BY <1>7, <2>1, <2>2, <2>3 DEF Under
<1>17. Tokens' /\ InHand'
  BY <1>6, <1>8 DEF IInv, Tokens, InHand, Known
<1>18. Kept'
  <2>1. \A y \in tries' : \E u \in tries : u.cmd = y.cmd /\ u.as = y.as /\ u.conn = y.conn /\ Key(y)' = Key(u)
    BY <1>5, <1>6, <1>12 DEF Key
  <2>2. \A y \in tries' : y.as = identity' => conns'[y.conn].token = held'.token
    BY <1>6, <1>8, <2>1 DEF IInv, Kept
  <2>3. \A y, z \in tries' : y.as = z.as => conns'[y.conn].token = conns'[z.conn].token
    BY <1>6, <1>8, <2>1 DEF IInv, Kept
  <2>4. \A p \in ran', y \in tries' : p.cmd = y.cmd /\ p.as = y.as => Key(y)' \in stored'
    <3>1. \A u \in tries : u.cmd = t.cmd /\ u.as = t.as => Key(u) = Key(t)
      BY OneReceipt
    <3>2. QED
      BY <1>7, <2>1, <3>1 DEF IInv, Kept
  <2>5. \A p \in ran', w \in Wires : p.as = identity' /\ Known(w)' /\ conns'[w].token = held'.token =>
          KeyOf(w, p.cmd)' \in stored'
    <3> SUFFICES ASSUME NEW w \in Wires, Known(w), conns[w].token = held.token, t.as = identity
                 PROVE  KeyOf(w, t.cmd) = Key(t)
      BY <1>6, <1>7, <1>8 DEF IInv, Kept, KeyOf, Known
    <3>1. conns[t.conn].token = held.token /\ Known(t.conn)
      BY DEF IInv, Kept, Numbered
    <3>2. QED
      BY <1>4, <3>1 DEF IInv, Tokens, Key, KeyOf
  <2>6. QED
    BY <2>2, <2>3, <2>4, <2>5 DEF Kept
<1>19. Owned'
  BY <1>2, <1>3, <1>7, <1>11, <1>12 DEF IInv, Owned
<1>20. Told'
  <2>1. e \in ran' /\ e.cmd = t.cmd /\ ran \subseteq ran'
    BY <1>7
  <2>2. Key(t)[3] = t.cmd
    BY DEF Key
  <2>3. Told
    BY DEF IInv
  <2>4. \A k \in stored' : \E p \in ran' : p.cmd = k[3]
    <3>1. \A k \in stored : \E p \in ran' : p.cmd = k[3]
      BY <2>1, <2>3 DEF Told
    <3>2. QED
      BY <1>7, <2>1, <2>2, <3>1
  <2>5. \A y \in tries' : y.ans = "done" => \E p \in ran' : p.cmd = y.cmd
    <3>1. \A y \in tries : y.ans = "done" => \E p \in ran' : p.cmd = y.cmd
      BY <2>1, <2>3 DEF Told
    <3>2. QED
      BY <1>5, <1>12, <2>1, <3>1
  <2>6. QED
    BY <1>8, <2>3, <2>4, <2>5 DEF Told
<1>21. RunsOnceAsBound'
  BY <1>7, <1>8, <1>9 DEF IInv, RunsOnceAsBound, Numbered
<1>22. AnswersAreTrue'
  <2>1. answer[t.cmd] # "not_run"
    BY <1>2, <1>4 DEF IInv, AnswersAreTrue
  <2>2. \A y \in tries' : MayRun(y) => y \in tries
    BY <1>3, <1>12 DEF MayRun
  <2>3. QED
    BY <1>7, <1>8, <2>1, <2>2 DEF IInv, AnswersAreTrue
<1>23. QED
  BY <1>13, <1>14, <1>15, <1>16, <1>17, <1>18, <1>19, <1>20, <1>21, <1>22 DEF IInv


-----------------------------------------------------------------------------
(* Steps that count no attempt *)

LEMMA CountsKeep ==
  ASSUME IInv, tries' \subseteq tries, SidesKept, out' \subseteq out,
         UNCHANGED <<identity, held, counts, pinned, receipts>>,
         \A c \in Cmds : /\ (answer'[c] = "done") = (answer[c] = "done")
                         /\ answer'[c] = "done" => c \notin want',
         TypeOK', Tokens', InHand', Told', AnswersAreTrue'
  PROVE  IInv'
<1>1. Follow(Nothing, Nothing) /\ Nothing.at # "running"
  BY DropsFollow
<1>2. /\ UNCHANGED <<identity, held, attempt, ranUnder, unanswered, pinned>>
      /\ reserved' = reserved /\ stored' = stored /\ ran' = ran
  BY DEF counts, receipts
<1>3. identity' \in Nat /\ identity' >= identity
  BY <1>2 DEF IInv, TypeOK
<1>4. Numbered'
  BY <1>1, <1>2, <1>3, NumberedStays DEF IInv
<1>5. Counted'
  BY <1>1, <1>2, CountedStays DEF IInv
<1>6. Under'
  BY <1>1, <1>2, UnderStays DEF IInv
<1>7. Kept'
  BY <1>1, <1>2, KeptStays DEF IInv
<1>8. Owned'
  BY <1>1, <1>2, OwnedStays DEF IInv
<1>9. RunsOnceAsBound'
  BY <1>2 DEF IInv, RunsOnceAsBound
<1>10. QED
  BY <1>4, <1>5, <1>6, <1>7, <1>8, <1>9 DEF IInv

LEMMA CommandsKeep ==
  ASSUME IInv, tries' \subseteq tries, SidesKept,
         UNCHANGED <<identity, held, commands, receipts>>, TypeOK', Tokens', InHand'
  PROVE  IInv'
<1>1. Follow(Nothing, Nothing) /\ Nothing.ans # "done"
  BY DropsFollow
<1>2. /\ UNCHANGED <<want, out, resolved, counts, pinned, answer>>
      /\ stored' = stored /\ ran' = ran
  BY DEF commands, flags, receipts
<1>3. Told'
  BY <1>1, <1>2, ToldStays DEF IInv
<1>4. AnswersAreTrue'
  BY <1>1, <1>2, AnswersStay DEF IInv
<1>5. \A c \in Cmds : answer[c] = "done" => c \notin want
  BY DEF IInv, Counted
<1>6. QED
  BY <1>2, <1>3, <1>4, <1>5, CountsKeep

\* Of a step that changes the host and the connections' states.
LEMMA HostKeeps ==
  ASSUME IInv, tries' \subseteq tries, SidesKept, conns' \in [Wires -> Sides],
         UNCHANGED <<client, commands, receipts>>,
         host' \in [proc : Nat, inc : Nat, minted : Nat, tokens : Nat],
         host'.tokens = host.tokens, host'.minted = host.minted \/ host'.minted = 0,
         binds' \in [Wires -> [conn : Wires \cup {0}, gen : Nat, token : Nat]],
         \A i \in Wires : \/ binds'[i].token = 0
                          \/ binds'[i].token = binds[i].token /\ host'.inc = host.inc,
         losses' \in 0..MaxLosses, refusals' \in 0..MaxRefusals
  PROVE  IInv'
<1>1. UNCHANGED <<link, wire, identity, held>>
  BY DEF client
<1>2. TypeOK'
  BY <1>1 DEF IInv, TypeOK, commands, flags, counts, receipts
<1>3. Tokens'
  BY <1>1, TokensStay DEF IInv
<1>4. InHand'
  BY <1>1, InHandStays DEF IInv
<1>5. QED
  BY <1>1, <1>2, <1>3, <1>4, CommandsKeep

LEMMA HostClosesKeeps ==
  ASSUME IInv, NEW w \in Wires, HostCloses(w)
  PROVE  IInv'
<1>1. tries' \subseteq tries
  BY DEF HostCloses, Closing
<1>2. conns \in [Wires -> Sides] /\ conns' = [conns EXCEPT ![w].them = "closed"]
  BY DEF IInv, TypeOK, HostCloses
<1>3. conns' \in [Wires -> Sides]
  BY <1>2 DEF Sides
<1>4. SidesKept
  BY <1>2 DEF SidesKept, Sides
<1>5. /\ binds' \in [Wires -> [conn : Wires \cup {0}, gen : Nat, token : Nat]]
      /\ \A i \in Wires : binds'[i].token = binds[i].token
  BY DEF IInv, TypeOK, HostCloses
<1>6. host' = host /\ host \in [proc : Nat, inc : Nat, minted : Nat, tokens : Nat]
      /\ losses' \in 0..MaxLosses /\ refusals' \in 0..MaxRefusals
      /\ UNCHANGED <<client, commands, receipts>>
  BY DEF IInv, TypeOK, HostCloses, bounds
<1>7. QED
  BY <1>1, <1>3, <1>4, <1>5, <1>6, HostKeeps

LEMMA LosesType ==
  ASSUME TypeOK, Loses
  PROVE  losses' \in 0..MaxLosses /\ refusals' \in 0..MaxRefusals
  BY CommandsAssumption DEF TypeOK, Loses

LEMMA NoBindingsType ==
  ASSUME NoBindings
  PROVE  /\ binds' \in [Wires -> [conn : Wires \cup {0}, gen : Nat, token : Nat]]
         /\ \A i \in Wires : binds'[i].token = 0
  BY DEF NoBindings, NoBinding

LEMMA ReplaceKeeps ==
  ASSUME IInv, Replace
  PROVE  IInv'
<1>1. tries' \subseteq tries /\ SidesKept /\ UNCHANGED <<client, commands, receipts>>
  BY SidesSame DEF Replace
<1>2. conns' \in [Wires -> Sides]
  BY DEF IInv, TypeOK, Replace
<1>3. /\ host' \in [proc : Nat, inc : Nat, minted : Nat, tokens : Nat]
      /\ host'.tokens = host.tokens /\ host'.minted = 0
  <2>1. host \in [proc : Nat, inc : Nat, minted : Nat, tokens : Nat]
    BY DEF IInv, TypeOK
  <2>2. host' = [host EXCEPT !.inc = @ + 1, !.minted = 0]
    BY DEF Replace
  <2>3. host.inc + 1 \in Nat /\ 0 \in Nat
    BY <2>1
  <2>4. host' = [proc |-> host.proc, inc |-> host.inc + 1, minted |-> 0, tokens |-> host.tokens]
    BY <2>1, <2>2
  <2>5. QED
    BY <2>1, <2>3, <2>4
<1>4. losses' \in 0..MaxLosses /\ refusals' \in 0..MaxRefusals
  BY LosesType DEF IInv, Replace
<1>5. /\ binds' \in [Wires -> [conn : Wires \cup {0}, gen : Nat, token : Nat]]
      /\ \A i \in Wires : binds'[i].token = 0
  BY NoBindingsType DEF Replace
<1>6. QED
  BY <1>1, <1>2, <1>3, <1>4, <1>5, HostKeeps

LEMMA RestartKeeps ==
  ASSUME IInv, Restart
  PROVE  IInv'
<1>1. tries' \subseteq tries /\ UNCHANGED <<client, commands, receipts>>
  BY DEF Restart
<1>2. conns \in [Wires -> Sides]
  BY DEF IInv, TypeOK
<1>3. \A w \in Wires : conns'[w] = IF conns[w].them = "open" THEN [conns[w] EXCEPT !.them = "closed"]
                                   ELSE conns[w]
  BY DEF Restart
<1>4. conns' \in [Wires -> Sides]
  <2>1. \A w \in Wires : conns[w] \in Sides /\ [conns[w] EXCEPT !.them = "closed"] \in Sides
    BY <1>2 DEF Sides
  <2>2. \A w \in Wires : conns'[w] \in Sides
    BY <1>3, <2>1
  <2>3. QED
    BY <2>2 DEF Restart
<1>5. SidesKept
  BY <1>2, <1>3 DEF SidesKept, Sides
<1>6. /\ host' \in [proc : Nat, inc : Nat, minted : Nat, tokens : Nat]
      /\ host'.tokens = host.tokens /\ host'.minted = 0
  <2>1. host \in [proc : Nat, inc : Nat, minted : Nat, tokens : Nat]
    BY DEF IInv, TypeOK
  <2>2. host' = [host EXCEPT !.proc = @ + 1, !.inc = @ + 1, !.minted = 0]
    BY DEF Restart
  <2>3. host.proc + 1 \in Nat /\ host.inc + 1 \in Nat /\ 0 \in Nat
    BY <2>1
  <2>4. host' = [proc |-> host.proc + 1, inc |-> host.inc + 1, minted |-> 0, tokens |-> host.tokens]
    BY <2>1, <2>2
  <2>5. QED
    BY <2>1, <2>3, <2>4
<1>7. losses' \in 0..MaxLosses /\ refusals' \in 0..MaxRefusals
  BY LosesType DEF IInv, Restart
<1>8. /\ binds' \in [Wires -> [conn : Wires \cup {0}, gen : Nat, token : Nat]]
      /\ \A i \in Wires : binds'[i].token = 0
  BY NoBindingsType DEF Restart
<1>9. QED
  BY <1>1, <1>4, <1>5, <1>6, <1>7, <1>8, HostKeeps

LEMMA IdleOutKeeps ==
  ASSUME IInv, NEW i \in Wires, IdleOut(i)
  PROVE  IInv'
<1>1. tries' \subseteq tries /\ SidesKept /\ UNCHANGED <<client, commands, receipts>>
  BY SidesSame DEF IdleOut
<1>2. conns' \in [Wires -> Sides] /\ host' = host
      /\ host \in [proc : Nat, inc : Nat, minted : Nat, tokens : Nat]
  BY DEF IInv, TypeOK, IdleOut
<1>3. losses' \in 0..MaxLosses /\ refusals' \in 0..MaxRefusals
  BY LosesType DEF IInv, IdleOut
<1>4. /\ binds' \in [Wires -> [conn : Wires \cup {0}, gen : Nat, token : Nat]]
      /\ \A j \in Wires : binds'[j].token = 0 \/ binds'[j].token = binds[j].token
  BY DEF IInv, TypeOK, IdleOut, NoBinding
<1>5. QED
  BY <1>1, <1>2, <1>3, <1>4, HostKeeps


\* The client's end of a connection closes, or its reader does.
LEMMA UsKeeps ==
  ASSUME TypeOK, NEW w \in Wires, NEW s \in {"broken", "gone"}, conns[w].us # "none", Us(w, s)
  PROVE  SidesKept /\ conns' \in [Wires -> Sides]
<1>1. conns \in [Wires -> Sides] /\ conns' = [conns EXCEPT ![w].us = s]
  BY DEF TypeOK, Us
<1>2. SidesKept
  BY <1>1 DEF SidesKept, Sides
<1>3. conns' \in [Wires -> Sides]
  BY <1>1 DEF Sides
<1>4. QED
  BY <1>2, <1>3

LEMMA GoneKeeps ==
  ASSUME IInv, NEW w \in Wires, Gone(w)
  PROVE  IInv'
<1>1. SidesKept /\ conns' \in [Wires -> Sides]
  BY UsKeeps DEF IInv, Gone
<1>2. /\ tries' \subseteq tries /\ UNCHANGED <<identity, held, commands, receipts>>
      /\ UNCHANGED <<host, binds, losses, refusals>>
  BY DEF Gone, server, bounds
<1>3. (link' = "redial" /\ wire' = 0) \/ UNCHANGED <<link, wire>>
  BY DEF Gone
<1>4. TypeOK'
  BY <1>1, <1>2, <1>3 DEF IInv, TypeOK, Links, commands, flags, counts, receipts
<1>5. Tokens'
  <2>1. host \in [proc : Nat, inc : Nat, minted : Nat, tokens : Nat]
    BY DEF IInv, TypeOK
  <2>2. QED
    BY <1>1, <1>2, <2>1, TokensStay DEF IInv
<1>6. InHand'
  BY <1>1, <1>2, <1>3, InHandStays DEF IInv
<1>7. QED
  BY <1>1, <1>2, <1>4, <1>5, <1>6, CommandsKeep

\* The write fails.
LEMMA BreaksKeeps ==
  ASSUME IInv, NEW t \in tries, Breaks(t), UNCHANGED <<client, server, receipts, bounds>>
  PROVE  /\ SidesKept /\ conns' \in [Wires -> Sides] /\ tries' \subseteq tries
         /\ Tokens' /\ InHand'
<1>1. t.conn \in Wires /\ tries' \subseteq tries
  BY TriesTyped DEF IInv, Breaks, Drops
<1>2. SidesKept /\ conns' \in [Wires -> Sides]
  <2>1. CASE conns' = conns
    BY <2>1, SidesSame DEF IInv, TypeOK
  <2>2. CASE conns[t.conn].us = "open" /\ Us(t.conn, "broken")
    BY <1>1, <2>2, UsKeeps DEF IInv
  <2>3. QED
    BY <2>1, <2>2 DEF Breaks
<1>3. UNCHANGED <<link, wire, identity, held, host, binds>>
  BY DEF client, server
<1>4. Tokens'
  <2>1. host \in [proc : Nat, inc : Nat, minted : Nat, tokens : Nat]
    BY DEF IInv, TypeOK
  <2>2. QED
    BY <1>2, <1>3, <2>1, TokensStay DEF IInv
<1>5. InHand'
  BY <1>2, <1>3, InHandStays DEF IInv
<1>6. QED
  BY <1>1, <1>2, <1>4, <1>5

LEMMA CutOffKeeps ==
  ASSUME IInv, NEW t \in tries, Breaks(t), UNCHANGED <<client, commands, server, receipts, bounds>>
  PROVE  IInv'
<1>1. SidesKept /\ conns' \in [Wires -> Sides] /\ tries' \subseteq tries /\ Tokens' /\ InHand'
  BY BreaksKeeps
<1>2. UNCHANGED <<identity, held>>
  BY DEF client
<1>3. TypeOK'
  BY <1>1 DEF IInv, TypeOK, client, commands, server, flags, counts, receipts, bounds
<1>4. QED
  BY <1>1, <1>2, <1>3, CommandsKeep

\* The last attempt, counted no more: what it leaves of its command.
LEMMA LatestAlone ==
  ASSUME IInv, NEW t \in tries, attempt[t.cmd] = t.n, t.cmd \in out, unanswered[t.cmd] = 1,
         answer[t.cmd] # "done", t.at # "reply" \/ t.ans # "done"
  PROVE  /\ \A u \in tries : u.cmd = t.cmd /\ MayRun(u) => u = t
         /\ \A p \in ran : p.cmd # t.cmd
<1>1. t.cmd \in Cmds
  BY TriesTyped DEF IInv
<1>2. Earlier(t.cmd) = 0
  BY DEF Earlier
<1>3. \A u \in tries : u.cmd = t.cmd /\ MayRun(u) => u.n = t.n
  BY <1>1, <1>2 DEF IInv, Counted
<1>4. \A p \in ran : p.cmd = t.cmd => p.n = t.n
  BY <1>1, <1>2 DEF IInv, Counted
<1>5. QED
  BY <1>3, <1>4 DEF IInv, Numbered

\* So also when its answer or its failure is counted: with no attempt before it,
\* nothing has run and nothing may.
LEMMA CountedDown ==
  ASSUME IInv, NEW t \in tries, attempt[t.cmd] = t.n, t.cmd \in out,
         \/ answer[t.cmd] # "done" /\ (t.at # "reply" \/ t.ans # "done")
         \/ answer'[t.cmd] = "done",
         tries' = tries \ {t}, ran' = ran, attempt' = attempt, out' = out \ {t.cmd},
         unanswered' = [unanswered EXCEPT ![t.cmd] = @ - 1],
         \A c \in Cmds : /\ answer'[c] = "done" => c \notin want'
                         /\ c # t.cmd => (answer'[c] = "done") = (answer[c] = "done")
  PROVE  Counted' /\ unanswered' \in [Cmds -> Nat]
<1>1. t.cmd \in Cmds /\ unanswered \in [Cmds -> Nat]
  BY TriesTyped DEF IInv, TypeOK
<1>2. unanswered[t.cmd] > 0
  BY <1>1 DEF IInv, Counted
<1>3. unanswered' \in [Cmds -> Nat]
  <2>1. unanswered[t.cmd] - 1 \in Nat
    BY <1>1, <1>2
  <2>2. QED
    BY <1>1, <2>1
<1>4. ASSUME NEW c \in Cmds
      PROVE  /\ c \in out' => unanswered'[c] > 0
             /\ answer'[c] = "done" => c \notin want'
             /\ Earlier(c)' = 0 /\ answer'[c] # "done" =>
                  /\ \A y \in tries' : y.cmd = c /\ MayRun(y) => c \in out' /\ y.n = attempt'[c]
                  /\ \A p \in ran' : p.cmd = c => c \in out' /\ p.n = attempt'[c]
  <2>1. CASE c = t.cmd
    <3>1. ASSUME Earlier(c)' = 0, answer'[c] # "done"
          PROVE  /\ \A y \in tries' : y.cmd = c => ~MayRun(y)
                 /\ \A p \in ran' : p.cmd # c
      <4>1. unanswered[t.cmd] = 1
        BY <1>1, <2>1, <3>1 DEF Earlier
      <4>2. answer[t.cmd] # "done" /\ (t.at # "reply" \/ t.ans # "done")
        BY <2>1, <3>1
      <4>3. QED
        BY <2>1, <4>1, <4>2, LatestAlone
    <3>2. QED
      BY <2>1, <3>1
  <2>2. CASE c # t.cmd
    <3>1. Earlier(c)' = Earlier(c) /\ (c \in out') = (c \in out) /\ unanswered'[c] = unanswered[c]
      BY <1>1, <2>2 DEF Earlier
    <3>2. QED
      BY <2>2, <3>1 DEF IInv, Counted
  <2>3. QED
    BY <2>1, <2>2
<1>5. QED
  BY <1>3, <1>4 DEF Counted


\* Nothing of it was written, so what is left is as it was before.
LEMMA UnsentKeeps ==
  ASSUME IInv, NEW t \in tries, Unsent(t)
  PROVE  IInv'
<1>1. Breaks(t) /\ tries' = tries \ {t} /\ t.at = "claimed"
  BY DEF Unsent, Breaks, Drops
<1>2. /\ UNCHANGED <<client, cmds, want, waiting, resent, resolved, attempt, pinned, answer,
                     calling, server, receipts, bounds>>
      /\ UNCHANGED <<identity, held>> /\ stored' = stored /\ reserved' = reserved /\ ran' = ran
  BY DEF Unsent, client, receipts
<1>3. SidesKept /\ conns' \in [Wires -> Sides] /\ tries' \subseteq tries /\ Tokens' /\ InHand'
  BY <1>1, <1>2, BreaksKeeps
<1>4. CASE ~(attempt[t.cmd] = t.n /\ t.cmd \in out)
  BY <1>1, <1>2, <1>4, CutOffKeeps DEF Unsent, commands, flags, counts
<1>5. CASE attempt[t.cmd] = t.n /\ t.cmd \in out
  <2>1. /\ out' = out \ {t.cmd} /\ unanswered' = [unanswered EXCEPT ![t.cmd] = @ - 1]
        /\ ranUnder' = [ranUnder EXCEPT ![t.cmd] = t.ran]
    BY <1>5 DEF Unsent
  <2>2. t.cmd \in Cmds /\ t.ran \in Nat
    BY TriesTyped DEF IInv
  <2>3. Follow(Nothing, Nothing) /\ Nothing.at # "running" /\ Nothing.ans # "done"
    BY <1>3, DropsFollow
  <2>4. \A c \in Cmds : answer[c] = "done" => c \notin want
    BY DEF IInv, Counted
  <2>5. Counted' /\ unanswered' \in [Cmds -> Nat]
    <3>1. CASE answer[t.cmd] = "done"
      BY <1>1, <1>2, <1>5, <2>1, <2>4, <3>1, CountedDown
    <3>2. CASE answer[t.cmd] # "done"
      BY <1>1, <1>2, <1>5, <2>1, <2>4, <3>2, CountedDown
    <3>3. QED
      BY <3>1, <3>2
  <2>6. ranUnder' \in [Cmds -> Nat]
    BY <2>1, <2>2 DEF IInv, TypeOK
  <2>7. TypeOK'
    BY <1>2, <1>3, <2>1, <2>5, <2>6
    DEF IInv, TypeOK, client, commands, server, flags, counts, receipts, bounds
  <2>8. Under'
    <3>1. MayRun(t) /\ t.as = ranUnder[t.cmd] /\ t.ran \in {0, t.as}
      BY <1>1 DEF IInv, MayRun, Under, Numbered
    <3>2. t.ran # t.as =>
            /\ \A u \in tries : u.cmd = t.cmd /\ MayRun(u) => u = t
            /\ \A p \in ran : p.cmd # t.cmd
      BY <1>1, <1>5, <3>1 DEF IInv, Under
    <3>3. \A c \in Cmds : ranUnder'[c] = IF c = t.cmd THEN t.ran ELSE ranUnder[c]
      BY <2>1 DEF IInv, TypeOK
    <3>4. \A y \in tries' : y \in tries /\ y # t /\ y.cmd \in Cmds
      BY <1>1, TriesTyped DEF IInv
    <3>5. \A y \in tries' : MayRun(y) => y.as = ranUnder'[y.cmd]
      BY <3>1, <3>2, <3>3, <3>4 DEF IInv, Under
    <3>6. \A p \in ran : p.as = ranUnder'[p.cmd]
      BY <3>1, <3>2, <3>3 DEF IInv, Under, TypeOK
    <3>7. \A y \in tries' : y.at = "claimed" /\ y.ran = 0 /\ attempt'[y.cmd] = y.n =>
            /\ \A u \in tries' : u.cmd = y.cmd /\ MayRun(u) => u = y
            /\ \A p \in ran : p.cmd # y.cmd
      BY <1>2, <3>4 DEF IInv, Under
    <3>8. QED
      BY <1>2, <3>5, <3>6, <3>7 DEF Under
  <2>9. Numbered'
    <3>1. identity' \in Nat /\ identity' >= identity
      BY <1>2 DEF IInv, TypeOK
    <3>2. QED
      BY <1>2, <1>3, <2>3, <3>1, NumberedStays DEF IInv
  <2>10. Kept'
    BY <1>2, <1>3, <2>3, KeptStays DEF IInv
  <2>11. Owned'
    BY <1>2, <1>3, <2>3, OwnedStays DEF IInv
  <2>12. Told'
    BY <1>2, <2>3, ToldStays DEF IInv
  <2>13. AnswersAreTrue'
    BY <1>2, <2>3, AnswersStay DEF IInv
  <2>14. RunsOnceAsBound'
    BY <1>2 DEF IInv, RunsOnceAsBound
  <2>15. QED
    BY <1>3, <2>5, <2>7, <2>8, <2>9, <2>10, <2>11, <2>12, <2>13, <2>14 DEF IInv
<1>6. QED
  BY <1>4, <1>5

\* An answer that is not the latest attempt's changes nothing.  The latest one's
\* forgets the identity only if nothing else can have run.
LEMMA ReplyKeeps ==
  ASSUME IInv, NEW t \in tries, Reply(t)
  PROVE  IInv'
<1>1. tries' = tries \ {t} /\ tries' \subseteq tries /\ t.at = "reply"
  BY DEF Reply, Drops
<1>2. /\ UNCHANGED <<client, cmds, resent, resolved, attempt, pinned, calling, conns, server,
                     receipts, bounds>>
      /\ UNCHANGED <<link, wire, identity, held, host, binds, losses, refusals>>
      /\ stored' = stored /\ reserved' = reserved /\ ran' = ran
  BY DEF Reply, client, server, receipts, bounds
<1>3. SidesKept /\ conns' \in [Wires -> Sides]
  BY <1>2, SidesSame DEF IInv, TypeOK
<1>4. Tokens' /\ InHand'
  BY <1>2 DEF IInv, Tokens, InHand, Known
<1>5. t \in Tries /\ t.cmd \in Cmds
  BY TriesTyped DEF IInv
<1>6. CASE ~Current(t)
  <2>1. UNCHANGED <<want, out, waiting, ranUnder, unanswered, answer>>
    BY <1>6 DEF Reply
  <2>2. UNCHANGED commands
    BY <1>2, <2>1 DEF commands, flags, counts
  <2>3. TypeOK'
    BY <1>1, <1>2, <1>3, <2>1 DEF IInv, TypeOK
  <2>4. QED
    BY <1>1, <1>2, <1>3, <1>4, <2>2, <2>3, CommandsKeep
<1>7. CASE Current(t)
  <2>1. /\ t.cmd \notin resolved /\ t.cmd \in want /\ t.cmd \in out /\ attempt[t.cmd] = t.n
        /\ answer[t.cmd] # "done"
    BY <1>5, <1>7 DEF Current, IInv, Counted
  <2>2. out' = out \ {t.cmd} /\ unanswered' = [unanswered EXCEPT ![t.cmd] = @ - 1]
    BY <1>7 DEF Reply
  <2>3. Follow(Nothing, Nothing) /\ Nothing.at # "running" /\ Nothing.ans # "done"
    BY <1>1, DropsFollow
  <2>4. \/ /\ t.ans # "done" /\ UNCHANGED <<want, ranUnder, answer>>
           /\ waiting' = waiting \cup {t.cmd}
        \/ /\ want' = want \ {t.cmd} /\ waiting' = waiting
           /\ answer' = [answer EXCEPT ![t.cmd] = t.ans]
           /\ ranUnder' = [ranUnder EXCEPT ![t.cmd] = IF Clears(t) THEN 0 ELSE @]
    BY <1>7 DEF Reply, WaitsOut
  <2>5. t.ans \in Answers /\ t.ans # "not_run"
    BY <1>5 DEF Tries, Answers, Retryable
  <2>6. answer' \in [Cmds -> Answers] /\ ranUnder' \in [Cmds -> Nat]
    BY <2>4, <2>5 DEF IInv, TypeOK
  <2>7. \A c \in Cmds : /\ c # t.cmd => answer'[c] = answer[c] /\ (c \in want' => c \in want)
                        /\ answer'[c] = answer[c] \/ (c = t.cmd /\ answer'[c] = t.ans)
                        /\ answer'[c] = "done" => c \notin want'
    <3>1. answer \in [Cmds -> Answers] /\ \A c \in Cmds : answer[c] = "done" => c \notin want
      BY DEF IInv, TypeOK, Counted
    <3>2. QED
      BY <1>5, <2>4, <3>1
  <2>8. Counted' /\ unanswered' \in [Cmds -> Nat]
    <3>1. \/ answer[t.cmd] # "done" /\ (t.at # "reply" \/ t.ans # "done")
          \/ answer'[t.cmd] = "done"
      BY <1>5, <2>1, <2>4 DEF IInv, TypeOK
    <3>2. QED
      BY <1>1, <1>2, <2>1, <2>2, <2>7, <3>1, CountedDown
  <2>9. TypeOK'
    BY <1>1, <1>2, <1>3, <2>2, <2>4, <2>6, <2>8, <1>5 DEF IInv, TypeOK
  <2>10. Under'
    <3>1. CASE ranUnder' = ranUnder
      BY <1>2, <2>3, <3>1, UnderStays DEF IInv
    <3>2. CASE ranUnder' = [ranUnder EXCEPT ![t.cmd] = 0] /\ Clears(t)
      <4>1. t.ans # "done" /\ unanswered[t.cmd] = 1
        BY <3>2 DEF Clears, NothingRan
      <4>2. /\ \A u \in tries : u.cmd = t.cmd /\ MayRun(u) => u = t
            /\ \A p \in ran : p.cmd # t.cmd
        BY <2>1, <4>1, LatestAlone
      <4>3. \A c \in Cmds : c # t.cmd => ranUnder'[c] = ranUnder[c]
        BY <3>2 DEF IInv, TypeOK
      <4>4. \A y \in tries' : y \in tries /\ y # t /\ y.cmd \in Cmds
        BY <1>1, TriesTyped DEF IInv
      <4>5. \A y \in tries' : MayRun(y) => y.as = ranUnder'[y.cmd]
        BY <4>2, <4>3, <4>4 DEF IInv, Under
      <4>6. \A p \in ran : p.as = ranUnder'[p.cmd]
        BY <4>2, <4>3 DEF IInv, Under, TypeOK
      <4>7. \A y \in tries' : y.at = "claimed" /\ y.ran = 0 /\ attempt'[y.cmd] = y.n =>
              /\ \A u \in tries' : u.cmd = y.cmd /\ MayRun(u) => u = y
              /\ \A p \in ran : p.cmd # y.cmd
        BY <1>2, <4>4 DEF IInv, Under
      <4>8. QED
        BY <1>2, <4>5, <4>6, <4>7 DEF Under
    <3>3. QED
      BY <2>4, <3>1, <3>2 DEF IInv, TypeOK
  <2>11. Numbered'
    <3>1. identity' \in Nat /\ identity' >= identity
      BY <1>2 DEF IInv, TypeOK
    <3>2. QED
      BY <1>2, <1>3, <2>3, <3>1, NumberedStays DEF IInv
  <2>12. Kept'
    BY <1>2, <1>3, <2>3, KeptStays DEF IInv
  <2>13. Owned'
    BY <1>2, <1>3, <2>3, OwnedStays DEF IInv
  <2>14. Told'
    BY <1>2, <2>1, <2>3, <2>5, <2>7, <2>9, ToldStays DEF IInv, TypeOK
  <2>15. AnswersAreTrue'
    <3>1. t.ans = "done" => \E p \in ran : p.cmd = t.cmd
      BY DEF IInv, Told
    <3>2. \A c \in Cmds : \/ answer'[c] = answer[c]
                          \/ answer'[c] \notin {"done", "not_run"}
                          \/ answer'[c] = "done" /\ \E p \in ran : p.cmd = c
      BY <2>5, <2>7, <3>1
    <3>3. QED
      BY <1>2, <2>3, <3>2, AnswersStay DEF IInv
  <2>16. RunsOnceAsBound'
    BY <1>2 DEF IInv, RunsOnceAsBound
  <2>17. QED
    BY <1>4, <2>8, <2>9, <2>10, <2>11, <2>12, <2>13, <2>14, <2>15, <2>16 DEF IInv
<1>8. QED
  BY <1>6, <1>7


-----------------------------------------------------------------------------
(* Steps of the caller and of an attempt's start *)

\* What is settled is settled truly: under identity 0 nothing has run or may.
LEMMA Settled ==
  ASSUME IInv, NEW S, S \subseteq want, NEW i, Resolve(S, i), tries' \subseteq tries,
         ran' = ran, stored' = stored
  PROVE  /\ Told' /\ AnswersAreTrue' /\ answer' \in [Cmds -> Answers]
         /\ resolved' \subseteq Cmds /\ want' \subseteq Cmds
         /\ \A c \in Cmds : /\ (answer'[c] = "done") = (answer[c] = "done")
                            /\ answer'[c] = "done" => c \notin want'
<1>1. want \subseteq Cmds /\ resolved \subseteq Cmds /\ answer \in [Cmds -> Answers]
  BY DEF IInv, TypeOK
<1>2. resolved' = resolved \cup S /\ want' = want \ S
  BY DEF Resolve
<1>3. \A c \in Cmds : answer'[c] = IF c \in S THEN Verdict(c, i) ELSE answer[c]
  BY DEF Resolve
<1>4. \A c : Verdict(c, i) \in {"stale", "unknown", "not_run"}
  BY DEF Verdict
<1>5. \A c : Verdict(c, i) = "not_run" => ranUnder[c] = 0
  BY DEF Verdict
<1>6. answer' \in [Cmds -> Answers]
  <2>1. \A c \in Cmds : (IF c \in S THEN Verdict(c, i) ELSE answer[c]) \in Answers
    BY <1>1, <1>4 DEF Answers
  <2>2. QED
    BY <2>1 DEF Resolve
<1>7. \A c \in Cmds : answer[c] = "done" => c \notin want
  BY DEF IInv, Counted
<1>8. \A c \in Cmds : /\ (answer'[c] = "done") = (answer[c] = "done")
                      /\ answer'[c] = "done" => c \notin want'
  BY <1>2, <1>3, <1>4, <1>7
<1>9. Told'
  <2>1. \A c \in resolved' : answer'[c] \in {"stale", "unknown", "not_run"} /\ c \notin want'
    BY <1>1, <1>2, <1>3, <1>4 DEF IInv, Told
  <2>2. \A c \in Cmds : answer'[c] = "not_run" => c \in resolved'
    BY <1>2, <1>3 DEF IInv, Told
  <2>3. QED
    BY <2>1, <2>2 DEF IInv, Told
<1>10. AnswersAreTrue'
  <2> SUFFICES ASSUME NEW c \in Cmds
               PROVE  /\ answer'[c] = "done" => \E p \in ran : p.cmd = c
                      /\ answer'[c] = "not_run" => /\ \A p \in ran : p.cmd # c
                                                   /\ \A t \in tries' : t.cmd = c => ~MayRun(t)
    BY DEF AnswersAreTrue
  <2>1. answer'[c] = "done" => \E p \in ran : p.cmd = c
    BY <1>8 DEF IInv, AnswersAreTrue
  <2>2. ASSUME answer'[c] = "not_run"
        PROVE  /\ \A p \in ran : p.cmd # c
               /\ \A t \in tries' : t.cmd = c => ~MayRun(t)
    <3>1. CASE c \in S
      <4>1. ranUnder[c] = 0
        BY <1>3, <1>5, <2>2, <3>1
      <4>2. (\A p \in ran : p.as > 0) /\ \A t \in tries : t.as > 0
        BY DEF IInv, Numbered
      <4>3. \A p \in ran : p.cmd # c
        BY <4>1, <4>2 DEF IInv, Under
      <4>4. \A t \in tries : t.cmd = c => ~MayRun(t)
        BY <4>1, <4>2 DEF IInv, Under
      <4>5. QED
        BY <4>3, <4>4
    <3>2. CASE c \notin S
      BY <1>3, <2>2, <3>2 DEF IInv, AnswersAreTrue
    <3>3. QED
      BY <3>1, <3>2
  <2>3. QED
    BY <2>1, <2>2
<1>11. QED
  BY <1>1, <1>2, <1>6, <1>8, <1>9, <1>10

\* A step of the caller that sends nothing, and gives only what is true.
LEMMA CallerKeeps ==
  ASSUME IInv, UNCHANGED <<client, out, counts, pinned, conns, tries, server, receipts, bounds>>,
         cmds' \subseteq Cmds, want' \subseteq Cmds, waiting' \subseteq Cmds, resent' = resent,
         resolved' = resolved, calling' \subseteq Cmds \X {"caller", "timer"},
         answer' \in [Cmds -> Answers],
         \A c \in Cmds : \/ answer'[c] = answer[c]
                         \/ /\ answer'[c] \notin {"done", "not_run"} /\ c \notin resolved
                            /\ answer[c] # "done",
         \A c \in want' : c \in want \/ (c \notin resolved /\ answer'[c] # "done")
  PROVE  IInv'
<1>1. /\ UNCHANGED <<link, wire, identity, held, attempt, ranUnder, unanswered, host, binds,
                     losses, refusals>>
      /\ reserved' = reserved /\ stored' = stored /\ ran' = ran
  BY DEF client, counts, server, receipts, bounds
<1>2. SidesKept /\ tries' \subseteq tries
  BY SidesSame
<1>3. TypeOK'
  BY <1>1 DEF IInv, TypeOK
<1>4. Tokens' /\ InHand'
  BY <1>1 DEF IInv, Tokens, InHand, Known
<1>5. Follow(Nothing, Nothing) /\ Nothing.ans # "done"
  BY <1>2, DropsFollow
<1>6. \A c \in Cmds : /\ (answer'[c] = "done") = (answer[c] = "done")
                      /\ answer'[c] = "done" => c \notin want'
  BY DEF IInv, Counted
<1>7. Told'
  BY <1>1, <1>5, ToldStays DEF IInv
<1>8. AnswersAreTrue'
  BY <1>1, <1>5, AnswersStay DEF IInv
<1>9. QED
  BY <1>1, <1>2, <1>3, <1>4, <1>6, <1>7, <1>8, CountsKeep

LEMMA RegisterKeeps ==
  ASSUME IInv, NEW c \in Cmds, Register(c)
  PROVE  IInv'
<1>1. c \notin resolved /\ answer[c] = "none"
  BY DEF Register, New
<1>2. UNCHANGED <<client, out, waiting, resent, resolved, counts, pinned, conns, tries, server,
                  receipts, bounds>>
  BY DEF Register
<1>3. /\ cmds \subseteq Cmds /\ want \subseteq Cmds /\ waiting \subseteq Cmds
      /\ calling \subseteq Cmds \X {"caller", "timer"} /\ answer \in [Cmds -> Answers]
  BY DEF IInv, TypeOK
<1>4. CASE /\ cmds' = cmds \cup {c} /\ want' = want \cup {c}
           /\ calling' = calling \cup {<<c, "caller">>} /\ answer' = answer
  BY <1>1, <1>2, <1>3, <1>4, CallerKeeps
<1>5. CASE answer' = [answer EXCEPT ![c] = "stale"] /\ UNCHANGED <<cmds, want, calling>>
  <2>1. answer' \in [Cmds -> Answers]
    BY <1>3, <1>5 DEF Answers
  <2>2. \A d \in Cmds : answer'[d] = IF d = c THEN "stale" ELSE answer[d]
    BY <1>3, <1>5
  <2>3. QED
    BY <1>1, <1>2, <1>3, <1>5, <2>1, <2>2, CallerKeeps
<1>6. QED
  BY <1>4, <1>5 DEF Register

LEMMA RetryKeeps ==
  ASSUME IInv, NEW c \in Cmds, Retry(c)
  PROVE  IInv'
<1>1. answer[c] \in Retryable /\ c \in Cmds
  BY DEF Retry
<1>2. c \notin resolved /\ answer[c] # "done"
  BY <1>1 DEF IInv, Told, Retryable
<1>3. UNCHANGED <<client, cmds, out, waiting, resent, resolved, counts, pinned, conns, tries,
                  server, receipts, bounds>>
  BY DEF Retry
<1>4. /\ cmds \subseteq Cmds /\ want \subseteq Cmds /\ waiting \subseteq Cmds
      /\ calling \subseteq Cmds \X {"caller", "timer"} /\ answer \in [Cmds -> Answers]
  BY DEF IInv, TypeOK
<1>5. /\ answer' = [answer EXCEPT ![c] = "none"] /\ want' = want \cup {c}
      /\ calling' = calling \cup {<<c, "caller">>}
  BY DEF Retry
<1>6. answer' \in [Cmds -> Answers]
  BY <1>4, <1>5 DEF Answers
<1>7. \A d \in Cmds : answer'[d] = IF d = c THEN "none" ELSE answer[d]
  BY <1>4, <1>5
<1>8. QED
  BY <1>2, <1>3, <1>4, <1>5, <1>6, <1>7, CallerKeeps

LEMMA LeavesKeeps ==
  ASSUME IInv, NEW c \in Cmds, Leaves(c)
  PROVE  IInv'
<1>1. /\ UNCHANGED <<client, out, waiting, resent, resolved, counts, pinned, conns, tries, server,
                     receipts, bounds>>
      /\ UNCHANGED <<want, calling, answer>> /\ cmds' = cmds \ {c}
  BY DEF Leaves, flags
<1>2. /\ cmds \subseteq Cmds /\ want \subseteq Cmds /\ waiting \subseteq Cmds
      /\ calling \subseteq Cmds \X {"caller", "timer"} /\ answer \in [Cmds -> Answers]
  BY DEF IInv, TypeOK
<1>3. QED
  BY <1>1, <1>2, CallerKeeps

LEMMA WaitedOutKeeps ==
  ASSUME IInv, NEW c \in Cmds, WaitedOut(c)
  PROVE  IInv'
<1>1. /\ UNCHANGED <<client, cmds, want, out, resent, resolved, counts, pinned, answer, conns,
                     tries, server, receipts, bounds>>
      /\ waiting' = waiting \ {c} /\ calling' = calling \cup {<<c, "timer">>}
  BY DEF WaitedOut
<1>2. /\ cmds \subseteq Cmds /\ want \subseteq Cmds /\ waiting \subseteq Cmds
      /\ calling \subseteq Cmds \X {"caller", "timer"} /\ answer \in [Cmds -> Answers]
  BY DEF IInv, TypeOK
<1>3. QED
  BY <1>1, <1>2, CallerKeeps

\* A binding is taken before the command is first sent.
LEMMA BindKeeps ==
  ASSUME IInv, NEW c \in Cmds, Bind(c)
  PROVE  IInv'
<1>1. /\ UNCHANGED <<client, cmds, flags, counts, answer, calling, conns, tries, server, receipts,
                     bounds>>
      /\ pinned' = [pinned EXCEPT ![c] = identity] /\ attempt[c] = 0
  BY DEF Bind, New
<1>2. /\ UNCHANGED <<link, wire, identity, held, want, out, waiting, resent, resolved, attempt,
                     ranUnder, unanswered, host, binds, losses, refusals>>
      /\ reserved' = reserved /\ stored' = stored /\ ran' = ran
  BY <1>1 DEF client, flags, counts, server, receipts, bounds
<1>3. (\A t \in tries : t.cmd # c) /\ \A p \in ran : p.cmd # c
  <2>1. (\A t \in tries : t.n \in Nat) /\ \A p \in ran : p.n \in Nat
    BY TriesTyped DEF IInv, TypeOK
  <2>2. QED
    BY <1>1, <2>1 DEF IInv, Numbered
<1>4. \A d \in Cmds : d # c => pinned'[d] = pinned[d]
  BY <1>1 DEF IInv, TypeOK
<1>5. pinned' \in [Cmds -> Nat]
  BY <1>1 DEF IInv, TypeOK
<1>6. (\A t \in tries : t.cmd \in Cmds) /\ \A p \in ran : p.cmd \in Cmds
  BY TriesTyped DEF IInv, TypeOK
<1>7. TypeOK'
  BY <1>1, <1>2, <1>5 DEF IInv, TypeOK
<1>8. Numbered'
  BY <1>1, <1>2, <1>3, <1>4, <1>6 DEF IInv, Numbered, Known
<1>9. Counted' /\ Under' /\ Tokens' /\ InHand'
  BY <1>1, <1>2 DEF IInv, Counted, Earlier, Under, MayRun, Tokens, InHand, Known
<1>10. Kept' /\ Owned' /\ Told' /\ AnswersAreTrue'
  BY <1>1, <1>2 DEF IInv, Kept, KeyOf, Key, Known, Owned, Told, AnswersAreTrue, MayRun
<1>11. RunsOnceAsBound'
  BY <1>2, <1>3, <1>4, <1>6 DEF IInv, RunsOnceAsBound
<1>12. QED
  BY <1>7, <1>8, <1>9, <1>10, <1>11 DEF IInv


\* An attempt is claimed under the identity in hand, which all before it that may
\* have run had.
LEMMA ClaimKeeps ==
  ASSUME IInv, NEW c \in Cmds, NEW by \in {"caller", "timer", "publish"},
         Claim(c, wire, by), ~NothingToSend(c), ~LeftBehind(c), link \in {"publish", "up"},
         calling' \subseteq calling,
         UNCHANGED <<client, cmds, waiting, pinned, conns, server, receipts, bounds>>
  PROVE  IInv'
<1> DEFINE x == [cmd |-> c, n |-> attempt[c] + 1, conn |-> wire, as |-> identity, by |-> by,
                 ran |-> ranUnder[c], at |-> "claimed", ans |-> "none"]
<1>1. /\ UNCHANGED <<link, wire, identity, held, cmds, want, waiting, resolved, pinned, answer, conns,
                     host, binds, losses, refusals>>
      /\ reserved' = reserved /\ stored' = stored /\ ran' = ran
  BY DEF Claim, client, server, receipts, bounds
<1>2. /\ out' = out \cup {c} /\ attempt' = [attempt EXCEPT ![c] = @ + 1]
      /\ unanswered' = [unanswered EXCEPT ![c] = @ + 1]
      /\ ranUnder' = [ranUnder EXCEPT ![c] = identity] /\ tries' = tries \cup {x}
      /\ resent' \subseteq resent \cup {c}
  BY DEF Claim
<1>3. c \notin resolved /\ c \in want /\ c \notin out
  BY DEF NothingToSend
<1>4. ranUnder[c] \in {0, identity} /\ pinned[c] \in {0, identity}
  BY DEF LeftBehind
<1>5. wire \in Wires /\ Known(wire) /\ conns[wire].token = held.token
  BY DEF IInv, InHand
<1>6. /\ attempt \in [Cmds -> Nat] /\ unanswered \in [Cmds -> Nat] /\ ranUnder \in [Cmds -> Nat]
      /\ identity \in Nat /\ identity > 0
  BY DEF IInv, TypeOK, Numbered
<1>7. x \in Tries
  BY <1>5, <1>6 DEF Tries
<1>8. \A t \in tries : t.cmd \in Cmds /\ t.n \in Nat /\ t.as \in Nat /\ t.n <= attempt[t.cmd]
  BY TriesTyped DEF IInv, Numbered
<1>9. \A p \in ran : p.cmd \in Cmds /\ p.n \in Nat /\ p.as \in Nat /\ p.n <= attempt[p.cmd]
  BY DEF IInv, TypeOK, Numbered
<1>10. \A d \in Cmds : /\ attempt'[d] = IF d = c THEN attempt[d] + 1 ELSE attempt[d]
                       /\ unanswered'[d] = IF d = c THEN unanswered[d] + 1 ELSE unanswered[d]
                       /\ ranUnder'[d] = IF d = c THEN identity ELSE ranUnder[d]
  BY <1>2, <1>6
\* Under identity 0, nothing before it.
<1>11. ranUnder[c] = 0 => /\ \A t \in tries : t.cmd = c => ~MayRun(t)
                          /\ \A p \in ran : p.cmd # c
  <2>1. (\A t \in tries : t.as > 0) /\ \A p \in ran : p.as > 0
    BY DEF IInv, Numbered
  <2>2. QED
    BY <2>1 DEF IInv, Under
<1>12. TypeOK'
  <2>1. /\ attempt' \in [Cmds -> Nat] /\ unanswered' \in [Cmds -> Nat]
        /\ ranUnder' \in [Cmds -> Nat]
    BY <1>2, <1>6
  <2>2. QED
    BY <1>1, <1>2, <1>7, <2>1 DEF IInv, TypeOK
<1>13. Numbered'
  <2> DEFINE Fits(y) ==
               /\ y.n > 0 /\ y.n <= attempt'[y.cmd] /\ y.as > 0 /\ y.as <= identity'
               /\ Known(y.conn)' /\ pinned'[y.cmd] \in {0, y.as} /\ y.ran \in {0, y.as}
  <2>1. \A y \in tries' : Fits(y)
    <3>1. ASSUME NEW y \in tries
          PROVE  Fits(y)
      <4>1. /\ y.n > 0 /\ y.as > 0 /\ y.as <= identity /\ Known(y.conn)
            /\ pinned[y.cmd] \in {0, y.as} /\ y.ran \in {0, y.as}
        BY DEF IInv, Numbered
      <4>2. Known(y.conn)'
        BY <1>1, <4>1 DEF Known
      <4>3. y.n <= attempt'[y.cmd]
        BY <1>6, <1>8, <1>10
      <4>4. QED
        BY <1>1, <4>1, <4>2, <4>3
    <3>2. Fits(x)
      BY <1>1, <1>4, <1>5, <1>6, <1>10 DEF Known
    <3>3. QED
      <4> HIDE DEF Fits, x
      <4> QED
        BY <1>2, <3>1, <3>2
  <2>2. \A y, z \in tries' : y.cmd = z.cmd /\ y.n = z.n => y = z
    <3>1. \A y \in tries : ~(y.cmd = x.cmd /\ y.n = x.n)
      BY <1>6, <1>8
    <3>2. \A y, z \in tries : y.cmd = z.cmd /\ y.n = z.n => y = z
      BY DEF IInv, Numbered
    <3>3. QED
      BY <1>2, <3>1, <3>2
  <2>3. \A p \in ran : /\ p.n > 0 /\ p.n <= attempt'[p.cmd] /\ p.as > 0 /\ p.as <= identity'
                       /\ pinned'[p.cmd] \in {0, p.as}
    BY <1>1, <1>6, <1>9, <1>10 DEF IInv, Numbered
  <2>4. \A p \in ran, y \in tries' : p.cmd = y.cmd /\ p.n = y.n => y.at = "reply" /\ y.ans = "done"
    <3>1. \A p \in ran : ~(p.cmd = x.cmd /\ p.n = x.n)
      BY <1>6, <1>9
    <3>2. \A p \in ran, y \in tries : p.cmd = y.cmd /\ p.n = y.n => y.at = "reply" /\ y.ans = "done"
      BY DEF IInv, Numbered
    <3>3. QED
      BY <1>2, <3>1, <3>2
  <2>5. QED
    BY <1>1, <1>6, <2>1, <2>2, <2>3, <2>4 DEF Numbered
<1>14. Counted'
  <2> SUFFICES ASSUME NEW d \in Cmds
               PROVE  /\ d \in out' => unanswered'[d] > 0
                      /\ answer'[d] = "done" => d \notin want'
                      /\ Earlier(d)' = 0 /\ answer'[d] # "done" =>
                           /\ \A y \in tries' : y.cmd = d /\ MayRun(y) => d \in out' /\ y.n = attempt'[d]
                           /\ \A p \in ran' : p.cmd = d => d \in out' /\ p.n = attempt'[d]
    BY DEF Counted
  <2>1. CASE d = c
    <3>1. Earlier(c)' = unanswered[c] /\ Earlier(c) = unanswered[c]
      BY <1>2, <1>3, <1>6, <1>10 DEF Earlier
    <3>2. unanswered'[c] > 0 /\ c \in out'
      BY <1>2, <1>6, <1>10
    <3>3. answer[c] # "done"
      BY <1>3 DEF IInv, Counted
    <3>4. Earlier(c)' = 0 => /\ \A y \in tries : y.cmd = c => ~MayRun(y)
                             /\ \A p \in ran : p.cmd # c
      BY <1>3, <3>1, <3>3 DEF IInv, Counted
    <3>5. x.n = attempt'[c]
      BY <1>10
    <3>6. QED
      BY <1>1, <1>2, <2>1, <3>2, <3>3, <3>4, <3>5
  <2>2. CASE d # c
    <3>1. /\ Earlier(d)' = Earlier(d) /\ (d \in out') = (d \in out) /\ unanswered'[d] = unanswered[d]
          /\ attempt'[d] = attempt[d]
      BY <1>2, <1>10, <2>2 DEF Earlier
    <3>2. \A y \in tries' : y.cmd = d => y \in tries
      BY <1>2, <2>2
    <3>3. QED
      BY <1>1, <3>1, <3>2 DEF IInv, Counted
  <2>3. QED
    BY <2>1, <2>2
<1>15. Under'
  <2>1. \A y \in tries : MayRun(y) => y.as = ranUnder'[y.cmd]
    BY <1>4, <1>8, <1>10, <1>11 DEF IInv, Under
  <2>2. \A p \in ran : p.as = ranUnder'[p.cmd]
    BY <1>4, <1>9, <1>10, <1>11 DEF IInv, Under
  <2>3. x.as = ranUnder'[x.cmd]
    BY <1>10
  <2>4. ASSUME NEW y \in tries', y.at = "claimed", y.ran = 0, attempt'[y.cmd] = y.n
        PROVE  /\ \A u \in tries' : u.cmd = y.cmd /\ MayRun(u) => u = y
               /\ \A p \in ran : p.cmd # y.cmd
    <3>1. CASE y.cmd = c
      <4>1. y = x
        BY <1>2, <1>6, <1>8, <1>10, <2>4, <3>1
      <4>2. ranUnder[c] = 0
        BY <2>4, <4>1
      <4>3. QED
        BY <1>2, <1>11, <4>1, <4>2
    <3>2. CASE y.cmd # c
      <4>1. y \in tries /\ attempt[y.cmd] = y.n
        BY <1>2, <1>8, <1>10, <2>4, <3>2
      <4>2. \A u \in tries' : u.cmd = y.cmd => u \in tries
        BY <1>2, <3>2
      <4>3. QED
        BY <2>4, <4>1, <4>2 DEF IInv, Under
    <3>3. QED
      BY <3>1, <3>2
  <2>5. QED
    BY <1>1, <1>2, <2>1, <2>2, <2>3, <2>4 DEF Under
<1>16. Tokens' /\ InHand'
  BY <1>1 DEF IInv, Tokens, InHand, Known
<1>17. Key(x) = KeyOf(wire, c) /\ \A y \in tries' : Key(y)' = Key(y)
  BY <1>1 DEF Key, KeyOf
<1>18. Kept'
  <2>1. \A y \in tries' : y.as = identity => conns[y.conn].token = held.token
    BY <1>2, <1>5 DEF IInv, Kept
  <2>2. \A y, z \in tries' : y.as = z.as => conns[y.conn].token = conns[z.conn].token
    <3>1. \A y \in tries' : y \in tries \/ y = x
      BY <1>2
    <3>2. \A y, z \in tries : y.as = z.as => conns[y.conn].token = conns[z.conn].token
      BY DEF IInv, Kept
    <3>3. QED
      BY <2>1, <3>1, <3>2
  <2>3. \A p \in ran, y \in tries' : p.cmd = y.cmd /\ p.as = y.as => Key(y) \in stored
    <3>1. \A p \in ran : p.cmd = c /\ p.as = identity => KeyOf(wire, c) \in stored
      BY <1>5 DEF IInv, Kept
    <3>2. QED
      BY <1>2, <1>17, <3>1 DEF IInv, Kept
  <2>4. \A p \in ran, w \in Wires : p.as = identity /\ Known(w) /\ conns[w].token = held.token =>
          KeyOf(w, p.cmd) \in stored
    BY DEF IInv, Kept
  <2>5. QED
    BY <1>1, <1>17, <2>1, <2>2, <2>3, <2>4 DEF Kept, KeyOf, Known
<1>19. Owned'
  BY <1>1, <1>2, <1>17 DEF IInv, Owned
<1>20. Told'
  BY <1>1, <1>2 DEF IInv, Told
<1>21. RunsOnceAsBound'
  BY <1>1 DEF IInv, RunsOnceAsBound
<1>22. AnswersAreTrue'
  <2>1. answer[c] # "not_run"
    BY <1>3 DEF IInv, Told
  <2>2. QED
    BY <1>1, <1>2, <2>1 DEF IInv, AnswersAreTrue
<1>23. QED
  BY <1>12, <1>13, <1>14, <1>15, <1>16, <1>18, <1>19, <1>20, <1>21, <1>22 DEF IInv

\* One try at sending a command.
LEMMA AttemptOnKeeps ==
  ASSUME IInv, NEW c \in Cmds, NEW w, NEW by \in {"caller", "timer", "publish"},
         AttemptOn(c, w, by), w = 0 \/ (w = wire /\ link \in {"publish", "up"}),
         calling' \subseteq calling
  PROVE  IInv'
<1>1. /\ UNCHANGED <<client, cmds, waiting, pinned, conns, server, receipts, bounds>>
      /\ UNCHANGED <<link, wire, identity, held, host, binds, losses, refusals>>
      /\ reserved' = reserved /\ stored' = stored /\ ran' = ran
  BY DEF AttemptOn, client, server, receipts, bounds
<1>2. CASE UNCHANGED <<want, out, resent, resolved, counts, answer, tries>>
  <2>1. /\ cmds \subseteq Cmds /\ want \subseteq Cmds /\ waiting \subseteq Cmds
        /\ calling \subseteq Cmds \X {"caller", "timer"} /\ answer \in [Cmds -> Answers]
    BY DEF IInv, TypeOK
  <2>2. QED
    BY <1>1, <1>2, <2>1, CallerKeeps
<1>3. CASE ~NothingToSend(c) /\ Resolve({c}, identity) /\ UNCHANGED <<out, resent, counts, tries>>
  <2>1. {c} \subseteq want /\ SidesKept /\ tries' \subseteq tries
    BY <1>1, <1>3, SidesSame DEF NothingToSend
  <2>2. /\ Told' /\ AnswersAreTrue' /\ answer' \in [Cmds -> Answers]
        /\ resolved' \subseteq Cmds /\ want' \subseteq Cmds
        /\ \A d \in Cmds : /\ (answer'[d] = "done") = (answer[d] = "done")
                           /\ answer'[d] = "done" => d \notin want'
    BY <1>1, <1>3, <2>1, Settled
  <2>3. TypeOK'
    BY <1>1, <1>3, <2>2 DEF IInv, TypeOK, counts
  <2>4. Tokens' /\ InHand'
    BY <1>1 DEF IInv, Tokens, InHand, Known
  <2>5. QED
    BY <1>1, <1>3, <2>1, <2>2, <2>3, <2>4, CountsKeep
<1>4. CASE ~NothingToSend(c) /\ ~LeftBehind(c) /\ w # 0 /\ Claim(c, w, by)
  BY <1>1, <1>4, ClaimKeeps
<1>5. QED
  BY <1>2, <1>3, <1>4 DEF AttemptOn

LEMMA AttemptKeeps ==
  ASSUME IInv, NEW c \in Cmds, NEW by \in {"caller", "timer"}, Attempt(c, by)
  PROVE  IInv'
<1>1. /\ AttemptOn(c, IF link = "up" THEN wire ELSE 0, by)
      /\ calling' \subseteq calling
  BY DEF Attempt
<1>2. QED
  BY <1>1, AttemptOnKeeps

LEMMA PublishKeeps ==
  ASSUME IInv, NEW c \in Cmds, Publish(c)
  PROVE  IInv'
<1>1. AttemptOn(c, wire, "publish") /\ calling' \subseteq calling /\ link = "publish"
  BY DEF Publish
<1>2. QED
  BY <1>1, AttemptOnKeeps


-----------------------------------------------------------------------------
(* Steps of the reconnect *)

LEMMA ReattachedKeeps ==
  ASSUME IInv, Reattached \/ Published
  PROVE  IInv'
<1>1. /\ UNCHANGED <<wire, identity, held, commands, conns, tries, server, receipts, bounds>>
      /\ \/ link = "reattach" /\ link' = "publish"
         \/ link = "publish" /\ link' = "up"
  BY DEF Reattached, Published
<1>2. tries' \subseteq tries /\ SidesKept
  BY <1>1, SidesSame
<1>3. TypeOK'
  BY <1>1 DEF IInv, TypeOK, Links, commands, flags, counts, server, receipts, bounds
<1>4. Tokens'
  BY <1>1 DEF IInv, Tokens, Known, server
<1>5. InHand'
  BY <1>1, <1>2, InHandStays DEF IInv
<1>6. QED
  BY <1>1, <1>2, <1>3, <1>4, <1>5, CommandsKeep

LEMMA TerminateKeeps ==
  ASSUME IInv, Terminate
  PROVE  IInv'
<1> DEFINE S == {c \in cmds \cap want : c \notin resolved}
<1>1. /\ UNCHANGED <<identity, held, cmds, waiting, resent, counts, pinned, calling, tries, server,
                     receipts, bounds>>
      /\ UNCHANGED <<host, binds, losses, refusals>>
      /\ reserved' = reserved /\ stored' = stored /\ ran' = ran
      /\ link' = "stopped" /\ wire' = 0 /\ out' \subseteq out
  BY DEF Terminate, server, receipts, bounds
<1>2. S \subseteq want /\ Resolve(S, identity)
  BY DEF Terminate
<1>3. SidesKept /\ conns' \in [Wires -> Sides]
  <2>1. CASE conns' = conns
    BY <2>1, SidesSame DEF IInv, TypeOK
  <2>2. CASE wire # 0 /\ conns[wire].us = "open" /\ Us(wire, "broken")
    BY <2>2, UsKeeps DEF IInv, TypeOK
  <2>3. QED
    BY <2>1, <2>2 DEF Terminate
<1>4. /\ Told' /\ AnswersAreTrue' /\ answer' \in [Cmds -> Answers]
      /\ resolved' \subseteq Cmds /\ want' \subseteq Cmds
      /\ \A c \in Cmds : /\ (answer'[c] = "done") = (answer[c] = "done")
                         /\ answer'[c] = "done" => c \notin want'
  BY <1>1, <1>2, Settled
<1>5. TypeOK'
  BY <1>1, <1>3, <1>4 DEF IInv, TypeOK, Links, counts
<1>6. Tokens'
  <2>1. host \in [proc : Nat, inc : Nat, minted : Nat, tokens : Nat]
    BY DEF IInv, TypeOK
  <2>2. QED
    BY <1>1, <1>3, <2>1, TokensStay DEF IInv
<1>7. InHand'
  BY <1>1, <1>3, InHandStays DEF IInv
<1>8. QED
  BY <1>1, <1>3, <1>4, <1>5, <1>6, <1>7, CountsKeep

\* A resume that the host answered as one is: nothing is left behind.  Else the
\* client takes a new identity, under which nothing has gone.
LEMMA AdoptKeeps ==
  ASSUME IInv, Adopt
  PROVE  IInv'
<1> DEFINE r == conns[wire]
           i == IF Resumed(r) THEN identity ELSE identity + 1
<1>1. /\ UNCHANGED <<wire, cmds, waiting, resent, counts, pinned, calling, conns, tries, server,
                     receipts, bounds>>
      /\ UNCHANGED <<attempt, ranUnder, unanswered, host, binds, losses, refusals>>
      /\ reserved' = reserved /\ stored' = stored /\ ran' = ran
      /\ link = "hello" /\ link' = "reattach" /\ identity' = i /\ out' \subseteq out
  BY DEF Adopt, counts, server, receipts, bounds
<1>2. wire \in Wires /\ Known(wire) /\ r \in Sides
  BY <1>1 DEF IInv, InHand, TypeOK
<1>3. held' = [host |-> IF Resumed(r) THEN held.host ELSE r.proc, client |-> r.client, token |-> r.token]
  BY DEF Adopt
<1>4. held'.token = r.token /\ (Resumed(r) => held'.token = held.token)
  BY <1>3 DEF Resumed
<1>5. /\ Told' /\ AnswersAreTrue' /\ answer' \in [Cmds -> Answers]
      /\ resolved' \subseteq Cmds /\ want' \subseteq Cmds
      /\ \A c \in Cmds : /\ (answer'[c] = "done") = (answer[c] = "done")
                         /\ answer'[c] = "done" => c \notin want'
  <2>1. CASE UNCHANGED <<want, resolved, answer>>
    <3>1. tries' \subseteq tries
      BY <1>1
    <3>2. Follow(Nothing, Nothing) /\ Nothing.ans # "done"
      BY <3>1, DropsFollow
    <3>3. Told'
      BY <1>1, <2>1, <3>2, ToldStays DEF IInv
    <3>4. AnswersAreTrue'
      BY <1>1, <2>1, <3>2, AnswersStay DEF IInv
    <3>5. QED
      BY <2>1, <3>3, <3>4 DEF IInv, TypeOK, Counted
  <2>2. CASE Resolve(AtStake(i), i)
    <3>1. AtStake(i) \subseteq want /\ tries' \subseteq tries
      BY <1>1 DEF AtStake
    <3>2. QED
      BY <1>1, <2>2, <3>1, Settled
  <2>3. QED
    BY <2>1, <2>2 DEF Adopt
<1>6. identity \in Nat /\ i \in Nat /\ i >= identity
  BY DEF IInv, TypeOK
<1>7. TypeOK'
  <2>1. held' \in [host : Nat, client : Wires, token : Nat]
    <3>1. r.client \in Wires /\ r.token \in Nat /\ r.proc \in Nat /\ held.host \in Nat
      BY <1>2 DEF IInv, TypeOK, Tokens, Sides
    <3>2. QED
      BY <1>3, <3>1
  <2>2. QED
    BY <1>1, <1>5, <1>6, <2>1 DEF IInv, TypeOK, Links
<1>8. SidesKept /\ Follow(Nothing, Nothing) /\ Nothing.at # "running"
  BY <1>1, SidesSame, DropsFollow
<1>9. Numbered'
  BY <1>1, <1>6, <1>8, NumberedStays DEF IInv
<1>10. Counted'
  BY <1>1, <1>5, <1>8, CountedStays DEF IInv
<1>11. Under'
  BY <1>1, <1>8, UnderStays DEF IInv
<1>12. Tokens' /\ InHand'
  <2>1. r.token > 0 /\ r.token <= host.tokens
    BY <1>2 DEF IInv, Tokens
  <2>2. Tokens
    BY DEF IInv
  <2>3. QED
    BY <1>1, <1>2, <1>4, <2>1, <2>2 DEF Tokens, InHand, Known
<1>13. Kept'
  <2>1. CASE Resumed(r)
    BY <1>1, <1>4, <2>1 DEF IInv, Kept, Key, KeyOf, Known
  <2>2. CASE ~Resumed(r)
    <3>1. (\A t \in tries : t.as \in Nat /\ t.as <= identity) /\ \A p \in ran : p.as \in Nat /\ p.as <= identity
      BY TriesTyped DEF IInv, TypeOK, Numbered
    <3>2. (\A t \in tries : t.as # identity') /\ \A p \in ran : p.as # identity'
      BY <1>1, <1>6, <2>2, <3>1
    <3>3. QED
      BY <1>1, <3>2 DEF IInv, Kept, Key, KeyOf, Known
  <2>3. QED
    BY <2>1, <2>2
<1>14. Owned'
  BY <1>1, <1>8, OwnedStays DEF IInv
<1>15. RunsOnceAsBound'
  BY <1>1 DEF IInv, RunsOnceAsBound
<1>16. QED
  BY <1>5, <1>7, <1>9, <1>10, <1>11, <1>12, <1>13, <1>14, <1>15 DEF IInv

\* The host binds a connection: to the client its token names, or to a new one.
LEMMA HelloKeeps ==
  ASSUME IInv, NEW w \in Wires, Hello(w)
  PROVE  IInv'
<1> DEFINE b == binds[held.client]
           k == host.tokens + 1
           m == host.minted + 1
<1>1. /\ UNCHANGED <<identity, held, commands, receipts, bounds>>
      /\ UNCHANGED <<cmds, want, out, waiting, resent, resolved, attempt, ranUnder, unanswered,
                     pinned, answer, calling, losses, refusals>>
      /\ reserved' = reserved /\ stored' = stored /\ ran' = ran
      /\ link' = "hello" /\ wire' = w
  BY DEF Hello, commands, flags, counts, receipts, bounds
<1>2. ~Known(w) /\ (\A v \in Wires : v # w /\ ~Known(v) => w < v) /\ Wires \subseteq Nat
  BY CommandsAssumption DEF Hello, Dialled, Known, Wires
<1>3. /\ conns \in [Wires -> Sides] /\ host \in [proc : Nat, inc : Nat, minted : Nat, tokens : Nat]
      /\ binds \in [Wires -> [conn : Wires \cup {0}, gen : Nat, token : Nat]]
      /\ held \in [host : Nat, client : Wires, token : Nat]
  BY DEF IInv, TypeOK
<1>4. host.minted < w /\ m \in Wires
  <2>1. host.minted < w /\ host.minted \in Nat
    BY <1>2, <1>3 DEF IInv, Tokens
  <2>2. QED
    BY <2>1, CommandsAssumption DEF Wires
<1>5. Tokens
  BY DEF IInv
\* What is bound, and what the others are left.
<1>6. /\ conns'[w].us = "open" /\ conns'[w].inc = host.inc /\ tries' \subseteq tries
      /\ conns' \in [Wires -> Sides]
      /\ \A v \in Wires \ {w} : /\ conns'[v].us = conns[v].us /\ conns'[v].inc = conns[v].inc
                                /\ conns'[v].client = conns[v].client
                                /\ conns'[v].token = conns[v].token
      /\ binds' \in [Wires -> [conn : Wires \cup {0}, gen : Nat, token : Nat]]
      /\ host' \in [proc : Nat, inc : Nat, minted : Nat, tokens : Nat] /\ host'.inc = host.inc
      /\ \/ /\ b.token = held.token /\ host' = host
            /\ conns'[w].client = held.client /\ conns'[w].token = held.token
            /\ \A j \in Wires : binds'[j].token = binds[j].token
         \/ /\ host'.tokens = k /\ host'.minted = m
            /\ conns'[w].client = m /\ conns'[w].token = k
            /\ \A j \in Wires : binds'[j].token = IF j = m THEN k ELSE binds[j].token
  <2>1. CASE Resumable
    <3> DEFINE old == {b.conn} \ {0}
               s == [us |-> "open", them |-> "open", proc |-> host.proc, inc |-> host.inc,
                     client |-> held.client, gen |-> b.gen + 1, token |-> b.token, resumed |-> "yes"]
    <3>1. b.token = held.token /\ b.gen \in Nat /\ b.token \in Nat /\ held.client \in Wires
      BY <1>3, <2>1 DEF Resumable
    <3>2. /\ binds' = [binds EXCEPT ![held.client] = [conn |-> w, gen |-> b.gen + 1, token |-> b.token]]
          /\ conns' = [v \in Wires |-> IF v = w THEN s
                         ELSE IF v \in old THEN [conns[v] EXCEPT !.them = "closed"] ELSE conns[v]]
          /\ tries' = Closing(old) /\ host' = host
      BY <2>1 DEF Hello
    <3>3. s \in Sides
      <4>1. held.client \in Nat
        BY <1>2, <3>1
      <4>2. b.gen + 1 \in Nat
        BY <3>1
      <4>3. QED
        BY <1>3, <3>1, <4>1, <4>2 DEF Sides
    <3>4. \A v \in Wires : conns[v] \in Sides /\ [conns[v] EXCEPT !.them = "closed"] \in Sides
      BY <1>3 DEF Sides
    <3>5. conns' \in [Wires -> Sides]
      BY <3>2, <3>3, <3>4
    <3>6. \A v \in Wires \ {w} : /\ conns'[v].us = conns[v].us /\ conns'[v].inc = conns[v].inc
                                 /\ conns'[v].client = conns[v].client
                                 /\ conns'[v].token = conns[v].token
      <4>1. \A v \in Wires \ {w} : \/ conns'[v] = conns[v]
                                   \/ conns'[v] = [conns[v] EXCEPT !.them = "closed"]
        BY <3>2
      <4>2. \A v \in Wires : LET c == [conns[v] EXCEPT !.them = "closed"]
                            IN  /\ c.us = conns[v].us /\ c.inc = conns[v].inc
                                /\ c.client = conns[v].client /\ c.token = conns[v].token
        BY <3>4 DEF Sides
      <4>3. QED
        BY <4>1, <4>2
    <3>7. conns'[w] = s
      BY <3>2
    <3>8. tries' \subseteq tries
      BY <3>2 DEF Closing
    <3>9. /\ binds' \in [Wires -> [conn : Wires \cup {0}, gen : Nat, token : Nat]]
          /\ \A j \in Wires : binds'[j].token = binds[j].token
      BY <1>3, <3>1, <3>2
    <3>10. QED
      BY <1>3, <3>1, <3>2, <3>5, <3>6, <3>7, <3>8, <3>9
  <2>2. CASE ~Resumable
    <3> DEFINE s == [us |-> "open", them |-> "open", proc |-> host.proc, inc |-> host.inc,
                     client |-> m, gen |-> 1, token |-> k, resumed |-> "no"]
    <3>1. /\ host' = [host EXCEPT !.minted = m, !.tokens = k]
          /\ binds' = [binds EXCEPT ![m] = [conn |-> w, gen |-> 1, token |-> k]]
          /\ conns' = [conns EXCEPT ![w] = s] /\ tries' = tries
      BY <2>2 DEF Hello
    <3>2. m \in Nat /\ k \in Nat
      BY <1>3
    <3>3. s \in Sides
      BY <1>3, <3>2 DEF Sides
    <3>4. /\ conns' \in [Wires -> Sides] /\ conns'[w] = s
          /\ \A v \in Wires \ {w} : conns'[v] = conns[v]
      BY <1>3, <3>1, <3>3
    <3>5. host' = [proc |-> host.proc, inc |-> host.inc, minted |-> m, tokens |-> k]
      BY <1>3, <3>1
    <3>6. /\ binds' \in [Wires -> [conn : Wires \cup {0}, gen : Nat, token : Nat]]
          /\ \A j \in Wires : binds'[j].token = IF j = m THEN k ELSE binds[j].token
      BY <1>3, <1>4, <3>1, <3>2
    <3>7. QED
      BY <1>3, <3>1, <3>2, <3>4, <3>5, <3>6
  <2>3. QED
    BY <2>1, <2>2
<1>7. /\ \A v \in Wires : (Known(v)' <=> Known(v) \/ v = w)
      /\ \A v \in Wires : \/ v = w
                          \/ /\ conns'[v].inc = conns[v].inc /\ conns'[v].client = conns[v].client
                             /\ conns'[v].token = conns[v].token
      /\ conns'[w].inc = host.inc /\ tries' \subseteq tries
  BY <1>6 DEF Known
\* The held token is of a connection known, and so are the others it names.
<1>8. PICK h \in Wires : Known(h) /\ conns[h].token = held.token
  BY <1>5 DEF Tokens
<1>9. h # w /\ \A t \in tries : t.conn \in Wires \ {w} /\ Known(t.conn)
  BY <1>2, <1>8, TriesTyped DEF IInv, Numbered
<1>10. Follow(Nothing, Nothing) /\ Nothing.ans # "done"
  BY <1>6, DropsFollow
<1>11. TypeOK'
  BY <1>1, <1>6 DEF IInv, TypeOK, Links
<1>12. Numbered'
  <2>1. \A t \in tries : Known(t.conn)'
    BY <1>7, <1>9
  <2>2. Numbered
    BY DEF IInv
  <2>3. QED
    BY <1>1, <1>7, <2>1, <2>2 DEF Numbered
<1>13. Counted'
  BY <1>1, <1>10, CountedStays DEF IInv, Counted
<1>14. Under'
  BY <1>1, <1>10, UnderStays DEF IInv
<1>15. Told'
  BY <1>1, <1>10, ToldStays DEF IInv
<1>16. AnswersAreTrue'
  BY <1>1, <1>10, AnswersStay DEF IInv
<1>17. RunsOnceAsBound'
  BY <1>1 DEF IInv, RunsOnceAsBound
<1>18. InHand'
  BY <1>1, <1>7 DEF InHand
<1>19. Tokens' /\ (conns'[w].token = held.token =>
                     conns'[w].inc = conns[h].inc /\ conns'[w].client = conns[h].client)
  <2>1. /\ held.token > 0 /\ held.token <= host.tokens /\ host.tokens \in Nat
        /\ \A v \in Wires : Known(v) => /\ conns[v].token > 0 /\ conns[v].token <= host.tokens
                                        /\ conns[v].token \in Nat /\ conns[v].client \in Wires
        /\ \A j \in Wires : binds[j].token <= host.tokens /\ binds[j].token \in Nat
    BY <1>3, <1>5 DEF Tokens, Sides
  <2>2. CASE /\ b.token = held.token /\ host' = host
             /\ conns'[w].client = held.client /\ conns'[w].token = held.token
             /\ \A j \in Wires : binds'[j].token = binds[j].token
    <3>0. conns'[w].client = held.client /\ conns'[w].token = held.token
      BY <2>2
    <3>1. conns[h].inc = host.inc /\ conns[h].client = held.client /\ held.client \in Wires
      BY <1>3, <1>5, <1>8, <2>1, <2>2 DEF Tokens
    <3>2. \A v \in Wires : Known(v) /\ conns[v].token = held.token =>
            conns[v].inc = host.inc /\ conns[v].client = held.client
      BY <1>5, <1>8, <3>1 DEF Tokens
    <3>3. \A v \in Wires : Known(v)' =>
            conns'[v].token > 0 /\ conns'[v].token <= host.tokens /\ conns'[v].client \in Wires
      BY <1>7, <2>1, <2>2, <3>1
    <3>4. \A v \in Wires : ~Known(v)' => host.minted < v
      BY <1>5, <1>7 DEF Tokens
    <3>5. \A u, v \in Wires : Known(u)' /\ Known(v)' /\ conns'[u].token = conns'[v].token =>
            conns'[u].inc = conns'[v].inc /\ conns'[u].client = conns'[v].client
      <4>1. \A u, v \in Wires : Known(u) /\ Known(v) /\ conns[u].token = conns[v].token =>
              conns[u].inc = conns[v].inc /\ conns[u].client = conns[v].client
        BY <1>5 DEF Tokens
      <4>2. QED
        BY <1>7, <3>0, <3>1, <3>2, <4>1
    <3>6. \A j, v \in Wires : binds[j].token # 0 /\ Known(v)' /\ conns'[v].token = binds[j].token =>
            conns'[v].inc = host.inc /\ conns'[v].client = j
      <4>1. \A j, v \in Wires : binds[j].token # 0 /\ Known(v) /\ conns[v].token = binds[j].token =>
              conns[v].inc = host.inc /\ conns[v].client = j
        BY <1>5 DEF Tokens
      <4>2. \A j \in Wires : binds[j].token = held.token => j = held.client
        BY <1>8, <2>1, <3>1, <4>1
      <4>3. QED
        BY <1>7, <3>0, <3>1, <4>1, <4>2
    <3>7. Known(h)' /\ conns'[h].token = held.token
      BY <1>6, <1>7, <1>8, <1>9
    <3>8. QED
      BY <1>1, <1>6, <2>1, <2>2, <3>1, <3>3, <3>4, <3>5, <3>6, <3>7 DEF Tokens
  <2>3. CASE /\ host'.tokens = k /\ host'.minted = m
             /\ conns'[w].client = m /\ conns'[w].token = k
             /\ \A j \in Wires : binds'[j].token = IF j = m THEN k ELSE binds[j].token
    <3>0. /\ conns'[w].client = m /\ conns'[w].token = k
          /\ \A j \in Wires : binds'[j].token = IF j = m THEN k ELSE binds[j].token
      BY <2>3
    <3>1. k > host.tokens /\ k \in Nat /\ k > 0
      BY <2>1
    <3>2. \A v \in Wires : Known(v)' =>
            conns'[v].token > 0 /\ conns'[v].token <= k /\ conns'[v].client \in Wires
      BY <1>4, <1>7, <2>1, <3>0, <3>1
    <3>3. \A v \in Wires : ~Known(v)' => m < v
      <4>1. \A v \in Wires : ~Known(v)' => w < v /\ v \in Nat
        BY <1>2, <1>7
      <4>2. host.minted \in Nat /\ w \in Nat
        BY <1>2, <1>3
      <4>3. QED
        BY <1>4, <4>1, <4>2
    <3>4. \A v \in Wires : Known(v) => conns[v].token # k
      BY <2>1, <3>1
    <3>5. \A u, v \in Wires : Known(u)' /\ Known(v)' /\ conns'[u].token = conns'[v].token =>
            conns'[u].inc = conns'[v].inc /\ conns'[u].client = conns'[v].client
      <4>1. \A u, v \in Wires : Known(u) /\ Known(v) /\ conns[u].token = conns[v].token =>
              conns[u].inc = conns[v].inc /\ conns[u].client = conns[v].client
        BY <1>5 DEF Tokens
      <4>2. QED
        BY <1>7, <3>0, <3>4, <4>1
    <3>6. \A j, v \in Wires : binds'[j].token # 0 /\ Known(v)' /\ conns'[v].token = binds'[j].token =>
            conns'[v].inc = host.inc /\ conns'[v].client = j
      <4>1. \A j, v \in Wires : binds[j].token # 0 /\ Known(v) /\ conns[v].token = binds[j].token =>
              conns[v].inc = host.inc /\ conns[v].client = j
        BY <1>5 DEF Tokens
      <4>2. \A j \in Wires : binds[j].token # k
        BY <2>1, <3>1
      <4>3. QED
        BY <1>7, <3>0, <3>4, <4>1, <4>2
    <3>7. Known(h)' /\ conns'[h].token = held.token
      BY <1>6, <1>7, <1>8, <1>9
    <3>8. \A j \in Wires : binds'[j].token <= k
      BY <2>1, <2>3, <3>1
    <3>9. held.token <= k /\ held.token # k
      BY <1>3, <2>1, <3>1
    <3>10. QED
      BY <1>1, <1>6, <2>1, <2>3, <3>2, <3>3, <3>5, <3>6, <3>7, <3>8, <3>9 DEF Tokens
  <2>4. QED
    BY <1>6, <2>2, <2>3
<1>20. Kept'
  <2>1. \A t \in tries : Key(t)' = Key(t) /\ conns'[t.conn].token = conns[t.conn].token
    BY <1>6, <1>9 DEF Key
  <2>2. \A t \in tries' : t.as = identity => conns'[t.conn].token = held.token
    BY <1>6, <2>1 DEF IInv, Kept
  <2>3. \A t, u \in tries' : t.as = u.as => conns'[t.conn].token = conns'[u.conn].token
    BY <1>6, <2>1 DEF IInv, Kept
  <2>4. \A p \in ran, t \in tries' : p.cmd = t.cmd /\ p.as = t.as => Key(t)' \in stored
    BY <1>6, <2>1 DEF IInv, Kept
  <2>5. ASSUME NEW p \in ran, NEW v \in Wires, p.as = identity, Known(v)', conns'[v].token = held.token
        PROVE  KeyOf(v, p.cmd)' \in stored
    <3>1. CASE v = w
      <4>1. KeyOf(v, p.cmd)' = KeyOf(h, p.cmd)
        BY <1>19, <2>5, <3>1 DEF KeyOf
      <4>2. QED
        BY <1>8, <2>5, <4>1 DEF IInv, Kept
    <3>2. CASE v # w
      <4>1. KeyOf(v, p.cmd)' = KeyOf(v, p.cmd) /\ Known(v) /\ conns[v].token = held.token
        BY <1>7, <2>5, <3>2 DEF KeyOf
      <4>2. QED
        BY <2>5, <4>1 DEF IInv, Kept
    <3>3. QED
      BY <3>1, <3>2
  <2>6. QED
    BY <1>1, <2>2, <2>3, <2>4, <2>5 DEF Kept
<1>21. Owned'
  <2>1. \A t \in tries : Key(t)' = Key(t)
    BY <1>6, <1>9 DEF Key
  <2>2. QED
    BY <1>1, <1>6, <2>1 DEF IInv, Owned
<1>22. QED
  BY <1>11, <1>12, <1>13, <1>14, <1>15, <1>16, <1>17, <1>18, <1>19, <1>20, <1>21 DEF IInv

-----------------------------------------------------------------------------
(* The theorems *)

LEMMA InitHolds == Init => IInv
<1> SUFFICES ASSUME Init
             PROVE  IInv
  OBVIOUS
<1>1. 1 \in Wires /\ Wires \subseteq Nat /\ \A w \in Wires : w >= 1
  BY CommandsAssumption DEF Wires
<1>2. conns \in [Wires -> Sides]
  BY <1>1 DEF Init, Sides, NoConn
<1>3. binds \in [Wires -> [conn : Wires \cup {0}, gen : Nat, token : Nat]]
  BY <1>1 DEF Init, NoBinding
<1>4. \A w \in Wires : /\ w = 1 => Known(w) /\ conns[w].token = 1 /\ conns[w].client = 1 /\ conns[w].inc = 1
                       /\ w # 1 => ~Known(w)
  BY <1>1 DEF Init, Known, NoConn
<1>5. \A i \in Wires : binds[i].token = IF i > 1 THEN 0 ELSE 1
  BY DEF Init, NoBinding
<1>6. TypeOK
  BY <1>1, <1>2, <1>3, CommandsAssumption DEF Init, TypeOK, Links, Answers
<1>7. Tokens
  BY <1>1, <1>4, <1>5 DEF Init, Tokens
<1>8. InHand
  BY <1>1, <1>4 DEF Init, InHand
<1>9. Numbered /\ Counted /\ Under /\ Kept /\ Owned /\ Told /\ RunsOnceAsBound /\ AnswersAreTrue
  BY DEF Init, Numbered, Counted, Earlier, Under, Kept, Owned, Told, RunsOnceAsBound, AnswersAreTrue
<1>10. QED
  BY <1>6, <1>7, <1>8, <1>9 DEF IInv

LEMMA StutterHolds ==
  ASSUME IInv, UNCHANGED vars
  PROVE  IInv'
<1>1. /\ UNCHANGED <<client, commands, receipts>> /\ conns' = conns /\ tries' = tries
      /\ host' = host /\ binds' = binds /\ losses' = losses /\ refusals' = refusals
  BY DEF vars, server, bounds
<1>2. SidesKept /\ tries' \subseteq tries
  BY <1>1, SidesSame
<1>3. /\ conns \in [Wires -> Sides] /\ host \in [proc : Nat, inc : Nat, minted : Nat, tokens : Nat]
      /\ binds \in [Wires -> [conn : Wires \cup {0}, gen : Nat, token : Nat]]
      /\ losses \in 0..MaxLosses /\ refusals \in 0..MaxRefusals
  BY DEF IInv, TypeOK
<1>4. QED
  BY <1>1, <1>2, <1>3, HostKeeps

LEMMA ClientStepHolds ==
  ASSUME IInv, ClientStep
  PROVE  IInv'
<1>1. CASE \E c \in Cmds : Retry(c) \/ Return(c) \/ WaitedOut(c) \/ Publish(c)
  BY <1>1, RetryKeeps, LeavesKeeps, WaitedOutKeeps, PublishKeeps DEF Return
<1>2. CASE \E c \in Cmds, by \in {"caller", "timer"} : Attempt(c, by)
  BY <1>2, AttemptKeeps
<1>3. CASE \E t \in tries : Written(t) \/ Unsent(t) \/ CutOff(t) \/ Reply(t)
  BY <1>3, WrittenKeeps, UnsentKeeps, CutOffKeeps, ReplyKeeps DEF CutOff
<1>4. CASE \E w \in Wires : Hello(w) \/ Gone(w)
  BY <1>4, HelloKeeps, GoneKeeps
<1>5. CASE Adopt \/ Reattached \/ Published \/ Spent
  BY <1>5, AdoptKeeps, ReattachedKeeps, TerminateKeeps DEF Spent
<1>6. QED
  BY <1>1, <1>2, <1>3, <1>4, <1>5 DEF ClientStep

LEMMA HostStepHolds ==
  ASSUME IInv, HostStep
  PROVE  IInv'
  BY ReadLineKeeps, AdmittedKeeps, ReserveKeeps, ReplayKeeps, RunKeeps, HostClosesKeeps DEF HostStep

LEMMA ChanceHolds ==
  ASSUME IInv, Chance
  PROVE  IInv'
<1>1. CASE \E c \in Cmds : Bind(c) \/ Register(c) \/ GiveUp(c)
  BY <1>1, BindKeeps, RegisterKeeps, LeavesKeeps DEF GiveUp
<1>2. CASE \E w \in Wires : Gone(w) \/ IdleOut(w)
  BY <1>2, GoneKeeps, IdleOutKeeps
<1>3. CASE \E t \in tries : Busy(t) \/ InProgress(t) \/ Gate(t)
  BY <1>3, BusyKeeps, GateKeeps
<1>4. CASE Close \/ Replace \/ Restart
  BY <1>4, TerminateKeeps, ReplaceKeeps, RestartKeeps DEF Close
<1>5. QED
  BY <1>1, <1>2, <1>3, <1>4 DEF Chance

LEMMA NextHolds == IInv /\ [Next]_vars => IInv'
  BY ClientStepHolds, HostStepHolds, ChanceHolds, StutterHolds DEF Next

LEMMA Invariance == Spec => []IInv
  BY InitHolds, NextHolds, PTL DEF Spec

\* Every variable keeps to its values, whatever is lost, refused or sent again.
THEOREM TypeCorrect == Spec => []TypeOK
<1>1. IInv => TypeOK
  BY DEF IInv
<1>2. QED
  BY <1>1, Invariance, PTL

\* However often a command is sent, on whatever connections, to whatever engines
\* and hosts, it runs at most once, and as the client it was bound to.
THEOREM CommandRunsOnce == Spec => []RunsOnceAsBound
<1>1. IInv => RunsOnceAsBound
  BY DEF IInv
<1>2. QED
  BY <1>1, Invariance, PTL

\* A caller told that its command is done, or that none of it ran, is told so truly.
THEOREM CallerIsToldTruly == Spec => []AnswersAreTrue
<1>1. IInv => AnswersAreTrue
  BY DEF IInv
<1>2. QED
  BY <1>1, Invariance, PTL
=============================================================================
