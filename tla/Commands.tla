------------------------------ MODULE Commands ------------------------------
(***************************************************************************)
(* One remote client's commands over connections that come and go          *)
(* (src/internal/remote), against the host it reaches: the control         *)
(* server's table of client ids (src/internal/control/bind.go) and the     *)
(* receipts of the engine behind it, which Receipts models in full.  A     *)
(* command's id is sent again to ask "did it run?", and only where the     *)
(* host can tell: to the engine that may have run it, as the client it was *)
(* sent as.                                                                *)
(*                                                                         *)
(* A client step is a section under Client.mu; a host step one under       *)
(* Server.bindMu, the receipts' mutex, or a connection's reader.  Between  *)
(* any two a connection, the engine or the host may go.                    *)
(***************************************************************************)
EXTENDS Naturals, FiniteSets

CONSTANTS
  Cmds,
  Retrying,       \* those whose caller sets CommandOptions.Retry
  Bound,          \* those whose caller may set CommandOptions.Identity
  MaxConns,       \* bound: connections
  MaxLosses,      \* bound: engines replaced, hosts killed, bindings idled out
  MaxRefusals     \* bound: busy, gate and in_progress answers

ASSUME CommandsAssumption ==
  /\ Retrying \subseteq Cmds /\ Bound \subseteq Cmds
  /\ {MaxConns, MaxLosses, MaxRefusals} \subseteq Nat /\ MaxConns > 0

VARIABLES
  \* the client
  link,        \* "up", or how far the reconnect is, or "stopped" (Client.err)
  wire,        \* the connection in link: Client.cur, or the one being adopted
  identity,    \* Client.identity
  held,        \* the client id and token of the last hello, and hostID
  cmds,        \* Client.cmds: registered, their callers not returned
  want, out, waiting, resent, resolved,   \* a command's flags, as sets
  attempt, ranUnder, unanswered, pinned,
  answer,      \* what the caller was last given, "none" while it waits
  calling,     \* calls of attempt to come: the caller's, a wait-out timer's
  \* between them
  conns,       \* the connections, both ends
  tries,       \* every attempt from its claim until nothing is left of it
  \* the host
  host,        \* the process, the engine's incarnation, client ids and tokens minted
  binds,       \* Server.binds, by client id; a token of 0 is no binding
  reserved, stored,   \* the receipts: running and completed
  \* history and bounds
  ran,         \* executions: the attempt that ran, and the identity it went as
  losses, refusals

flags == <<want, out, waiting, resent, resolved>>
counts == <<attempt, ranUnder, unanswered>>
commands == <<cmds, flags, counts, pinned, answer, calling>>
client == <<link, wire, identity, held>>
server == <<host, binds>>
receipts == <<reserved, stored, ran>>
bounds == <<losses, refusals>>
vars == <<client, commands, conns, tries, server, receipts, bounds>>

Wires == 1..MaxConns
Links == {"up", "redial", "hello", "reattach", "publish", "stopped"}

\* protocol.Retry; and of its codes, those that say nothing ran.
Retryable == {"busy", "gate", "in_progress"}
NothingRan == {"busy", "gate"}

NoConn == [us |-> "none", them |-> "none", proc |-> 0, inc |-> 0,
           client |-> 0, gen |-> 0, token |-> 0, resumed |-> "no"]
NoBinding == [conn |-> 0, gen |-> 0, token |-> 0]

\* Dial has said hello, and is first.
Init ==
  /\ link = "up" /\ wire = 1 /\ identity = 1
  /\ held = [host |-> 1, client |-> 1, token |-> 1]
  /\ cmds = {} /\ want = {} /\ out = {} /\ waiting = {} /\ resent = {} /\ resolved = {}
  /\ attempt = [c \in Cmds |-> 0] /\ ranUnder = [c \in Cmds |-> 0]
  /\ unanswered = [c \in Cmds |-> 0] /\ pinned = [c \in Cmds |-> 0]
  /\ answer = [c \in Cmds |-> "none"] /\ calling = {}
  /\ conns = [w \in Wires |-> IF w > 1 THEN NoConn
                ELSE [us |-> "open", them |-> "open", proc |-> 1, inc |-> 1,
                      client |-> 1, gen |-> 1, token |-> 1, resumed |-> "no"]]
  /\ tries = {}
  /\ host = [proc |-> 1, inc |-> 1, minted |-> 1, tokens |-> 1]
  /\ binds = [i \in Wires |-> IF i > 1 THEN NoBinding ELSE [conn |-> 1, gen |-> 1, token |-> 1]]
  /\ reserved = {} /\ stored = {} /\ ran = {}
  /\ losses = 0 /\ refusals = 0

Moves(t, at) == tries' = (tries \ {t}) \cup {[t EXCEPT !.at = at]}
Drops(t) == tries' = tries \ {t}

\* Of conns, one end of one connection.
Us(w, s) == conns' = [conns EXCEPT ![w].us = s]

-----------------------------------------------------------------------------
(* The caller: Command *)

\* No call yet under this id: forget leaves what the command was last doing.
New(c) == c \notin want \cup resolved /\ attempt[c] = 0 /\ answer[c] = "none"

\* A caller that binds takes its binding (Client.Identity) before it calls Command.
Bind(c) ==
  /\ c \in Bound /\ pinned[c] = 0 /\ New(c)
  /\ pinned' = [pinned EXCEPT ![c] = identity]
  /\ UNCHANGED <<client, cmds, flags, counts, answer, calling, conns, tries, server, receipts, bounds>>

\* Registered, unless the identity it is bound to has been left already.
Register(c) ==
  /\ New(c) /\ link # "stopped"
  /\ IF pinned[c] \in {0, identity}
     THEN /\ cmds' = cmds \cup {c} /\ want' = want \cup {c}
          /\ calling' = calling \cup {<<c, "caller">>}
          /\ UNCHANGED answer
     ELSE answer' = [answer EXCEPT ![c] = "stale"] /\ UNCHANGED <<cmds, want, calling>>
  /\ UNCHANGED <<client, out, waiting, resent, resolved, counts, pinned, conns, tries, server,
                 receipts, bounds>>

\* In Command's select, not inside a call of attempt.
Selecting(c) ==
  /\ c \in cmds /\ <<c, "caller">> \notin calling
  /\ \A t \in tries : t.cmd = c /\ t.by = "caller" => t.at # "claimed"

\* The backoff over, the caller asks again under the same id (retry).
Retry(c) ==
  /\ Selecting(c) /\ c \in Retrying /\ answer[c] \in Retryable
  /\ answer' = [answer EXCEPT ![c] = "none"]
  /\ want' = want \cup {c} /\ calling' = calling \cup {<<c, "caller">>}
  /\ UNCHANGED <<client, cmds, out, waiting, resent, resolved, counts, pinned, conns, tries, server,
                 receipts, bounds>>

Leaves(c) ==
  /\ cmds' = cmds \ {c}
  /\ UNCHANGED <<client, flags, counts, pinned, answer, calling, conns, tries, server, receipts,
                 bounds>>

Return(c) ==
  /\ Selecting(c) /\ answer[c] # "none" /\ ~(c \in Retrying /\ answer[c] \in Retryable)
  /\ Leaves(c)

\* Its ctx ends.
GiveUp(c) == Selecting(c) /\ Leaves(c)

-----------------------------------------------------------------------------
(* Attempts: attemptOn, send, commandReply *)

\* resolveLocked, for an identity i: the client's own answer, and nothing more is sent.
Verdict(c, i) ==
  CASE pinned[c] \notin {0, i} -> "stale"
    [] pinned[c] \in {0, i} /\ ranUnder[c] # 0 -> "unknown"
    [] OTHER -> "not_run"

Resolve(S, i) ==
  /\ resolved' = resolved \cup S /\ want' = want \ S
  /\ answer' = [c \in Cmds |-> IF c \in S THEN Verdict(c, i) ELSE answer[c]]

NothingToSend(c) == c \notin cmds \/ c \in resolved \/ c \notin want \/ c \in out \/ c \in waiting

\* Mutant: the binding was checked when the command was registered.
LeftBehindIfSent(c) == ranUnder[c] \notin {0, identity}

\* Bound to an identity the client has left, or perhaps run under one.
LeftBehind(c) == pinned[c] \notin {0, identity} \/ ranUnder[c] \notin {0, identity}

Claim(c, w, by) ==
  /\ out' = out \cup {c}
  /\ attempt' = [attempt EXCEPT ![c] = @ + 1]
  /\ unanswered' = [unanswered EXCEPT ![c] = @ + 1]
  /\ resent' = IF ranUnder[c] # 0 THEN resent \cup {c} ELSE resent \ {c}
  /\ ranUnder' = [ranUnder EXCEPT ![c] = identity]
  /\ tries' = tries \cup {[cmd |-> c, n |-> attempt[c] + 1, conn |-> w, as |-> identity, by |-> by,
                           ran |-> ranUnder[c], at |-> "claimed", ans |-> "none"]}
  /\ UNCHANGED <<want, resolved, answer>>

\* One try at sending c on w, 0 when there is no connection to send it on.
AttemptOn(c, w, by) ==
  /\ \/ /\ NothingToSend(c) \/ (link # "stopped" /\ ~LeftBehind(c) /\ w = 0)
        /\ UNCHANGED <<want, out, resent, resolved, counts, answer, tries>>
     \/ /\ ~NothingToSend(c) /\ (link = "stopped" \/ LeftBehind(c))
        /\ Resolve({c}, identity)
        /\ UNCHANGED <<out, resent, counts, tries>>
     \/ /\ ~NothingToSend(c) /\ link # "stopped" /\ ~LeftBehind(c) /\ w # 0
        /\ Claim(c, w, by)
  /\ UNCHANGED <<client, cmds, waiting, pinned, conns, server, receipts, bounds>>

\* attempt, on the connection calls go to.
Attempt(c, by) ==
  /\ <<c, by>> \in calling /\ calling' = calling \ {<<c, by>>}
  /\ AttemptOn(c, IF link = "up" THEN wire ELSE 0, by)

Written(t) ==
  /\ t.at = "claimed" /\ conns[t.conn].us = "open" /\ conns[t.conn].them = "open"
  /\ Moves(t, "line")
  /\ UNCHANGED <<client, commands, conns, server, receipts, bounds>>

Breaks(t) ==
  /\ t.at = "claimed" /\ (conns[t.conn].us # "open" \/ conns[t.conn].them # "open")
  /\ Drops(t)
  /\ IF conns[t.conn].us = "open" THEN Us(t.conn, "broken") ELSE UNCHANGED conns

\* Not a byte of it was written: held again as it stood, unless a reconnect has
\* counted this attempt lost.
Unsent(t) ==
  /\ Breaks(t)
  /\ IF attempt[t.cmd] = t.n /\ t.cmd \in out
     THEN /\ out' = out \ {t.cmd}
          /\ unanswered' = [unanswered EXCEPT ![t.cmd] = @ - 1]
          /\ ranUnder' = [ranUnder EXCEPT ![t.cmd] = t.ran]
     ELSE UNCHANGED <<out, unanswered, ranUnder>>
  /\ UNCHANGED <<client, cmds, want, waiting, resent, resolved, attempt, pinned, answer, calling,
                 server, receipts, bounds>>

\* Part of it may have been: the attempt stays out.
CutOff(t) == Breaks(t) /\ UNCHANGED <<client, commands, server, receipts, bounds>>

Current(t) ==
  t.cmd \in cmds \ resolved /\ t.cmd \in want /\ t.cmd \in out /\ attempt[t.cmd] = t.n

\* A resend met its first execution, or a cap that is asked before the receipts.
WaitsOut(t) == t.cmd \in resent /\ t.ans \in {"in_progress", "busy"}

\* Mutant: the answer to the latest attempt speaks for the earlier ones.
ClearsOfLatest(t) == t.ans \in NothingRan

\* Nothing ran under the id: never stored, and no earlier attempt is unanswered.
Clears(t) == t.ans \in NothingRan /\ unanswered[t.cmd] = 1

\* commandReply, on the connection's reader.
Reply(t) ==
  /\ t.at = "reply" /\ conns[t.conn].us \in {"open", "broken"}
  /\ Drops(t)
  /\ IF ~Current(t) THEN UNCHANGED <<want, out, waiting, ranUnder, unanswered, answer>>
     ELSE /\ out' = out \ {t.cmd}
          /\ unanswered' = [unanswered EXCEPT ![t.cmd] = @ - 1]
          /\ IF WaitsOut(t)
             THEN waiting' = waiting \cup {t.cmd} /\ UNCHANGED <<want, ranUnder, answer>>
             ELSE /\ want' = want \ {t.cmd} /\ UNCHANGED waiting
                  /\ answer' = [answer EXCEPT ![t.cmd] = t.ans]
                  /\ ranUnder' = [ranUnder EXCEPT ![t.cmd] = IF Clears(t) THEN 0 ELSE @]
  /\ UNCHANGED <<client, cmds, resent, resolved, attempt, pinned, calling, conns, server, receipts,
                 bounds>>

\* The wait-out's timer fires.
WaitedOut(c) ==
  /\ c \in waiting /\ waiting' = waiting \ {c}
  /\ calling' = calling \cup {<<c, "timer">>}
  /\ UNCHANGED <<client, cmds, want, out, resent, resolved, counts, pinned, answer, conns, tries,
                 server, receipts, bounds>>

-----------------------------------------------------------------------------
(* The connection: reconnect, adopt, publish, terminate *)

\* A connection's reader has ended: dead, its pending replies never come, and
\* if it was the one in use or being adopted the client redials.
Gone(w) ==
  /\ conns[w].us \in {"open", "broken"} /\ Us(w, "gone")
  /\ tries' = {t \in tries : t.conn = w => t.at # "reply"}
  /\ IF wire = w THEN link' = "redial" /\ wire' = 0 ELSE UNCHANGED <<link, wire>>
  /\ UNCHANGED <<identity, held, commands, server, receipts, bounds>>

Dialled == {w \in Wires : conns[w].us # "none"}

\* bind: the held token still names the held id in this engine's incarnation.
Resumable == binds[held.client].token = held.token

\* The host closes the connection a resume took the client from.
Closing(ws) == {t \in tries : t.conn \in ws => t.at # "line"}

\* A redial as far as the host's answer: bind.
Hello(w) ==
  /\ link = "redial" /\ w \in Wires \ Dialled /\ \A v \in Wires \ Dialled : w <= v
  /\ link' = "hello" /\ wire' = w
  /\ IF Resumable
     THEN LET b == binds[held.client]
              old == {b.conn} \ {0}
          IN  /\ binds' = [binds EXCEPT ![held.client] = [conn |-> w, gen |-> b.gen + 1, token |-> b.token]]
              /\ conns' = [v \in Wires |->
                   IF v = w THEN [us |-> "open", them |-> "open", proc |-> host.proc, inc |-> host.inc,
                                  client |-> held.client, gen |-> b.gen + 1, token |-> b.token, resumed |-> "yes"]
                   ELSE IF v \in old THEN [conns[v] EXCEPT !.them = "closed"] ELSE conns[v]]
              /\ tries' = Closing(old) /\ UNCHANGED host
     ELSE LET i == host.minted + 1
              k == host.tokens + 1
          IN  /\ host' = [host EXCEPT !.minted = i, !.tokens = k]
              /\ binds' = [binds EXCEPT ![i] = [conn |-> w, gen |-> 1, token |-> k]]
              /\ conns' = [conns EXCEPT ![w] =
                   [us |-> "open", them |-> "open", proc |-> host.proc, inc |-> host.inc,
                    client |-> i, gen |-> 1, token |-> k, resumed |-> "no"]]
              /\ UNCHANGED tries
  /\ UNCHANGED <<identity, held, commands, receipts, bounds>>

\* The host says resumed, of the client asked for, on the host that minted it.
Resumed(r) ==
  r.resumed = "yes" /\ r.client = held.client /\ r.token = held.token /\ r.proc = held.host

\* A resume lost settles what may have run, and what was bound to the identity left.
AtStake(i) == {c \in cmds \cap want : c \notin resolved /\ (ranUnder[c] # 0 \/ pinned[c] \notin {0, i})}

\* adopt, to its unlock.
Adopt ==
  LET r == conns[wire]
      i == IF Resumed(r) THEN identity ELSE identity + 1
  IN  /\ link = "hello" /\ r.us = "open"
      /\ link' = "reattach" /\ identity' = i
      /\ held' = [host |-> IF Resumed(r) THEN held.host ELSE r.proc, client |-> r.client, token |-> r.token]
      /\ out' = out \ cmds
      /\ IF Resumed(r) THEN UNCHANGED <<want, resolved, answer>> ELSE Resolve(AtStake(i), i)
      /\ UNCHANGED <<wire, cmds, waiting, resent, counts, pinned, calling, conns, tries, server,
                     receipts, bounds>>

\* The stream's re-attach is answered, so no reply overtakes what it replays.
Reattached ==
  /\ link = "reattach" /\ link' = "publish"
  /\ UNCHANGED <<wire, identity, held, commands, conns, tries, server, receipts, bounds>>

\* Mutant: a reconnect sends again what it lost, and not what waited for it.
HeldIfSent(c) == ~NothingToSend(c) /\ ranUnder[c] # 0

Held(c) == ~NothingToSend(c)

Publishing == \E t \in tries : t.by = "publish" /\ t.at = "claimed" /\ t.conn = wire

\* publish sends what is held before anything else may use the connection.
Publish(c) ==
  /\ link = "publish" /\ conns[wire].us = "open" /\ ~Publishing /\ Held(c)
  /\ AttemptOn(c, wire, "publish")
  /\ UNCHANGED calling

Published ==
  /\ link = "publish" /\ conns[wire].us = "open" /\ ~Publishing /\ \A c \in Cmds : ~Held(c)
  /\ link' = "up"
  /\ UNCHANGED <<wire, identity, held, commands, conns, tries, server, receipts, bounds>>

\* terminate: what waits is settled, and both ends of the client close.
Terminate ==
  /\ link' = "stopped" /\ wire' = 0
  /\ Resolve({c \in cmds \cap want : c \notin resolved}, identity)
  /\ out' = out \ (cmds \cap want)
  /\ IF wire # 0 /\ conns[wire].us = "open" THEN Us(wire, "broken") ELSE UNCHANGED conns
  /\ UNCHANGED <<identity, held, cmds, waiting, resent, counts, pinned, calling, tries, server,
                 receipts, bounds>>

\* The redials are spent; or the client's owner closes it.
Spent == link = "redial" /\ Terminate
Close == link # "stopped" /\ Terminate

-----------------------------------------------------------------------------
(* The host *)

Key(t) == <<conns[t.conn].inc, conns[t.conn].client, t.cmd>>

ReadLine(t) ==
  /\ t.at = "line" /\ conns[t.conn].them = "open"
  /\ Moves(t, "read")
  /\ UNCHANGED <<client, commands, conns, server, receipts, bounds>>

\* The handler's answer, queued if its connection still takes one.
Says(t, a) ==
  IF conns[t.conn].them = "open"
  THEN tries' = (tries \ {t}) \cup {[t EXCEPT !.at = "reply", !.ans = a]}
  ELSE Drops(t)

Refuses == refusals < MaxRefusals /\ refusals' = refusals + 1 /\ UNCHANGED losses

\* admitCommand: the host is at its cap, with the commands of other clients.
Busy(t) ==
  /\ t.at = "read" /\ Refuses /\ Says(t, "busy")
  /\ UNCHANGED <<client, commands, conns, server, receipts>>

\* movedOn: the engine, or the binding the handler was admitted under.
MovedOn(r) == r.inc # host.inc \/ binds[r.client].token = 0 \/ binds[r.client].gen # r.gen

Admitted(t) ==
  /\ t.at = "read"
  /\ IF MovedOn(conns[t.conn]) THEN Drops(t) ELSE Moves(t, "checked")
  /\ UNCHANGED <<client, commands, conns, server, receipts, bounds>>

\* The engine's receipts: the first call under an id owns it and runs, another
\* is replayed the stored answer, refused in_progress, or waits.
Reserve(t) ==
  /\ t.at = "checked" /\ Key(t) \notin reserved \cup stored
  /\ reserved' = reserved \cup {Key(t)} /\ Moves(t, "running")
  /\ UNCHANGED <<client, commands, conns, server, stored, ran, bounds>>

Replay(t) ==
  /\ t.at = "checked" /\ Key(t) \in stored /\ Says(t, "done")
  /\ UNCHANGED <<client, commands, conns, server, receipts, bounds>>

InProgress(t) ==
  /\ t.at = "checked" /\ Key(t) \in reserved /\ Refuses /\ Says(t, "in_progress")
  /\ UNCHANGED <<client, commands, conns, server, receipts>>

Run(t) ==
  /\ t.at = "running"
  /\ ran' = ran \cup {[cmd |-> t.cmd, n |-> t.n, as |-> t.as]}
  /\ reserved' = reserved \ {Key(t)} /\ stored' = stored \cup {Key(t)}
  /\ Says(t, "done")
  /\ UNCHANGED <<client, commands, conns, server, bounds>>

\* The engine refuses it at its gate, and forgets the id.
Gate(t) ==
  /\ t.at = "running" /\ Refuses /\ Says(t, "gate")
  /\ reserved' = reserved \ {Key(t)}
  /\ UNCHANGED <<client, commands, conns, server, stored, ran>>

\* A connection the client has left, or of an engine replaced, closes: lines not
\* read are lost, and unbind releases the client if it is this connection's still.
HostCloses(w) ==
  /\ conns[w].them = "open" /\ (conns[w].us # "open" \/ conns[w].inc # host.inc)
  /\ conns' = [conns EXCEPT ![w].them = "closed"]
  /\ tries' = Closing({w})
  /\ binds' = [i \in Wires |-> IF binds[i].conn = w THEN [binds[i] EXCEPT !.conn = 0] ELSE binds[i]]
  /\ UNCHANGED <<client, commands, host, receipts, bounds>>

Loses == losses < MaxLosses /\ losses' = losses + 1 /\ UNCHANGED refusals
NoBindings == binds' = [i \in Wires |-> NoBinding]

\* SetEngine: handlers keep the engine they have.
Replace ==
  /\ Loses /\ NoBindings /\ host' = [host EXCEPT !.inc = @ + 1, !.minted = 0]
  /\ UNCHANGED <<client, commands, conns, tries, receipts>>

\* The host dies with its engine, and another comes to serve the session; what
\* it had written can still be read.
Restart ==
  /\ Loses /\ NoBindings /\ host' = [host EXCEPT !.proc = @ + 1, !.inc = @ + 1, !.minted = 0]
  /\ conns' = [w \in Wires |->
       IF conns[w].them = "open" THEN [conns[w] EXCEPT !.them = "closed"] ELSE conns[w]]
  /\ tries' = {t \in tries : t.at \in {"claimed", "reply"}}
  /\ UNCHANGED <<client, commands, receipts>>

\* dropIdleLocked: long without a connection (or its client retired).
IdleOut(i) ==
  /\ Loses /\ binds[i].token # 0 /\ binds[i].conn = 0
  /\ binds' = [binds EXCEPT ![i] = NoBinding]
  /\ UNCHANGED <<client, commands, conns, tries, host, receipts>>

-----------------------------------------------------------------------------
ClientStep ==
  \/ \E c \in Cmds : \/ Retry(c) \/ Return(c) \/ WaitedOut(c) \/ Publish(c)
                     \/ \E by \in {"caller", "timer"} : Attempt(c, by)
  \/ \E t \in tries : Written(t) \/ Unsent(t) \/ CutOff(t) \/ Reply(t)
  \/ \E w \in Wires : Hello(w) \/ ((conns[w].us = "broken" \/ conns[w].them = "closed") /\ Gone(w))
  \/ Adopt \/ Reattached \/ Published \/ Spent

HostStep ==
  \/ \E t \in tries : ReadLine(t) \/ Admitted(t) \/ Reserve(t) \/ Replay(t) \/ Run(t)
  \/ \E w \in Wires : HostCloses(w)

Chance ==
  \/ \E c \in Cmds : Bind(c) \/ Register(c) \/ GiveUp(c)
  \/ \E w \in Wires : Gone(w) \/ IdleOut(w)
  \/ \E t \in tries : Busy(t) \/ InProgress(t) \/ Gate(t)
  \/ Close \/ Replace \/ Restart

Next == ClientStep \/ HostStep \/ Chance

Spec == Init /\ [][Next]_vars

\* The client's goroutines and the host's handlers run on; what they meet is chance.
FairSpec == Spec /\ WF_vars(ClientStep) /\ WF_vars(HostStep)

-----------------------------------------------------------------------------
(* Properties *)

\* What the caller may be given: the host's answer, or the client's own.
Answers == {"none", "done", "stale", "unknown", "not_run"} \cup Retryable
Sides ==
  [us : {"none", "open", "broken", "gone"}, them : {"none", "open", "closed"}, proc : Nat,
   inc : Nat, client : Nat, gen : Nat, token : Nat, resumed : {"yes", "no"}]
Tries ==
  [cmd : Cmds, n : Nat, conn : Wires, as : Nat, by : {"caller", "timer", "publish"}, ran : Nat,
   at : {"claimed", "line", "read", "checked", "running", "reply"},
   ans : {"none", "done"} \cup Retryable]

\* What a variable may hold.
TypeOK ==
  /\ link \in Links /\ wire \in Wires \cup {0} /\ identity \in Nat
  /\ held \in [host : Nat, client : Wires, token : Nat]
  /\ cmds \subseteq Cmds /\ want \subseteq Cmds /\ out \subseteq Cmds /\ waiting \subseteq Cmds
  /\ resent \subseteq Cmds /\ resolved \subseteq Cmds
  /\ attempt \in [Cmds -> Nat] /\ ranUnder \in [Cmds -> Nat] /\ unanswered \in [Cmds -> Nat]
  /\ pinned \in [Cmds -> Nat] /\ answer \in [Cmds -> Answers]
  /\ calling \subseteq Cmds \X {"caller", "timer"}
  /\ conns \in [Wires -> Sides] /\ tries \subseteq Tries
  /\ host \in [proc : Nat, inc : Nat, minted : Nat, tokens : Nat]
  /\ binds \in [Wires -> [conn : Wires \cup {0}, gen : Nat, token : Nat]]
  /\ reserved \subseteq Nat \X Nat \X Cmds /\ stored \subseteq Nat \X Nat \X Cmds
  /\ ran \subseteq [cmd : Cmds, n : Nat, as : Nat]
  /\ losses \in 0..MaxLosses /\ refusals \in 0..MaxRefusals

\* A command runs at most once, over all its attempts, connections, engines and
\* hosts, and a bound one only under the identity it is bound to ("THE RESEND
\* RULE" and "BOUND TO AN IDENTITY", command.go).
RunsOnceAsBound ==
  /\ \A p, q \in ran : p.cmd = q.cmd => p = q
  /\ \A p \in ran : pinned[p.cmd] \in {0, p.as}

\* An attempt that may yet run.
MayRun(t) == t.at \in {"claimed", "line", "read", "checked", "running"}

\* What the caller is told is so: done has run; not run has not, and never will
\* (ErrNotRun, "none of it left the client").
AnswersAreTrue ==
  \A c \in Cmds :
    /\ answer[c] = "done" => \E p \in ran : p.cmd = c
    /\ answer[c] = "not_run" => /\ \A p \in ran : p.cmd # c
                                /\ \A t \in tries : t.cmd = c => ~MayRun(t)

\* Command returns: it is answered, or settled by the client itself, whatever
\* connections, engines and hosts come and go.
CallersReturn == \A c \in Cmds : c \in cmds ~> c \notin cmds
=============================================================================
