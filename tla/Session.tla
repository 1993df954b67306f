------------------------------ MODULE Session ------------------------------
(***************************************************************************)
(* The session below the engine, as the engine's turn driver meets it: one *)
(* prompt slot, the continuations that run in it, a cancel's mark, and the *)
(* turns the agent starts of its own ("foreign" turns).                    *)
(*                                                                         *)
(* Two sessions implement the seam, chosen by Native:                      *)
(*                                                                         *)
(*   TRUE   the native session (agent/native.go, native_wake.go): its own  *)
(*          turns are wakes, which deliver background results, hold the    *)
(*          slot, and start only while the engine's admission fence is     *)
(*          down;                                                          *)
(*   FALSE  the live session over an ACP agent (agent/live.go,             *)
(*          live_queue.go, acp/interject.go): the agent starts its turns   *)
(*          when it likes, the protocol client knows of one before the     *)
(*          session's flag does, and refuses a prompt while it knows.      *)
(*                                                                         *)
(* ses is the state under s.mu (and, for the live session, the client's    *)
(* own foreign id); the engine's sections call the operators of the first  *)
(* part on it, and the actions of the second part are the session's own.   *)
(***************************************************************************)
EXTENDS Integers, Sequences, PromptQueue

CONSTANTS
  Native,           \* which session this is
  MaxAgentTurns,    \* bound: turns the agent (or a background child) still causes
  MaxRefusals       \* bound: prompts the live client refuses before the flag catches up

ASSUME SessionAssumption ==
  /\ Native \in BOOLEAN
  /\ MaxAgentTurns \in Nat
  /\ MaxRefusals \in Nat

VARIABLE ses

\* How a continuation can come back.
Refusals == {"foreign", "inflight"}
StopReasons == {"end_turn", "max_requests", "cancelled"}
Results == StopReasons \cup Refusals \cup {"withdrawn", "failed"}

\* The agent's own turn, from its start to the observer having seen its end.
\* native: none, claimed, running, ended.  live: all five.
AgentPhases == {"none", "claimed", "running", "cleared", "ended"}

\* Where a continuation is: claimed by Begin, its turn opened, its prompt with
\* the agent, come back with a result the engine has not taken yet.
Phases == {"claimed", "open", "sent", "back"}

Cont == [turn : Nat \ {0}, row : Nat, phase : Phases, res : Results \cup {"none"}, steers : Nat]

SesType ==
  [slot       : Nat,            \* the turn whose claim holds the slot, 0 for none
   conts      : SUBSET Cont,    \* the continuations not yet handed back
   cancelling : BOOLEAN,
   agent      : AgentPhases,
   fenced     : BOOLEAN,        \* the admission fence, as the session records it
   children   : Nat,            \* background children still running
   pending    : BOOLEAN,        \* a background result waits for a turn
   wakeKick   : BOOLEAN,
   worker     : {"idle", "ready", "waking"},
   closed     : BOOLEAN,
   reached    : SUBSET Nat,     \* the rows whose prompt reached the agent
   agentLeft  : Nat,            \* bound: MaxAgentTurns less those taken
   refusalsLeft : Nat]          \* bound: MaxRefusals less those taken

SesInit ==
  ses = [slot |-> 0, conts |-> {}, cancelling |-> FALSE, agent |-> "none",
         fenced |-> FALSE, children |-> 0, pending |-> FALSE, wakeKick |-> FALSE,
         worker |-> "idle", closed |-> FALSE, reached |-> {},
         agentLeft |-> MaxAgentTurns, refusalsLeft |-> MaxRefusals]

-----------------------------------------------------------------------------
(* What the engine's sections call *)

\* A wake holds the native session's slot from its claim to its release.
Wake(s) == Native /\ s.agent \in {"claimed", "running"}

\* The session's flag: with the wake's claim in the native session, behind the
\* client's knowledge, at both ends, in the live one.
ForeignTurn(s) ==
  IF Native THEN s.agent \in {"claimed", "running"} ELSE s.agent \in {"running", "cleared"}

\* The live client's own knowledge of the agent's turn, by which it refuses.
ClientForeign(s) == ~Native /\ s.agent \in {"claimed", "running"}

\* What Begin answers before anything runs: a wake holds the slot, or another
\* prompt does, or the slot is this prompt's.
ClaimRefusal(s) ==
  IF Wake(s) THEN "foreign" ELSE IF s.slot # 0 THEN "inflight" ELSE "none"

\* Begin: claim the slot for turn t, whose text came from row (0: none).
\* A claim clears a cancel asked before it; a refused one changes nothing and
\* its continuation only carries the refusal.
Begin(s, t, row) ==
  LET refusal == ClaimRefusal(s)
      cont == [turn |-> t, row |-> row, phase |-> "claimed", res |-> "none", steers |-> 0]
  IN  IF refusal = "none"
      THEN [s EXCEPT !.slot = t, !.cancelling = FALSE, !.conts = @ \cup {cont}]
      ELSE [s EXCEPT !.conts = @ \cup {[cont EXCEPT !.phase = "back", !.res = refusal]}]

FenceUp(s) == [s EXCEPT !.fenced = TRUE]
\* Mutant: the fence comes down and the wake worker is not told.
FenceDownSilently(s) == [s EXCEPT !.fenced = FALSE]
FenceDown(s) == [s EXCEPT !.fenced = FALSE, !.wakeKick = TRUE]

\* Cancel's first section: the mark that makes a claimed continuation withdraw
\* and an open turn end cancelled.
CancelMark(s) == [s EXCEPT !.cancelling = TRUE]

\* A background child still running, or its result not yet taken by a turn.
OwesWork(s) == s.children > 0 \/ s.pending

\* A craze turn that an interjection can still be merged into.
Interjectable(s, c) == c.phase = "sent" /\ ~s.cancelling

\* A wake's claim: the slot is free, the fence is down, a result waits.
WakeReady(s) == ~s.closed /\ s.slot = 0 /\ ~Wake(s) /\ ~s.fenced /\ s.pending
WakeClaimed(s) == [s EXCEPT !.worker = "waking", !.agent = "claimed", !.cancelling = FALSE]

\* Between a section's read of the flag and its Begin the worker can claim,
\* unless the fence is up: taken at its worst, it does.
Raced(s) == IF Native /\ s.worker = "ready" /\ WakeReady(s) THEN WakeClaimed(s) ELSE s

-----------------------------------------------------------------------------
(* Continuations *)

\* Mutant: the result is back before the slot is free.
ReleasedHoldingSlot(s, c, res) ==
  [s EXCEPT !.conts = (@ \ {c}) \cup {[c EXCEPT !.phase = "back", !.res = res]}]

\* A continuation that ends: the slot is released, and its result waits for
\* the engine.  The native release rechecks for a pending result.
Released(s, c, res) ==
  [s EXCEPT !.conts = (@ \ {c}) \cup {[c EXCEPT !.phase = "back", !.res = res]},
            !.slot = 0, !.cancelling = FALSE, !.wakeKick = @ \/ Native]

\* The continuation's first section: it withdraws if it was cancelled since
\* the claim, fails on a closed session, and else opens its turn.
OpenTurn(c) ==
  /\ c \in ses.conts /\ c.phase = "claimed"
  /\ ses' = IF ses.cancelling THEN Released(ses, c, "withdrawn")
            ELSE IF ses.closed THEN Released(ses, c, "failed")
            ELSE [ses EXCEPT !.conts = (@ \ {c}) \cup {[c EXCEPT !.phase = "open"]}]

\* The live client refuses a prompt before the wire while it knows of a turn of
\* the agent's own.
RefusePrompt(c) ==
  /\ c \in ses.conts /\ c.phase = "open"
  /\ ClientForeign(ses) /\ ses.refusalsLeft > 0
  /\ ses' = [Released(ses, c, "foreign") EXCEPT !.refusalsLeft = @ - 1]

\* The prompt reaches the agent.
SendPrompt(c) ==
  /\ c \in ses.conts /\ c.phase = "open"
  /\ ~ClientForeign(ses)
  /\ ses' = [ses EXCEPT !.conts = (@ \ {c}) \cup {[c EXCEPT !.phase = "sent"]},
                        !.reached = IF c.row = 0 THEN @ ELSE @ \cup {c.row}]

\* A step of a native turn is saved: the steers it took are answered and the
\* background results it took are delivered.  What a step took and did not save
\* goes back as it was, so the taking is part of the save.
StepBoundary(c) ==
  /\ Native /\ c \in ses.conts /\ c.phase = "sent"
  /\ c.steers > 0 \/ ses.pending
  /\ ses' = [ses EXCEPT !.conts = (@ \ {c}) \cup {[c EXCEPT !.steers = 0]}, !.pending = FALSE]

\* The turn ends: with a stop reason of its own, cancelled only if it was
\* marked or the session is closing, or failed.  Its unanswered steers go back.
EndTurn(c, res) ==
  /\ c \in ses.conts /\ c.phase = "sent"
  /\ res \in StopReasons \cup {"failed"}
  /\ res = "cancelled" => ses.cancelling \/ ses.closed
  /\ ses' = Released(ses, c, res)

-----------------------------------------------------------------------------
(* The native session's wake *)

\* The running turn launches a background child; the child's result becomes
\* pending when it finishes, and kicks the worker.
LaunchChild ==
  /\ Native /\ ses.agentLeft > 0 /\ ~ses.closed
  /\ ses.agent = "running" \/ \E c \in ses.conts : c.phase = "sent"
  /\ ses' = [ses EXCEPT !.children = @ + 1, !.agentLeft = @ - 1]

ChildFinishes ==
  /\ ses.children > 0
  /\ ses' = [ses EXCEPT !.children = @ - 1, !.pending = TRUE, !.wakeKick = TRUE]

\* A recheck reads without claiming, and claims in a second section that reads
\* everything again.
RecheckRead ==
  /\ Native /\ ses.worker = "idle" /\ ses.wakeKick /\ ~ses.closed
  /\ ses' = [ses EXCEPT !.wakeKick = FALSE, !.worker = IF WakeReady(ses) THEN "ready" ELSE "idle"]

RecheckClaim ==
  /\ ses.worker = "ready"
  /\ ses' = IF WakeReady(ses) THEN WakeClaimed(ses)
            ELSE [ses EXCEPT !.worker = "idle"]

\* The opening bracket, and the harness reserving the pending results; a later
\* step of the wake reserves those that came since.  A result a failed or
\* cancelled wake took is set aside: it is not pending.
WakeOpens ==
  /\ Wake(ses) /\ (ses.agent = "claimed" \/ ses.pending)
  /\ ses' = [ses EXCEPT !.agent = "running", !.pending = FALSE]

\* The ending: flag and claim released and the ending bracket queued, in one
\* section.  The observer sees the bracket later (AgentEndObserved).
WakeEnded(s) == [s EXCEPT !.agent = "ended", !.cancelling = FALSE]
WakeEnds == Wake(ses) /\ ses.agent = "running" /\ ses' = WakeEnded(ses)

-----------------------------------------------------------------------------
(* The live session's foreign turn: the client learns of it, then the flag *)
(* follows, at its start and at its end.                                   *)

AgentTurnStarts ==
  /\ ~Native /\ ses.agent = "none" /\ ses.agentLeft > 0 /\ ~ses.closed
  /\ ses' = [ses EXCEPT !.agent = "claimed", !.agentLeft = @ - 1]

FlagRaised == ~Native /\ ses.agent = "claimed" /\ ses' = [ses EXCEPT !.agent = "running"]
AgentTurnEnds == ~Native /\ ses.agent = "running" /\ ses' = [ses EXCEPT !.agent = "cleared"]
FlagLowered == ~Native /\ ses.agent = "cleared" /\ ses' = [ses EXCEPT !.agent = "ended"]

-----------------------------------------------------------------------------
\* The session's own steps; the engine is not told of any of them.
SessionNext ==
  \/ \E c \in ses.conts : \/ OpenTurn(c) \/ RefusePrompt(c) \/ SendPrompt(c) \/ StepBoundary(c)
                          \/ \E res \in Results : EndTurn(c, res)
  \/ LaunchChild \/ ChildFinishes
  \/ RecheckRead \/ RecheckClaim \/ WakeOpens \/ WakeEnds
  \/ AgentTurnStarts \/ FlagRaised \/ AgentTurnEnds \/ FlagLowered

\* The observer has seen the end of the agent's turn.  The wake worker goes
\* back to its loop with the recheck its ending asked for.
AgentEndSeen(s) ==
  [s EXCEPT !.agent = "none", !.worker = "idle", !.wakeKick = @ \/ Native]
=============================================================================
