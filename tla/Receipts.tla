------------------------------ MODULE Receipts ------------------------------
(***************************************************************************)
(* The command receipts of the engine (src/internal/engine/receipts.go): a *)
(* client that lost its connection asks "did my command go through?" by    *)
(* sending it again under the same id, and the resend must never be a      *)
(* second execution.                                                       *)
(*                                                                         *)
(*   rt      receiptTable, under rt.mu: the minted clients with their      *)
(*           marks, and the receipts by key.  The order of completed keys  *)
(*           is the number each receipt was stored under                   *)
(*   now     the table's clock, which runs only forward                    *)
(*   calls   the goroutines that call a Control method.  The mutex is held *)
(*           to admit a command and to publish its result, and never while *)
(*           it runs, so those are the steps                               *)
(*   ran     history, read by the properties only: what was executed       *)
(*                                                                         *)
(* A payload stands for a method and its arguments, as the hash of both    *)
(* does.                                                                   *)
(***************************************************************************)
EXTENDS Naturals, FiniteSets, FiniteSetsExt, Functions

CONSTANTS
  Calls,          \* the goroutines; bound: commands in flight at once
  Payloads,
  Blocking,       \* the payloads whose method is documented as blocking
  ReceiptCap,     \* receiptCap (1024 in the source)
  ReceiptAge,     \* receiptAge, in ticks (10 minutes)
  MaxClients, MaxId, MaxTime   \* bounds

ASSUME ReceiptsAssumption ==
  /\ Blocking \subseteq Payloads
  /\ {ReceiptCap, ReceiptAge, MaxClients, MaxId, MaxTime} \subseteq Nat
  /\ ReceiptCap > 0

VARIABLES rt, now, calls, ran

vars == <<rt, now, calls, ran>>

\* How a command ends: with a result or a refusal about itself ("ok"), refused
\* at the engine's gate with nothing run, or by a panic.
Results == {"ok", "gate", "aborted"}
Refusals == {"bad_request", "unknown_command", "in_progress"}

Key == [client : 1..MaxClients, id : 1..MaxId]

\* A reservation and, once completed, the result it keeps.
Open(p) == [payload |-> p, completed |-> FALSE, res |-> "none", at |-> 0, n |-> 0]
Receipt == [payload : Payloads, completed : BOOLEAN, res : Results \cup {"none"}, at : Nat, n : Nat]

NewClientRecord == [mark |-> 0, released |-> FALSE, releasedAt |-> 0, entries |-> 0]
ReceiptClient == [mark : Nat, released : BOOLEAN, releasedAt : Nat, entries : Nat]

\* got is what a waiter's receipt was published with.
Idle == [phase |-> "idle", key |-> [client |-> 0, id |-> 0], payload |-> "none", got |-> "none", reply |-> "none"]

Init ==
  /\ rt = [clientSeq |-> 0, clients |-> <<>>, byKey |-> <<>>, stores |-> 0]
  /\ now = 0
  /\ calls = [g \in Calls |-> Idle]
  /\ ran = [k \in Key |-> [count |-> 0, payload |-> "none", res |-> "none", at |-> 0, n |-> 0]]

-----------------------------------------------------------------------------
(* The table *)

Completed(t) == {k \in DOMAIN t.byKey : t.byKey[k].completed}
IdsOf(c, keys) == {k.id : k \in {j \in keys : j.client = c}}

\* dropEntryLocked: the entries leave, and their clients' counts with them.
Dropped(t, keys) ==
  [t EXCEPT !.byKey = Restrict(t.byKey, DOMAIN t.byKey \ keys),
            !.clients = [c \in DOMAIN t.clients |->
               [t.clients[c] EXCEPT
                  !.entries = @ - Cardinality({k \in keys \cap DOMAIN t.byKey : k.client = c})]]]

\* Mutant: the mark is the id evicted last, not the highest.
MarkedLast(t, keys) ==
  [t EXCEPT !.clients = [c \in DOMAIN t.clients |->
     [t.clients[c] EXCEPT !.mark = IF IdsOf(c, keys) = {} THEN @ ELSE Max(IdsOf(c, keys))]]]

\* markEvictedLocked: a client's mark is the highest id of its ever evicted.
Marked(t, keys) ==
  [t EXCEPT !.clients = [c \in DOMAIN t.clients |->
     [t.clients[c] EXCEPT !.mark = Max({@} \cup IdsOf(c, keys))]]]

Evicted(t, keys) == Marked(Dropped(t, keys), keys)

\* The entries past the age, and, once they are gone, the released clients that
\* hold none and have waited as long.
Aged(t) == {k \in Completed(t) : now - t.byKey[k].at > ReceiptAge}

Retired(t) ==
  {c \in DOMAIN t.clients : /\ t.clients[c].released /\ t.clients[c].entries = 0
                            /\ now - t.clients[c].releasedAt >= ReceiptAge}
EvictAged(t) ==
  LET u == Evicted(t, Aged(t))
  IN  [u EXCEPT !.clients = Restrict(u.clients, DOMAIN u.clients \ Retired(u))]

\* The oldest completed entry goes as soon as one past the cap is kept.
Oldest(t) == {k \in Completed(t) : \A j \in Completed(t) : t.byKey[k].n <= t.byKey[j].n}

\* Mutant: the entry just stored is the one dropped.
PrunedNewest(t) ==
  IF Cardinality(Completed(t)) > ReceiptCap
  THEN Evicted(t, {k \in Completed(t) : \A j \in Completed(t) : t.byKey[k].n >= t.byKey[j].n}) ELSE t

Pruned(t) == IF Cardinality(Completed(t)) > ReceiptCap THEN Evicted(t, Oldest(t)) ELSE t

-----------------------------------------------------------------------------
(* Clients *)

NewClient ==
  LET c == rt.clientSeq + 1
  IN  /\ c <= MaxClients
      /\ rt' = [rt EXCEPT !.clientSeq = c,
                          !.clients = [d \in DOMAIN @ \cup {c} |-> IF d = c THEN NewClientRecord ELSE @[d]]]
      /\ UNCHANGED <<now, calls, ran>>

\* ReleaseClient: retirable from now; a second release keeps the first time.
ReleaseClient(c) ==
  LET t == EvictAged(rt)
  IN  /\ rt' = IF c \in DOMAIN t.clients /\ ~t.clients[c].released
               THEN [t EXCEPT !.clients[c].released = TRUE, !.clients[c].releasedAt = now] ELSE t
      /\ UNCHANGED <<now, calls, ran>>

\* ClaimClient: live again, unless it is retired by then.
ClaimClient(c) ==
  LET t == EvictAged(rt)
  IN  /\ rt' = IF c \in DOMAIN t.clients
               THEN [t EXCEPT !.clients[c].released = FALSE, !.clients[c].releasedAt = 0] ELSE t
      /\ UNCHANGED <<now, calls, ran>>

-----------------------------------------------------------------------------
(* Commands *)

\* Mutant: a duplicate's payload is not compared.
VerdictOfAnyPayload(t, k, p) ==
  IF k.client \notin DOMAIN t.clients THEN "bad_request"
  ELSE IF k \in DOMAIN t.byKey
       THEN IF t.byKey[k].completed THEN "replay" ELSE IF p \in Blocking THEN "wait" ELSE "in_progress"
  ELSE IF k.id <= t.clients[k.client].mark THEN "unknown_command" ELSE "reserve"

\* admit's one decision about a command.
Verdict(t, k, p) ==
  IF k.client \notin DOMAIN t.clients THEN "bad_request"
  ELSE IF k \in DOMAIN t.byKey
       THEN IF t.byKey[k].payload # p THEN "bad_request"
            ELSE IF t.byKey[k].completed THEN "replay"
            ELSE IF p \in Blocking THEN "wait" ELSE "in_progress"
  ELSE IF k.id <= t.clients[k.client].mark THEN "unknown_command" ELSE "reserve"

Call(k, p, phase) == [Idle EXCEPT !.phase = phase, !.key = k, !.payload = p]
Reply(k, p, reply) == [Call(k, p, "replied") EXCEPT !.reply = reply]

Reserved(t, k, p) ==
  [t EXCEPT !.byKey = [j \in DOMAIN @ \cup {k} |-> IF j = k THEN Open(p) ELSE @[j]],
            !.clients[k.client].entries = @ + 1]

\* A call sends command k with payload p, for the first time or again.
Send(g, k, p) ==
  LET t == EvictAged(rt)
      verdict == Verdict(t, k, p)
  IN  /\ calls[g].phase \in {"idle", "replied"}
      /\ rt' = IF verdict = "reserve" THEN Reserved(t, k, p) ELSE t
      /\ calls' = [calls EXCEPT ![g] = CASE verdict = "reserve" -> Call(k, p, "running")
                                         [] verdict = "wait" -> Call(k, p, "waiting")
                                         [] verdict = "replay" -> Reply(k, p, t.byKey[k].res)
                                         [] OTHER -> Reply(k, p, verdict)]
      /\ UNCHANGED <<now, ran>>

\* publishLocked: kept, or forgotten as if it had never been sent.
Published(t, k, res) ==
  IF res = "gate" THEN Dropped(t, {k})
  ELSE Pruned([t EXCEPT !.byKey[k] = [@ EXCEPT !.completed = TRUE, !.res = res, !.at = now, !.n = t.stores + 1],
                        !.stores = @ + 1])

Executed(k, p, res) ==
  IF res = "gate" THEN ran
  ELSE [ran EXCEPT ![k] = [count |-> @.count + 1, payload |-> p, res |-> res,
                           at |-> now, n |-> rt.stores + 1]]

\* The calls parked on this reservation, whose done channel is closed now.
Parked(h, k) == calls[h].phase = "waiting" /\ calls[h].key = k /\ calls[h].got = "none"

\* Mutant: a forgotten reservation's channel is not closed.
WokenUnlessGate(k, res) ==
  [h \in Calls |-> IF Parked(h, k) /\ res # "gate" THEN [calls[h] EXCEPT !.got = res] ELSE calls[h]]

Woken(k, res) == [h \in Calls |-> IF Parked(h, k) THEN [calls[h] EXCEPT !.got = res] ELSE calls[h]]

\* The command's own work is over: finish, or abort on a panic's way out.
Finish(g, res) ==
  LET k == calls[g].key
      p == calls[g].payload
  IN  /\ calls[g].phase = "running"
      /\ rt' = Published(rt, k, res)
      /\ calls' = [Woken(k, res) EXCEPT ![g] = Reply(k, p, res)]
      /\ ran' = Executed(k, p, res)
      /\ UNCHANGED now

\* waitReceipt: the published result, or the duplicate's own context.
WaitEnds(g) ==
  /\ calls[g].phase = "waiting" /\ calls[g].got # "none"
  /\ calls' = [calls EXCEPT ![g] = Reply(@.key, @.payload, @.got)]
  /\ UNCHANGED <<rt, now, ran>>

WaitGivenUp(g) ==
  /\ calls[g].phase = "waiting"
  /\ calls' = [calls EXCEPT ![g] = Reply(@.key, @.payload, "in_progress")]
  /\ UNCHANGED <<rt, now, ran>>

Tick == now < MaxTime /\ now' = now + 1 /\ UNCHANGED <<rt, calls, ran>>

Next ==
  \/ NewClient
  \/ \E c \in 1..MaxClients : ReleaseClient(c) \/ ClaimClient(c)
  \/ \E g \in Calls, k \in Key, p \in Payloads : Send(g, k, p)
  \/ \E g \in Calls : \/ \E res \in Results : Finish(g, res)
                      \/ WaitEnds(g) \/ WaitGivenUp(g)
  \/ Tick

Spec == Init /\ [][Next]_vars

\* A command's work ends, as the engine's blocking calls are made to; and a
\* goroutine whose channel is closed runs.  (Weak fairness of both, with what
\* enables them written out.)
Fairness ==
  \A g \in Calls :
    /\ \/ []<>(calls[g].phase # "running")
       \/ []<><<\E res \in Results : Finish(g, res)>>_calls
    /\ \/ []<>(calls[g].phase # "waiting" \/ calls[g].got = "none")
       \/ []<><<WaitEnds(g)>>_calls

FairSpec == Spec /\ Fairness

-----------------------------------------------------------------------------
(* Properties *)

\* Every variable stays within its type.
TypeOK ==
  /\ rt.clientSeq \in 0..MaxClients /\ rt.stores \in Nat
  /\ DOMAIN rt.clients \subseteq 1..rt.clientSeq
  /\ rt.clients \in [DOMAIN rt.clients -> ReceiptClient]
  /\ DOMAIN rt.byKey \subseteq Key
  /\ rt.byKey \in [DOMAIN rt.byKey -> Receipt]
  /\ now \in Nat
  /\ \A g \in Calls :
       /\ calls[g].phase \in {"idle", "running", "waiting", "replied"}
       /\ calls[g].phase # "idle" => calls[g].key \in Key /\ calls[g].payload \in Payloads
       /\ calls[g].got \in Results \cup {"none"}

\* A command id is executed at most once, whatever is resent, evicted, released,
\* resumed or retired, and never by two calls at once: an execution that was not
\* refused at the gate is the last there is.
RunsOnce ==
  \A k \in Key :
    /\ ran[k].count <= 1
    /\ \A g \in Calls : calls[g].phase = "running" /\ calls[g].key = k =>
         /\ ran[k].count = 0
         /\ \A h \in Calls \ {g} : ~(calls[h].phase = "running" /\ calls[h].key = k)

\* A call that is told an outcome is told that of the execution of its own id
\* with its own payload.
AnswersAreOwn ==
  \A g \in Calls : calls[g].phase = "replied" /\ calls[g].reply \in {"ok", "aborted"} =>
    LET r == ran[calls[g].key]
    IN  r.count > 0 /\ r.payload = calls[g].payload /\ r.res = calls[g].reply

\* RetryHorizon's promise: a result within the age and among the last
\* ReceiptCap stored is answered from the table, with its client still known.
KeptWithinHorizon ==
  \A k \in Key :
    /\ ran[k].count > 0 /\ now - ran[k].at <= ReceiptAge
    /\ Cardinality({j \in Key : ran[j].count > 0 /\ ran[j].n > ran[k].n}) < ReceiptCap
    => /\ k.client \in DOMAIN rt.clients
       /\ k \in DOMAIN rt.byKey /\ rt.byKey[k].completed /\ rt.byKey[k].res = ran[k].res

\* A duplicate that waits on a reservation is answered when it ends, however it
\* ends.
DuplicatesAnswered == \A g \in Calls : calls[g].phase = "waiting" ~> calls[g].phase # "waiting"

\* What receipts.go says of a gate refusal: "a gate refusal after a very long
\* call still leaves the id retryable rather than permanently unknown".
GateRefusalLeavesRetryable ==
  [][\A g \in Calls :
       LET c == calls[g]
       IN  c.phase = "running" /\ calls'[g] = Reply(c.key, c.payload, "gate") =>
             Verdict(rt', c.key, c.payload) = "reserve"]_vars
=============================================================================
