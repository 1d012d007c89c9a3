---------------------------- MODULE OutboundGuards ----------------------------
(***************************************************************************)
(* Calls of Agent Kenny to a tenant's external MCP servers                 *)
(* (agents/agent_kenny/mcp_client.py, mcp_kill_switch.py,                  *)
(* mcp_rate_limit.py, mcp_loader.py, service.py).                          *)
(*                                                                         *)
(* The turns of a tenant in one process share a cached answer of the kill  *)
(* switch and the sliding window of a tool. A turn asks the switch, lists  *)
(* the tools of a connector, and then makes one call after another: each   *)
(* asks the switch again, passes the allow-list and the two caps, and,     *)
(* refused or sent, leaves an audit row in a transaction of its own; only  *)
(* a call whose token cannot be decrypted leaves none. What a coroutine    *)
(* does between two awaits is one step.                                    *)
(***************************************************************************)
EXTENDS Integers, Sequences

CONSTANTS
    Turns,     \* turns of one tenant in one process
    TTL,       \* CACHE_TTL_SECONDS, in ticks
    Window,    \* 60 seconds, in ticks
    PerMinute, \* per_minute_cap
    PerTurn,   \* per_turn_cap
    MaxTime,   \* bound: ticks
    MaxCalls,  \* bound: calls a turn tries
    MaxFlips,  \* bound: flips of the switch
    MaxFaults  \* bound: database errors, hard timeouts of a turn

Times == 0..MaxTime
Never == -1

ASSUME GuardsAssumption ==
    /\ TTL \in Nat \ {0} /\ Window \in Nat \ {0}
    /\ PerMinute \in Nat \ {0} /\ PerTurn \in Nat \ {0}
    /\ MaxTime \in Nat /\ MaxCalls \in Nat /\ MaxFlips \in Nat /\ MaxFaults \in Nat

VARIABLES
    now,       \* time.monotonic
    engaged,   \* committed mcp_outbound_disabled
    engagedAt, \* when it was last set
    cache,     \* what the kill switch cached: the answer, fetched_at or Never
    window,    \* the timestamps of the tool's calls, oldest first
    count,     \* calls of an open turn
    pc,        \* where a turn is
    kind,      \* what it asks the switch for: the list of tools, or a call
    stamp,     \* when it asked
    answer,    \* what its SELECT returned
    tries,     \* calls it may still try
    untold,    \* turns with an attempt that left no row in the ledger yet
    flips, faults

switch == <<engaged, engagedAt>>
limits == <<window, count>>
asking == <<kind, stamp, answer>>
vars == <<now, engaged, engagedAt, cache, window, count, pc, kind, stamp, answer,
          tries, untold, flips, faults>>

TypeOK ==
    /\ now \in Times /\ engaged \in BOOLEAN /\ engagedAt \in Times \cup {Never}
    /\ cache \in [on : BOOLEAN, at : Times \cup {Never}]
    /\ window \in Seq(Times) /\ Len(window) <= PerMinute
    /\ count \in [Turns -> 0..PerTurn]
    /\ pc \in [Turns -> {"idle", "check", "select", "fill", "denied", "resolve",
                         "refused", "post", "sent", "cancelled", "ready",
                         "closing", "closed"}]
    /\ kind \in [Turns -> {"list", "call"}]
    /\ stamp \in [Turns -> Times] /\ answer \in [Turns -> BOOLEAN]
    /\ tries \in [Turns -> 0..MaxCalls] /\ untold \subseteq Turns
    /\ flips \in 0..MaxFlips /\ faults \in 0..MaxFaults

Init ==
    /\ now = 0 /\ engaged = FALSE /\ engagedAt = Never
    /\ cache = [on |-> FALSE, at |-> Never]
    /\ window = <<>> /\ count = [t \in Turns |-> 0]
    /\ pc = [t \in Turns |-> "idle"] /\ kind = [t \in Turns |-> "list"]
    /\ stamp = [t \in Turns |-> 0] /\ answer = [t \in Turns |-> FALSE]
    /\ tries = [t \in Turns |-> MaxCalls] /\ untold = {}
    /\ flips = MaxFlips /\ faults = MaxFaults

Goto(t, l) == pc' = [pc EXCEPT ![t] = l]
Fault == faults > 0 /\ faults' = faults - 1

-----------------------------------------------------------------------------
(* The world around a turn *)

Tick ==
    /\ now < MaxTime /\ now' = now + 1
    /\ UNCHANGED <<switch, cache, limits, pc, asking, tries, untold, flips, faults>>

\* An administrator flips the switch; the cache is not told.
Flip ==
    /\ flips > 0 /\ flips' = flips - 1
    /\ engaged' = ~engaged
    /\ engagedAt' = IF engaged THEN engagedAt ELSE now
    /\ UNCHANGED <<now, cache, limits, pc, asking, tries, untold, faults>>

-----------------------------------------------------------------------------
(* The limiter *)

\* The timestamps that are left when those up to the cutoff are popped from
\* the front.
Expired(i) == i <= now - Window
Evicted ==
    LET popped == CHOOSE n \in 0..Len(window) :
            /\ \A k \in 1..n : Expired(window[k])
            /\ n < Len(window) => ~Expired(window[n + 1])
    IN  SubSeq(window, popped + 1, Len(window))

\* bug: the cap of a turn is compared one call late.
FitsLate(t) == Len(Evicted) < PerMinute /\ count[t] <= PerTurn

\* The two caps of acquire.
Fits(t) == Len(Evicted) < PerMinute /\ count[t] < PerTurn

\* A call that fits both caps is counted in both, or in neither.
Acquire(t) ==
    IF Fits(t)
    THEN /\ window' = Append(Evicted, now)
         /\ count' = [count EXCEPT ![t] = @ + 1]
    ELSE window' = Evicted /\ UNCHANGED count

-----------------------------------------------------------------------------
(* The kill switch and the guards that follow it without an await *)

\* The turn is registered with the limiter and asks the switch first.
OpenTurn(t) ==
    /\ pc[t] = "idle"
    /\ count' = [count EXCEPT ![t] = 0]
    /\ Goto(t, "check")
    /\ UNCHANGED <<now, switch, cache, window, asking, tries, untold, flips, faults>>

\* What a turn does with the answer. A turn that finds the switch engaged has
\* no external tools; a call is refused by the switch, by the allow-list of the
\* config read at the start of the turn, or by the limiter, and its row is due.
Answered(t, on) ==
    \/ /\ kind[t] = "list"
       /\ Goto(t, IF on THEN "closing" ELSE "resolve")
       /\ UNCHANGED <<limits, untold>>
    \/ /\ kind[t] = "call"
       /\ Goto(t, "denied") /\ untold' = untold \cup {t}
       /\ UNCHANGED limits
    \/ /\ kind[t] = "call" /\ ~on
       /\ Acquire(t)
       /\ Goto(t, IF Fits(t) THEN "resolve" ELSE "denied")
       /\ untold' = IF Fits(t) THEN untold ELSE untold \cup {t}

\* is_outbound_disabled: an entry younger than the TTL is the answer.
Check(t) ==
    /\ pc[t] = "check"
    /\ stamp' = [stamp EXCEPT ![t] = now]
    /\ IF cache.at # Never /\ now - cache.at < TTL
       THEN Answered(t, cache.on)
       ELSE Goto(t, "select") /\ UNCHANGED <<limits, untold>>
    /\ UNCHANGED <<now, switch, cache, kind, answer, tries, flips, faults>>

\* The SELECT. If it raises, discovery goes on as if the switch were off, and a
\* call takes the turn with it.
Select(t) ==
    /\ pc[t] = "select"
    /\ \/ /\ answer' = [answer EXCEPT ![t] = engaged]
          /\ Goto(t, "fill") /\ UNCHANGED faults
       \/ /\ Fault
          /\ Goto(t, IF kind[t] = "list" THEN "resolve" ELSE "closing")
          /\ UNCHANGED answer
    /\ UNCHANGED <<now, switch, cache, limits, kind, stamp, tries, untold, flips>>

\* bug: the entry is as old as its arrival.
FillStampedLate(t) ==
    /\ pc[t] = "fill"
    /\ cache' = [on |-> answer[t], at |-> now]
    /\ answer' = [answer EXCEPT ![t] = FALSE]
    /\ Answered(t, answer[t])
    /\ UNCHANGED <<now, switch, kind, stamp, tries, flips, faults>>

\* The answer is cached with the time at which it was asked for.
Fill(t) ==
    /\ pc[t] = "fill"
    /\ cache' = [on |-> answer[t], at |-> stamp[t]]
    /\ answer' = [answer EXCEPT ![t] = FALSE]
    /\ Answered(t, answer[t])
    /\ UNCHANGED <<now, switch, kind, stamp, tries, flips, faults>>

-----------------------------------------------------------------------------
(* The request *)

\* The egress guard or the circuit breaker refuses, and a row is due; or the
\* token cannot be decrypted, and none is; or the request goes out.
Resolve(t) ==
    /\ pc[t] = "resolve"
    /\ \/ Goto(t, "refused") /\ untold' = untold \cup {t}
       \/ Goto(t, IF kind[t] = "list" THEN "closing" ELSE "ready") /\ UNCHANGED untold
       \/ Goto(t, "post") /\ untold' = untold \cup {t}
    /\ UNCHANGED <<now, switch, cache, limits, asking, tries, flips, faults>>

\* An answer, an error or the timeout of the request.
Post(t) ==
    /\ pc[t] = "post"
    /\ Goto(t, "sent")
    /\ UNCHANGED <<now, switch, cache, limits, asking, tries, untold, flips, faults>>

\* What is left of the turn after an attempt: a connector whose list was
\* refused has no tools in this turn.
After(t) ==
    IF pc[t] = "cancelled" \/ (pc[t] = "refused" /\ kind[t] = "list")
    THEN "closing" ELSE "ready"

\* The row of the attempt, in a transaction of its own. If that fails, the row
\* of a request is given up; one of a guard raises instead, which ends the
\* attempt, and the turn too unless the guard sits in _invoke_jsonrpc.
EmitAudit(t) ==
    /\ pc[t] \in {"denied", "refused", "sent", "cancelled"}
    /\ untold' = untold \ {t}
    /\ \/ Goto(t, After(t)) /\ UNCHANGED faults
       \/ Fault /\ Goto(t, IF pc[t] = "denied" THEN "closing" ELSE After(t))
    /\ UNCHANGED <<now, switch, cache, limits, asking, tries, flips>>

-----------------------------------------------------------------------------
(* The turn *)

\* The model asks for one more external call, or is done.
Continue(t) ==
    /\ pc[t] = "ready"
    /\ stamp' = [stamp EXCEPT ![t] = 0]
    /\ \/ /\ tries[t] > 0 /\ tries' = [tries EXCEPT ![t] = @ - 1]
          /\ kind' = [kind EXCEPT ![t] = "call"]
          /\ Goto(t, "check")
       \/ Goto(t, "closing") /\ UNCHANGED <<tries, kind>>
    /\ UNCHANGED <<now, switch, cache, limits, answer, untold, flips, faults>>

\* bug: the audit is not in the finally block.
CancelUntold(t) ==
    /\ pc[t] \in {"check", "select", "fill", "resolve", "post", "ready"}
    /\ Fault
    /\ Goto(t, "closing")
    /\ UNCHANGED <<now, switch, cache, limits, asking, tries, untold, flips>>

\* The hard timeout of the turn cancels it at its await. A request that is out
\* still leaves its row, in the finally block.
Cancel(t) ==
    /\ pc[t] \in {"check", "select", "fill", "resolve", "post", "ready"}
    /\ Fault
    /\ Goto(t, IF pc[t] = "post" THEN "cancelled" ELSE "closing")
    /\ UNCHANGED <<now, switch, cache, limits, asking, tries, untold, flips>>

\* The audit itself is what the timeout cancels: the row is lost.
CancelAudit(t) ==
    /\ pc[t] \in {"denied", "refused", "sent", "cancelled"}
    /\ Fault
    /\ Goto(t, "closing") /\ untold' = untold \ {t}
    /\ UNCHANGED <<now, switch, cache, limits, asking, tries, flips>>

CloseTurn(t) ==
    /\ pc[t] = "closing"
    /\ count' = [count EXCEPT ![t] = 0]
    /\ Goto(t, "closed")
    /\ kind' = [kind EXCEPT ![t] = "list"] /\ stamp' = [stamp EXCEPT ![t] = 0]
    /\ answer' = [answer EXCEPT ![t] = FALSE]
    /\ tries' = [tries EXCEPT ![t] = MaxCalls]
    /\ UNCHANGED <<now, switch, cache, window, untold, flips, faults>>

Step(t) ==
    OpenTurn(t) \/ Check(t) \/ Select(t) \/ Fill(t) \/ Resolve(t) \/ Post(t)
    \/ EmitAudit(t) \/ Continue(t) \/ CloseTurn(t)

Next ==
    \/ Tick \/ Flip
    \/ \E t \in Turns : Step(t) \/ Cancel(t) \/ CancelAudit(t)

Spec == Init /\ [][Next]_vars

-----------------------------------------------------------------------------
(* Properties *)

Passed(t) == kind[t] = "call" /\ pc[t] \in {"resolve", "post", "sent", "cancelled"}

\* The switch takes hold within the TTL (mcp_kill_switch.py: a window "bounded
\* by CACHE_TTL_SECONDS"): a call whose check began a TTL or more after the
\* switch was engaged does not pass, however long a SELECT takes, and whichever
\* of several concurrent ones fills the cache last.
SwitchTakesHold ==
    \A t \in Turns : Passed(t) /\ engaged => stamp[t] - engagedAt < TTL

\* Every attempt a guard refused and every request that was sent has left its
\* row when the call or the turn is over, also when the turn was cut off in the
\* middle of it, unless writing the row itself failed (_invoke_jsonrpc).
AttemptsAreAudited == \A t \in untold : pc[t] \notin {"ready", "closing", "closed"}
=============================================================================
