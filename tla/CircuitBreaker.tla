--------------------------- MODULE CircuitBreaker ---------------------------
(***************************************************************************)
(* infra/circuit_breaker.py with the callers of one breaker, those of an   *)
(* MCP connector (agents/agent_kenny/mcp_client.py).  The breaker's        *)
(* methods run under one asyncio.Lock and do not await inside it, so each  *)
(* is one step; between the acquire of a call and its record_* lies the    *)
(* HTTP request, during which other calls finish, the circuit changes      *)
(* state, or the task is cancelled by the hard timeout of its turn.        *)
(***************************************************************************)
EXTENDS Integers, FiniteSets

CONSTANTS
    Callers,          \* coroutines that call the dependency
    FailureThreshold, \* consecutive failures that open the circuit
    HalfOpenMaxProbes,
    Cooldown,         \* cooldown_s, in units of time
    CallTime          \* longest call: timeouts, retry and backoff included

ASSUME BreakerAssumption ==
    /\ FailureThreshold \in Nat \ {0} /\ HalfOpenMaxProbes \in Nat \ {0}
    /\ Cooldown \in Nat \ {0} /\ CallTime \in Nat \ {0}
    /\ IsFiniteSet(Callers)

VARIABLES
    state,       \* _state
    failures,    \* _consecutive_failures
    wait,        \* _opened_at + _cooldown_s - _clock(), 0 when it has passed
    probes,      \* _probes_in_flight
    left,        \* time a call in flight may still take
    calling,     \* calls in flight: admitted, nothing recorded yet
    sinceChange, \* those of them admitted since the state last changed
    up           \* whether the dependency answers

breaker == <<state, failures, wait, probes>>
calls == <<left, calling, sinceChange>>
breakerVars == <<state, failures, wait, probes, left, calling, sinceChange, up>>

BreakerTypeOK ==
    /\ state \in {"closed", "half_open", "open"}
    /\ failures \in 0..(FailureThreshold - 1)
    /\ wait \in 0..Cooldown
    /\ probes \in 0..HalfOpenMaxProbes
    /\ left \in [Callers -> 0..CallTime]
    /\ calling \subseteq Callers
    /\ sinceChange \subseteq calling
    /\ up \in BOOLEAN

BreakerInit ==
    /\ state = "closed" /\ failures = 0 /\ wait = 0 /\ probes = 0
    /\ left = [c \in Callers |-> 0]
    /\ calling = {} /\ sinceChange = {}
    /\ up = TRUE

-----------------------------------------------------------------------------
(* The methods of the breaker, as relations on its four fields *)

Decremented(n) == IF n > 0 THEN n - 1 ELSE 0

Open ==
    /\ state' = "open" /\ wait' = Cooldown /\ failures' = 0

RecordSuccess ==
    /\ state' = IF state = "half_open" THEN "closed" ELSE state
    /\ probes' = IF state = "half_open" THEN Decremented(probes) ELSE probes
    /\ failures' = 0
    /\ UNCHANGED wait

(* bug: the failure that reaches the threshold does not open the circuit. *)
TripsLate == failures >= FailureThreshold

Trips == failures + 1 >= FailureThreshold

(* bug: a failed probe gives its slot back and nothing else. *)
RecordFailureOfProbe ==
    \/ /\ state = "half_open"
       /\ probes' = Decremented(probes)
       /\ UNCHANGED <<state, failures, wait>>
    \/ /\ state = "open"
       /\ UNCHANGED breaker
    \/ /\ state = "closed"
       /\ IF Trips THEN Open ELSE failures' = failures + 1 /\ UNCHANGED <<state, wait>>
       /\ UNCHANGED probes

RecordFailure ==
    \/ /\ state = "half_open"
       /\ probes' = Decremented(probes)
       /\ Open
    \/ /\ state = "open"
       /\ UNCHANGED breaker
    \/ /\ state = "closed"
       /\ IF Trips THEN Open ELSE failures' = failures + 1 /\ UNCHANGED <<state, wait>>
       /\ UNCHANGED probes

-----------------------------------------------------------------------------
(* The callers *)

Admit(c) ==
    /\ calling' = calling \cup {c}
    /\ left' = [left EXCEPT ![c] = CallTime]

(* bug: the counter is not set anew when the circuit becomes half-open. *)
SlotsCarriedOver == probes

(* Slots taken once an open circuit has become half-open (line 141). *)
SlotsTaken == IF state = "open" THEN 0 ELSE probes

(* acquire: an open circuit whose cooldown is over becomes half-open and  *)
(* admits this caller; a refusal leaves no trace.                         *)
AcquireSlot(c) ==
    /\ c \notin calling
    /\ \/ /\ state = "closed"
          /\ sinceChange' = sinceChange \cup {c}
          /\ UNCHANGED breaker
       \/ /\ state = "half_open" \/ (state = "open" /\ wait = 0)
          /\ SlotsTaken < HalfOpenMaxProbes
          /\ state' = "half_open" /\ probes' = SlotsTaken + 1
          /\ sinceChange' = {c} \cup IF state = "open" THEN {} ELSE sinceChange
          /\ UNCHANGED <<failures, wait>>
    /\ Admit(c)
    /\ UNCHANGED up

Leave(c) ==
    /\ calling' = calling \ {c}
    /\ sinceChange' = IF state' = state THEN sinceChange \ {c} ELSE {}
    /\ left' = [left EXCEPT ![c] = 0]
    /\ UNCHANGED up

(* An answer: a 4xx or a malformed body proves the dependency is up. *)
Answer(c) ==
    /\ c \in calling /\ up
    /\ RecordSuccess
    /\ Leave(c)

(* A timeout, a connection error or a 5xx. *)
Fail(c) ==
    /\ c \in calling /\ ~up
    /\ RecordFailure
    /\ Leave(c)

(* bug: the MCP client's finally block does not record a cancelled call    *)
(* (what Voyage's client, which has none, does).                           *)
CancelUnrecorded(c) ==
    /\ c \in calling
    /\ UNCHANGED breaker
    /\ Leave(c)

(* The task is cancelled in the request.  The finally block sees no error  *)
(* kind and records a success.                                             *)
CancelCall(c) ==
    /\ c \in calling
    /\ RecordSuccess
    /\ Leave(c)

(* Time passes for the cooldown and for every call; no call outlasts its *)
(* timeouts.                                                             *)
Elapse ==
    /\ \A c \in calling : left[c] > 0
    /\ wait' = Decremented(wait)
    /\ left' = [c \in Callers |-> IF c \in calling THEN left[c] - 1 ELSE 0]
    /\ <<wait', left'>> # <<wait, left>>
    /\ UNCHANGED <<state, failures, probes, calling, sinceChange, up>>

(* The dependency goes down or comes back. *)
Outage ==
    /\ up' = ~up
    /\ UNCHANGED <<breaker, calls>>

BreakerNext ==
    \/ \E c \in Callers : AcquireSlot(c) \/ Answer(c) \/ Fail(c) \/ CancelCall(c)
    \/ Elapse
    \/ Outage

BreakerSpec == BreakerInit /\ [][BreakerNext]_breakerVars

(* The event loop runs: time passes, a call ends, and somebody keeps using *)
(* the dependency.                                                         *)
Fairness ==
    /\ WF_breakerVars(Elapse)
    /\ WF_breakerVars(\E c \in Callers : AcquireSlot(c))
    /\ \A c \in Callers : WF_breakerVars(Answer(c) \/ Fail(c))

BreakerFairSpec == BreakerSpec /\ Fairness

-----------------------------------------------------------------------------
(* Properties *)

(* The probe counter is the number of real calls admitted since the       *)
(* circuit became half-open, never more than the budget: whatever late    *)
(* answers of earlier calls did to the counter, it is set anew then and   *)
(* any record leaves the half-open state.                                 *)
ProbesAreCounted ==
    state = "half_open" => /\ probes = Cardinality(sinceChange)
                           /\ probes \in 1..HalfOpenMaxProbes

(* Recovery: once the dependency is up for good, the circuit ends closed. *)
Recovers == (<>[]up) => <>[](state = "closed")

(* Shedding: while the dependency stays down the circuit keeps opening,   *)
(* provided nobody's turn is cancelled any more (a cancellation counts as *)
(* a success).                                                            *)
Sheds == (<>[](~up) /\ <>[][\A c \in Callers : ~CancelCall(c)]_breakerVars) => []<>(state = "open")
=============================================================================
