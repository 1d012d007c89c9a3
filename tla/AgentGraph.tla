----------------------------- MODULE AgentGraph -----------------------------
(***************************************************************************)
(* One turn of Agent Kenny: the StateGraph of agents/agent_kenny/graph.py  *)
(* with the nodes of nodes/*.py as runtime.py wires them.  The model may   *)
(* ask for tools again and again, ask for more than the budget allows,     *)
(* cite what does not exist, or answer nothing; the counters carried in    *)
(* AgentState must end the turn all the same, with a well-formed history   *)
(* at every call of the LLM and a reply whose citations were checked.      *)
(*                                                                         *)
(* A tool call is "write" when approvals.py flags it and "read" otherwise. *)
(* The graph stops at a batch with a write until a human decides.          *)
(***************************************************************************)
EXTENDS Naturals, Sequences

CONSTANTS
    MaxToolCalls,  \* MAX_TOOL_CALLS_PER_TURN
    MaxRevisions,  \* MAX_REVISION_ATTEMPTS
    MaxBatch       \* bound: tool calls in one answer of the LLM

ASSUME CapsAssumption ==
    MaxToolCalls \in Nat \ {0} /\ MaxRevisions \in Nat /\ MaxBatch \in Nat \ {0}

VARIABLES
    node,       \* node about to run; "paused" at an interrupt
    steps,      \* supersteps of this invocation of the graph
    pending,    \* pending_tool_calls
    dangling,   \* tool_use blocks of the history without a tool_result
    made,       \* tool_calls_made
    executed,   \* calls that really ran
    skipped,    \* some call was answered unexecuted because of the cap
    exhausted,  \* tools_exhausted
    capFinal,   \* cap_final_call_made
    decision,   \* of the human, on the batch being dispatched
    evidence,   \* some tool result had rows
    text,       \* accumulated_text
    report,     \* citation_report, by the outcome that decides the route
    checked,    \* the report is about the text
    revisions   \* revision_attempts

budget == <<made, executed, skipped, exhausted, capFinal>>
reply == <<text, report, checked, revisions>>
vars == <<node, steps, pending, dangling, made, executed, skipped, exhausted,
          capFinal, decision, evidence, text, report, checked, revisions>>

Kinds == {"read", "write"}
Batches == UNION {[1..n -> Kinds] : n \in 1..MaxBatch}

(* The supersteps LangGraph allows before it raises. *)
GraphRecursionLimit == 8 + 2 * MaxToolCalls + 3 * (MaxRevisions + 1)

TypeOK ==
    /\ node \in {"retrieve", "llm_call", "dispatch_tools", "paused",
                 "extract_citations", "verify_citations", "revise",
                 "adversarial", "persist", "end"}
    /\ steps \in Nat /\ made \in Nat /\ executed \in Nat /\ dangling \in Nat
    /\ pending \in Seq(Kinds)
    /\ skipped \in BOOLEAN /\ exhausted \in BOOLEAN /\ capFinal \in BOOLEAN
    /\ decision \in {"none", "approved", "denied"}
    /\ evidence \in BOOLEAN /\ checked \in BOOLEAN
    /\ text \in {"none", "reply", "placeholder"}
    /\ report \in {"none", "clean", "empty", "not_found", "cross_engagement"}
    /\ revisions \in 0..MaxRevisions

Init ==
    /\ node = "retrieve" /\ steps = 0
    /\ pending = <<>> /\ dangling = 0
    /\ made = 0 /\ executed = 0 /\ skipped = FALSE
    /\ exhausted = FALSE /\ capFinal = FALSE
    /\ decision = "none" /\ evidence = FALSE
    /\ text = "none" /\ report = "none" /\ checked = FALSE /\ revisions = 0

-----------------------------------------------------------------------------
(* A definition whose comment starts with "bug:" is a plausible mistake the *)
(* properties are tested against; the specification uses none of them.      *)

(* A node ends its superstep. *)
Goto(n) == node' = n /\ steps' = steps + 1

Retrieve ==
    /\ node = "retrieve"
    /\ Goto("llm_call")
    /\ UNCHANGED <<pending, dangling, budget, decision, evidence, reply>>

(* bug: the final call does not end the loop. *)
LoopingRouter(p, n, ex, cf) ==
    CASE ex -> "llm_call"
      [] ~ex /\ n < MaxToolCalls /\ p # <<>> -> "dispatch_tools"
      [] OTHER -> "extract_citations"

(* has_tool_calls_router, on the pending calls, the calls made and the two *)
(* cap flags: one more call once the budget is gone, then the citations.   *)
HasToolCallsRouter(p, n, ex, cf) ==
    CASE ex /\ ~cf -> "llm_call"
      [] ~(ex /\ ~cf) /\ n < MaxToolCalls /\ p # <<>> -> "dispatch_tools"
      [] OTHER -> "extract_citations"

(* The LLM answers with text, maybe empty.  At the cap an empty answer is  *)
(* salvaged by enforce_tool_call_cap: the raw text of the answer, or else  *)
(* a placeholder.                                                          *)
AnswerText ==
    /\ node = "llm_call"
    /\ capFinal' = (capFinal \/ exhausted)
    /\ pending' = <<>>
    /\ text' \in {"reply", IF made < MaxToolCalls THEN "none" ELSE "placeholder"}
    /\ checked' = FALSE
    /\ Goto(HasToolCallsRouter(pending', made, exhausted, capFinal'))
    /\ UNCHANGED <<dangling, made, executed, skipped, exhausted, decision,
                   evidence, report, revisions>>

(* The LLM asks for tools under the cap. *)
AskTools(calls) ==
    /\ node = "llm_call" /\ ~exhausted /\ made < MaxToolCalls
    /\ pending' = calls /\ dangling' = Len(calls)
    /\ Goto(HasToolCallsRouter(calls, made, exhausted, capFinal))
    /\ UNCHANGED <<budget, decision, evidence, reply>>

(* bug: the turn ends on the placeholder instead of asking once more. *)
AskToolsAtCapThenGiveUp(calls) ==
    /\ node = "llm_call" /\ ~exhausted /\ made >= MaxToolCalls
    /\ pending' = <<>> /\ dangling' = 0 /\ skipped' = TRUE
    /\ text' = "placeholder" /\ checked' = FALSE
    /\ Goto("extract_citations")
    /\ UNCHANGED <<made, executed, exhausted, capFinal, decision, evidence,
                   report, revisions>>

(* The LLM asks for tools at the cap: enforce_tool_call_cap answers every *)
(* call unexecuted, drains them and asks for one final call.              *)
AskToolsAtCap(calls) ==
    /\ node = "llm_call" /\ ~exhausted /\ made >= MaxToolCalls
    /\ pending' = <<>> /\ dangling' = 0 /\ skipped' = TRUE
    /\ exhausted' = ~capFinal
    /\ Goto(HasToolCallsRouter(<<>>, made, exhausted', capFinal))
    /\ UNCHANGED <<made, executed, capFinal, decision, evidence, reply>>

-----------------------------------------------------------------------------
(* dispatch_tools *)

NeedsApproval == \E i \in DOMAIN pending : pending[i] = "write"

(* interrupt() ends this invocation of the graph before any call runs. *)
Interrupt ==
    /\ node = "dispatch_tools" /\ decision = "none" /\ NeedsApproval
    /\ node' = "paused"
    /\ UNCHANGED <<steps, pending, dangling, budget, decision, evidence, reply>>

(* Command(resume=...) runs the node again in a new invocation. *)
Resume(d) ==
    /\ node = "paused"
    /\ decision' = d
    /\ node' = "dispatch_tools" /\ steps' = 0
    /\ UNCHANGED <<pending, dangling, budget, evidence, reply>>

Dispatching == node = "dispatch_tools" /\ (decision # "none" \/ ~NeedsApproval)

(* The first pending call gets its tool_result. *)
AnswerCall ==
    /\ Dispatching /\ pending # <<>>
    /\ pending' = Tail(pending) /\ dangling' = dangling - 1

Denied == Head(pending) = "write" /\ decision = "denied"

(* bug: a denied call costs nothing. *)
DenyCallForFree ==
    /\ AnswerCall /\ Denied
    /\ UNCHANGED <<node, steps, budget, decision, evidence, reply>>

(* A denied write counts as a call, also beyond the cap. *)
DenyCall ==
    /\ AnswerCall /\ Denied
    /\ made' = made + 1
    /\ UNCHANGED <<node, steps, executed, skipped, exhausted, capFinal,
                   decision, evidence, reply>>

(* bug: the cap is tested before the batch only. *)
RunCallUncapped ==
    /\ AnswerCall /\ ~Denied
    /\ made' = made + 1 /\ executed' = executed + 1
    /\ evidence' \in {evidence, TRUE}
    /\ UNCHANGED <<node, steps, skipped, exhausted, capFinal, decision, reply>>

RunCall ==
    /\ AnswerCall /\ ~Denied /\ made < MaxToolCalls
    /\ made' = made + 1 /\ executed' = executed + 1
    /\ evidence' \in {evidence, TRUE}
    /\ UNCHANGED <<node, steps, skipped, exhausted, capFinal, decision, reply>>

(* bug: the calls that no longer fit are dropped without an answer. *)
DropCalls ==
    /\ Dispatching /\ pending # <<>> /\ ~Denied /\ made >= MaxToolCalls
    /\ pending' = <<>> /\ skipped' = TRUE
    /\ exhausted' = (exhausted \/ ~capFinal)
    /\ UNCHANGED <<node, steps, dangling, made, executed, capFinal, decision,
                   evidence, reply>>

(* The cap is reached in the middle of the batch: the call is answered *)
(* unexecuted and the next LLM call will be the final one.             *)
SkipCall ==
    /\ AnswerCall /\ ~Denied /\ made >= MaxToolCalls
    /\ skipped' = TRUE
    /\ exhausted' = (exhausted \/ ~capFinal)
    /\ UNCHANGED <<node, steps, made, executed, capFinal, decision, evidence, reply>>

DispatchEnds ==
    /\ Dispatching /\ pending = <<>>
    /\ decision' = "none"
    /\ Goto("llm_call")
    /\ UNCHANGED <<pending, dangling, budget, evidence, reply>>

-----------------------------------------------------------------------------
(* Citations *)

ExtractCitations ==
    /\ node = "extract_citations"
    /\ Goto("verify_citations")
    /\ UNCHANGED <<pending, dangling, budget, decision, evidence, reply>>

(* needs_zero_citation_revision; a reply that reads as a refusal needs none. *)
ZeroCitationRevision(rep, refusal) ==
    rep = "empty" /\ text = "reply" /\ evidence /\ ~refusal /\ revisions < MaxRevisions

(* bug: a citation that is not found is revised again and again. *)
UnverifiedRouterUncapped(rep, refusal) ==
    CASE rep = "cross_engagement" -> "persist"
      [] rep = "not_found" \/ ZeroCitationRevision(rep, refusal) -> "revise"
      [] OTHER -> "adversarial"

(* unverified_router *)
UnverifiedRouter(rep, refusal) ==
    CASE rep = "cross_engagement" -> "persist"
      [] (rep = "not_found" /\ revisions < MaxRevisions)
             \/ ZeroCitationRevision(rep, refusal) -> "revise"
      [] OTHER -> "adversarial"

VerifyCitations ==
    /\ node = "verify_citations"
    /\ report' \in IF text = "reply"
                   THEN {"clean", "empty", "not_found", "cross_engagement"}
                   ELSE {"empty"}
    /\ checked' = TRUE
    /\ \E refusal \in BOOLEAN : Goto(UnverifiedRouter(report', refusal))
    /\ UNCHANGED <<pending, dangling, budget, decision, evidence, text, revisions>>

(* bug: the rewritten reply goes straight to the reviewer. *)
AfterRevisionUnchecked == "adversarial"

AfterRevision == "extract_citations"

(* revise_if_unverified wipes the draft and calls the LLM once more; tools *)
(* it asks for are answered unexecuted, and then there is no text.         *)
Revise ==
    /\ node = "revise"
    /\ revisions' = revisions + 1
    /\ capFinal' = (capFinal \/ exhausted)
    /\ text' \in {"none", "reply"} /\ checked' = FALSE
    /\ pending' = <<>> /\ dangling' = 0
    /\ Goto(AfterRevision)
    /\ UNCHANGED <<made, executed, skipped, exhausted, decision, evidence, report>>

AdversarialReview ==
    /\ node = "adversarial"
    /\ Goto("persist")
    /\ UNCHANGED <<pending, dangling, budget, decision, evidence, reply>>

Persist ==
    /\ node = "persist"
    /\ Goto("end")
    /\ UNCHANGED <<pending, dangling, budget, decision, evidence, reply>>

-----------------------------------------------------------------------------
CallLlm == AnswerText \/ \E calls \in Batches : AskTools(calls) \/ AskToolsAtCap(calls)
Dispatch == Interrupt \/ DenyCall \/ RunCall \/ SkipCall \/ DispatchEnds
Decide == \E d \in {"approved", "denied"} : Resume(d)

Run ==
    \/ Retrieve \/ CallLlm \/ Dispatch \/ ExtractCitations
    \/ VerifyCitations \/ Revise \/ AdversarialReview \/ Persist

Next == Run \/ Decide

Spec == Init /\ [][Next]_vars

(* The graph runs on while it is not paused: the LLM calls and the tools *)
(* have timeouts.  Nothing makes the human decide.                       *)
FairSpec == Spec /\ WF_vars(Run)

-----------------------------------------------------------------------------
(* Properties *)

(* Whenever the LLM is called, every tool_use block of the history has its *)
(* tool_result: the API refuses the request otherwise.  Calls are answered *)
(* by five different pieces of code (run, deny, cap in the batch, cap      *)
(* after the call, revision).                                              *)
HistoryIsWellFormed ==
    node \in {"llm_call", "revise", "end"} => dangling = 0

(* The recursion limit is a backstop: no turn is ever cut by it, whatever  *)
(* the LLM and the human do.                                               *)
NeverCutOff == steps <= GraphRecursionLimit

(* The budget bounds the calls that run, batches larger than what is left *)
(* of it and denied calls in between included.                            *)
CapIsRespected == executed <= MaxToolCalls

(* A turn that had calls refused by the cap gets its final call: it does *)
(* not end on the placeholder before that.                               *)
CapGetsAnAnswer == node = "end" /\ skipped => capFinal

(* The reply that is reviewed, stored and shown is the one whose citations *)
(* were looked up in the database.                                         *)
ReplyIsChecked == node \in {"adversarial", "persist", "end"} => checked

(* Every turn ends unless the human leaves it waiting, also with a model *)
(* that never stops asking for tools the human denies.                   *)
TurnEnds == <>(node = "end") \/ <>[](node = "paused")
=============================================================================
