-------------------------- MODULE AgentGraphProofs --------------------------
(***************************************************************************)
(* Safety of a turn for every tool budget, revision budget and batch size. *)
(*                                                                         *)
(* The recursion limit is the hard one.  Denied calls may push the counter *)
(* of calls far beyond the budget, so the steps are bounded by the calls   *)
(* only as long as there is budget (StepsInv): a batch is dispatched while *)
(* a call is left, and its first call is run or denied, hence counted;     *)
(* from then on the loop has paid for its two steps.                       *)
(***************************************************************************)
EXTENDS AgentGraph, SequenceTheorems, TLAPS

(* The history lacks exactly the answers to the calls that are pending. *)
PendingInv ==
    /\ dangling = Len(pending)
    /\ node \notin {"dispatch_tools", "paused"} => pending = <<>>
    /\ node = "paused" => pending # <<>>

(* The flags of the cap: the final call is what ends an exhausted loop. *)
CapInv ==
    /\ executed <= made /\ executed <= MaxToolCalls
    /\ skipped => exhausted
    /\ node \in {"retrieve", "llm_call", "dispatch_tools", "paused"} => ~capFinal
    /\ node \notin {"retrieve", "llm_call", "dispatch_tools", "paused"} /\ exhausted => capFinal
    /\ node = "retrieve" => ~exhausted

(* The supersteps taken when a node is about to run. *)
StepsInv ==
    /\ node = "retrieve" => steps = 0
    /\ node = "llm_call" =>
          IF exhausted THEN steps <= 2 * MaxToolCalls + 2
          ELSE steps <= 2 * made + 1 /\ steps <= 2 * MaxToolCalls + 1
    /\ node \in {"dispatch_tools", "paused"} =>
          /\ steps <= 2 * MaxToolCalls
          /\ \/ steps <= 2 * made
             \/ steps <= 2 * made + 2 /\ made < MaxToolCalls /\ pending # <<>>
    /\ node = "extract_citations" => steps <= 2 * MaxToolCalls + 3 + 3 * revisions
    /\ node = "verify_citations" => steps <= 2 * MaxToolCalls + 4 + 3 * revisions
    /\ node = "revise" => steps <= 2 * MaxToolCalls + 5 + 3 * revisions /\ revisions < MaxRevisions
    /\ node = "adversarial" => steps <= 2 * MaxToolCalls + 5 + 3 * revisions
    /\ node = "persist" => steps <= 2 * MaxToolCalls + 6 + 3 * revisions
    /\ node = "end" => steps <= 2 * MaxToolCalls + 7 + 3 * revisions

IInv == TypeOK /\ PendingInv /\ CapInv /\ StepsInv /\ ReplyIsChecked

-----------------------------------------------------------------------------
(* The calls of one answer are a non-empty sequence. *)
LEMMA BatchIsSeq == ASSUME NEW calls \in Batches
                    PROVE  calls \in Seq(Kinds) /\ calls # <<>>
<1>1. PICK n \in 1..MaxBatch : calls \in [1..n -> Kinds]
  BY DEF Batches
<1>2. n \in Nat /\ n >= 1
  BY CapsAssumption
<1>3. calls \in Seq(Kinds) /\ Len(calls) = n
  BY <1>1, <1>2
<1> QED
  BY <1>2, <1>3

(* What answering the first pending call leaves. *)
LEMMA Answered == ASSUME TypeOK, PendingInv, AnswerCall
                  PROVE  /\ pending' \in Seq(Kinds) /\ dangling' \in Nat
                         /\ dangling' = Len(pending')
                         /\ pending # <<>> /\ node = "dispatch_tools"
<1>1. pending \in Seq(Kinds) /\ pending # <<>> /\ pending' = Tail(pending)
      /\ dangling' = dangling - 1 /\ dangling = Len(pending) /\ node = "dispatch_tools"
  BY DEF AnswerCall, Dispatching, TypeOK, PendingInv
<1>2. Tail(pending) \in Seq(Kinds) /\ Len(Tail(pending)) = Len(pending) - 1
  BY <1>1, HeadTailProperties
<1>3. Len(Tail(pending)) \in Nat
  BY <1>2, LenProperties
<1> QED
  BY <1>1, <1>2, <1>3

LEMMA InitInv == Init => IInv
<1> SUFFICES ASSUME Init PROVE IInv
  OBVIOUS
<1>1. pending \in Seq(Kinds) /\ Len(pending) = 0
  BY EmptySeq DEF Init
<1>2. /\ node = "retrieve" /\ steps = 0 /\ dangling = 0 /\ made = 0 /\ executed = 0
      /\ ~skipped /\ ~exhausted /\ ~capFinal /\ ~checked /\ ~evidence
      /\ {skipped, exhausted, capFinal, evidence, checked} \subseteq BOOLEAN
      /\ decision = "none" /\ text = "none" /\ report = "none" /\ revisions = 0
  BY DEF Init
<1>3. TypeOK
  BY <1>1, <1>2, CapsAssumption DEF TypeOK
<1>4. PendingInv
  BY <1>1, <1>2 DEF Init, PendingInv
<1> QED
  BY <1>2, <1>3, <1>4, CapsAssumption DEF IInv, CapInv, StepsInv, ReplyIsChecked

-----------------------------------------------------------------------------
(* One lemma per node. *)
LEMMA AnswerTextStep == IInv /\ AnswerText => IInv'
<1> SUFFICES ASSUME IInv, AnswerText PROVE IInv'
  OBVIOUS
<1> USE CapsAssumption DEF IInv, AnswerText, Goto
<1>1. node' = "extract_citations"
  BY DEF HasToolCallsRouter, TypeOK
<1>2. TypeOK'
  <2>1. pending' \in Seq(Kinds)
    BY EmptySeq
  <2>2. steps' \in Nat /\ checked' = FALSE
    BY DEF TypeOK
  <2>3. text' \in {"none", "reply", "placeholder"}
    OBVIOUS
  <2>4. capFinal' \in BOOLEAN
    BY DEF TypeOK
  <2>5. UNCHANGED <<dangling, made, executed, skipped, exhausted, decision,
                    evidence, report, revisions>>
    OBVIOUS
  <2> HIDE DEF AnswerText, Goto
  <2> QED
    BY <1>1, <2>1, <2>2, <2>3, <2>4, <2>5 DEF TypeOK
<1>3. PendingInv'
  BY <1>1 DEF PendingInv
<1>4. CapInv'
  BY <1>1 DEF CapInv, TypeOK
<1>5. StepsInv'
  BY <1>1 DEF StepsInv, TypeOK
<1> QED
  BY <1>1, <1>2, <1>3, <1>4, <1>5 DEF ReplyIsChecked

LEMMA AskToolsStep == ASSUME IInv, NEW calls \in Batches, AskTools(calls) PROVE IInv'
<1> USE CapsAssumption DEF IInv, AskTools, Goto
<1>1. calls \in Seq(Kinds) /\ calls # <<>> /\ Len(calls) \in Nat
  BY BatchIsSeq, LenProperties
<1>2. node' = "dispatch_tools"
  BY <1>1 DEF HasToolCallsRouter, TypeOK
<1>3. TypeOK'
  BY <1>1, <1>2 DEF TypeOK, budget, reply
<1>4. PendingInv'
  BY <1>2 DEF PendingInv
<1>5. CapInv'
  BY <1>2 DEF CapInv, TypeOK, budget
<1>6. StepsInv'
  BY <1>1, <1>2 DEF StepsInv, TypeOK, budget
<1> QED
  BY <1>2, <1>3, <1>4, <1>5, <1>6 DEF ReplyIsChecked

LEMMA AskToolsAtCapStep == ASSUME IInv, NEW calls \in Batches, AskToolsAtCap(calls) PROVE IInv'
<1> USE CapsAssumption DEF IInv, AskToolsAtCap, Goto
<1>1. node' = "llm_call" /\ exhausted' = TRUE /\ ~capFinal
  BY DEF HasToolCallsRouter, TypeOK, CapInv
<1>2. TypeOK'
  BY <1>1 DEF TypeOK, reply
<1>3. PendingInv'
  BY <1>1 DEF PendingInv
<1>4. CapInv'
  BY <1>1 DEF CapInv, TypeOK
<1>5. StepsInv'
  BY <1>1 DEF StepsInv, TypeOK
<1> QED
  BY <1>1, <1>2, <1>3, <1>4, <1>5 DEF ReplyIsChecked

(* The calls of a batch: run, denied or skipped. *)
LEMMA CallStep == ASSUME IInv, DenyCall \/ RunCall \/ SkipCall PROVE IInv'
<1> USE CapsAssumption DEF IInv
<1>1. AnswerCall
  BY DEF DenyCall, RunCall, SkipCall
<1>2. /\ pending' \in Seq(Kinds) /\ dangling' \in Nat /\ dangling' = Len(pending')
      /\ pending # <<>> /\ node = "dispatch_tools"
  BY <1>1, Answered
<1>3. /\ node' = node /\ steps' = steps /\ capFinal' = capFinal
      /\ decision' = decision /\ reply' = reply
  BY DEF DenyCall, RunCall, SkipCall
<1>4. \/ /\ made' = made + 1 /\ skipped' = skipped /\ exhausted' = exhausted
         /\ \/ executed' = executed
            \/ executed' = executed + 1 /\ made < MaxToolCalls
      \/ /\ made' = made /\ made >= MaxToolCalls /\ executed' = executed
         /\ skipped' = TRUE /\ exhausted' = (exhausted \/ ~capFinal)
  BY DEF DenyCall, RunCall, SkipCall
<1>5. evidence' \in BOOLEAN /\ skipped' \in BOOLEAN /\ exhausted' \in BOOLEAN
  BY DEF DenyCall, RunCall, SkipCall, TypeOK, AnswerCall
<1>6. TypeOK'
  BY <1>2, <1>3, <1>4, <1>5 DEF TypeOK, reply
<1>7. PendingInv'
  BY <1>2, <1>3 DEF PendingInv
<1>8. CapInv'
  <2>1. executed' <= made' /\ executed' <= MaxToolCalls
    BY <1>4 DEF CapInv, TypeOK
  <2>2. skipped' => exhausted'
    BY <1>2, <1>4 DEF CapInv
  <2> QED
    BY <1>2, <1>3, <2>1, <2>2 DEF CapInv
<1>9. StepsInv'
  BY <1>2, <1>3, <1>4 DEF StepsInv, TypeOK
<1> QED
  BY <1>2, <1>3, <1>6, <1>7, <1>8, <1>9 DEF ReplyIsChecked

LEMMA DispatchStep == IInv /\ Dispatch => IInv'
<1> SUFFICES ASSUME IInv, Dispatch PROVE IInv'
  OBVIOUS
<1>1. CASE Interrupt
  <2>1. node' = "paused" /\ pending # <<>> /\ node = "dispatch_tools"
    BY <1>1 DEF Interrupt, NeedsApproval
  <2> QED
    BY <1>1, <2>1 DEF Interrupt, IInv, TypeOK, PendingInv, CapInv, StepsInv, ReplyIsChecked, budget, reply
<1>2. CASE DenyCall \/ RunCall \/ SkipCall
  BY <1>2, CallStep
<1>3. CASE DispatchEnds
  <2>1. node' = "llm_call" /\ node = "dispatch_tools" /\ pending = <<>> /\ steps' = steps + 1
    BY <1>3 DEF DispatchEnds, Dispatching, Goto
  <2>2. StepsInv'
    BY <1>3, <2>1, CapsAssumption DEF DispatchEnds, IInv, TypeOK, StepsInv, budget
  <2> QED
    BY <1>3, <2>1, <2>2 DEF DispatchEnds, IInv, TypeOK, PendingInv, CapInv, ReplyIsChecked, budget, reply
<1> QED
  BY <1>1, <1>2, <1>3 DEF Dispatch

LEMMA ResumeStep == ASSUME IInv, NEW d \in {"approved", "denied"}, Resume(d) PROVE IInv'
<1> USE CapsAssumption DEF IInv, Resume
<1>1. StepsInv'
  BY DEF StepsInv, TypeOK, budget
<1> QED
  BY <1>1 DEF TypeOK, PendingInv, CapInv, ReplyIsChecked, budget, reply

LEMMA VerifyStep == IInv /\ VerifyCitations => IInv'
<1> SUFFICES ASSUME IInv, VerifyCitations PROVE IInv'
  OBVIOUS
<1> USE CapsAssumption DEF IInv, VerifyCitations
<1>1. /\ node = "verify_citations" /\ checked' = TRUE
      /\ report' \in {"clean", "empty", "not_found", "cross_engagement"}
      /\ UNCHANGED <<pending, dangling, budget, decision, evidence, text, revisions>>
  BY DEF TypeOK
<1>2. /\ steps' = steps + 1
      /\ node' \in {"persist", "adversarial"} \/ (node' = "revise" /\ revisions < MaxRevisions)
  BY DEF Goto, UnverifiedRouter, ZeroCitationRevision
<1>3. TypeOK'
  BY <1>1, <1>2 DEF TypeOK, budget
<1>4. PendingInv' /\ CapInv'
  BY <1>1, <1>2 DEF PendingInv, CapInv, budget
<1>5. StepsInv'
  BY <1>1, <1>2 DEF StepsInv, TypeOK
<1> QED
  BY <1>1, <1>3, <1>4, <1>5 DEF ReplyIsChecked

LEMMA ReviseStep == IInv /\ Revise => IInv'
<1> SUFFICES ASSUME IInv, Revise PROVE IInv'
  OBVIOUS
<1> USE CapsAssumption DEF IInv, Revise, Goto, AfterRevision
<1>1. TypeOK'
  <2>1. pending' \in Seq(Kinds)
    BY EmptySeq
  <2>2. capFinal' \in BOOLEAN
    BY DEF TypeOK
  <2>3. revisions' \in 0..MaxRevisions /\ steps' \in Nat /\ dangling' \in Nat
    BY DEF TypeOK, StepsInv
  <2>4. /\ node' = "extract_citations" /\ checked' = FALSE /\ text' \in {"none", "reply"}
        /\ UNCHANGED <<made, executed, skipped, exhausted, decision, evidence, report>>
    OBVIOUS
  <2> HIDE DEF Revise, Goto
  <2> QED
    BY <2>1, <2>2, <2>3, <2>4 DEF TypeOK
<1>2. PendingInv'
  BY DEF PendingInv
<1>3. CapInv'
  BY DEF CapInv, TypeOK
<1>4. StepsInv'
  BY DEF StepsInv, TypeOK
<1> QED
  BY <1>1, <1>2, <1>3, <1>4 DEF ReplyIsChecked

(* The nodes that only pass on. *)
LEMMA PlainStep == IInv /\ (Retrieve \/ ExtractCitations \/ AdversarialReview \/ Persist) => IInv'
<1> SUFFICES ASSUME IInv, Retrieve \/ ExtractCitations \/ AdversarialReview \/ Persist
             PROVE  IInv'
  OBVIOUS
<1> USE CapsAssumption DEF IInv, Retrieve, ExtractCitations, AdversarialReview, Persist, Goto
<1>1. /\ steps' = steps + 1
      /\ UNCHANGED <<pending, dangling, budget, decision, evidence, reply>>
      /\ \/ node = "retrieve" /\ node' = "llm_call"
         \/ node = "extract_citations" /\ node' = "verify_citations"
         \/ node = "adversarial" /\ node' = "persist"
         \/ node = "persist" /\ node' = "end"
  OBVIOUS
<1>2. TypeOK'
  BY <1>1 DEF TypeOK, budget, reply
<1>3. PendingInv'
  BY <1>1 DEF PendingInv
<1>4. CapInv'
  BY <1>1 DEF CapInv, budget
<1>5. StepsInv'
  BY <1>1 DEF StepsInv, TypeOK, budget, reply
<1>6. ReplyIsChecked'
  BY <1>1 DEF ReplyIsChecked, reply
<1> QED
  BY <1>2, <1>3, <1>4, <1>5, <1>6

-----------------------------------------------------------------------------
(* Every step keeps the invariant: one case per node. *)
LEMMA NextInv == IInv /\ [Next]_vars => IInv'
<1> SUFFICES ASSUME IInv, [Next]_vars PROVE IInv'
  OBVIOUS
<1>1. CASE CallLlm
  BY <1>1, AnswerTextStep, AskToolsStep, AskToolsAtCapStep DEF CallLlm
<1>2. CASE Decide
  BY <1>2, ResumeStep DEF Decide
<1>3. CASE UNCHANGED vars
  BY <1>3 DEF vars, IInv, TypeOK, PendingInv, CapInv, StepsInv, ReplyIsChecked
<1> QED
  BY <1>1, <1>2, <1>3, DispatchStep, VerifyStep, ReviseStep, PlainStep DEF Next, Run

(* The inductive invariant holds in every reachable state. *)
LEMMA Invariance == Spec => []IInv
  BY InitInv, NextInv, PTL DEF Spec

(* Every variable keeps its type; no turn revises its reply more often than *)
(* MAX_REVISION_ATTEMPTS allows.                                            *)
THEOREM TypeCorrect == Spec => []TypeOK
<1>1. IInv => TypeOK
  BY DEF IInv
<1> QED
  BY <1>1, Invariance, PTL

(* The five places that answer tool calls leave none without its result *)
(* when the LLM is called.                                               *)
THEOREM WellFormedHistory == Spec => []HistoryIsWellFormed
<1>1. IInv => HistoryIsWellFormed
  BY DEF IInv, PendingInv, HistoryIsWellFormed
<1> QED
  BY <1>1, Invariance, PTL

(* GRAPH_RECURSION_LIMIT is never reached, whatever the two budgets are. *)
THEOREM LimitIsABackstop == Spec => []NeverCutOff
<1>1. ASSUME IInv PROVE NeverCutOff
  <2>1. node = "end" \/ node = "persist" \/ node = "adversarial" \/ node = "revise"
          \/ node = "verify_citations" \/ node = "extract_citations"
        => steps <= 2 * MaxToolCalls + 7 + 3 * MaxRevisions
    BY <1>1, CapsAssumption DEF IInv, TypeOK, StepsInv
  <2>2. node \in {"retrieve", "llm_call", "dispatch_tools", "paused"}
        => steps <= 2 * MaxToolCalls + 2
    BY <1>1, CapsAssumption DEF IInv, TypeOK, StepsInv
  <2>3. GraphRecursionLimit = 2 * MaxToolCalls + 3 * MaxRevisions + 11
    BY CapsAssumption DEF GraphRecursionLimit
  <2> QED
    BY <1>1, <2>1, <2>2, <2>3, CapsAssumption DEF IInv, TypeOK, NeverCutOff
<1> QED
  BY <1>1, Invariance, PTL

(* No more calls run than MAX_TOOL_CALLS_PER_TURN allows. *)
THEOREM CapHolds == Spec => []CapIsRespected
<1>1. IInv => CapIsRespected
  BY DEF IInv, CapInv, CapIsRespected
<1> QED
  BY <1>1, Invariance, PTL

(* A turn with calls refused by the cap has had its final call. *)
THEOREM CapIsAnswered == Spec => []CapGetsAnAnswer
<1>1. IInv => CapGetsAnAnswer
  BY DEF IInv, CapInv, CapGetsAnAnswer
<1> QED
  BY <1>1, Invariance, PTL

(* No reply is reviewed or stored before its citations were looked up. *)
THEOREM CheckedReply == Spec => []ReplyIsChecked
<1>1. IInv => ReplyIsChecked
  BY DEF IInv
<1> QED
  BY <1>1, Invariance, PTL
=============================================================================
