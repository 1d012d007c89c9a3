--------------------------- MODULE AgentApprovals ---------------------------
(***************************************************************************)
(* One conversation of Agent Kenny under the LangGraph runtime: chat       *)
(* requests charge the tenant's daily budget and run the turn graph, a     *)
(* batch of tool calls that writes pauses the turn, a human decides on the *)
(* approval card, and the decision resumes the thread                      *)
(* (agents/agent_kenny/runtime.py, service.py, intelligence/budget.py,     *)
(* api/routes/oracle_internal.py).                                         *)
(*                                                                         *)
(* Two stores take part. The graph's checkpoints go through a pool in      *)
(* autocommit mode and are visible at once; the budget, the ledger rows    *)
(* and the turn belong to the request's session, which commits before the  *)
(* frame that tells the client, and rolls back on errors and timeouts. An  *)
(* external call has its effect the moment it is made.                     *)
(***************************************************************************)
EXTENDS Naturals

CONSTANTS
    Chats,      \* chat requests on the conversation
    Resumes,    \* decisions posted on an approval card
    Cap,        \* turns the tenant's daily budget pays for
    MaxBatches, \* bound: approval batches the model proposes in a behaviour
    Nobody      \* no request

Requests == Chats \cup Resumes
Batches == 1..MaxBatches
NoBatch == 0

ASSUME RequestsAssumption == Chats \cap Resumes = {} /\ Nobody \notin Requests
ASSUME BoundsAssumption == Cap \in Nat /\ MaxBatches \in Nat

VARIABLES
    used,       \* committed tokens_used of the day, in turns
    budgetLock, \* request whose transaction locks the budget row
    thread,     \* latest checkpoint of the thread
    ledger,     \* committed ledger rows of approvals
    turns,      \* requests whose turn rows are committed
    draft,      \* uncommitted writes of a request
    pc,         \* where every request is
    card,       \* the batch on the card a resume answers
    approved,   \* what it says
    hand,       \* the batch a request paused on or resumed
    trailing,   \* chats whose last checkpoint is still to be written
    effects,    \* external calls made: the batch, the request that made them
    cards,      \* batches of the approval cards shown
    dones,      \* requests that were answered with a finished turn
    proposed    \* batches proposed so far

session == <<used, budgetLock, ledger, turns, draft>>
vars == <<used, budgetLock, thread, ledger, turns, draft, pc, card, approved,
          hand, trailing, effects, cards, dones, proposed>>

NoDraft == [charge |-> 0, rows |-> {}, turn |-> FALSE]
Row(k, b, r) == [kind |-> k, batch |-> b, by |-> r]
Rows == [kind : {"requested", "granted", "denied"}, batch : Batches, by : Requests]
Checkpoint(at, b) == [at |-> at, batch |-> b]

TypeOK ==
    /\ used \in Nat /\ budgetLock \in Chats \cup {Nobody}
    /\ thread \in [at : {"empty", "running", "paused", "ended"},
                   batch : Batches \cup {NoBatch}]
    /\ ledger \subseteq Rows /\ turns \subseteq Requests
    /\ draft \in [Requests -> [charge : 0..1, rows : SUBSET Rows, turn : BOOLEAN]]
    /\ pc \in [Requests -> {"idle", "charge", "start", "run", "interrupted",
                   "invoke", "dispatch", "persisted", "commitCard", "commitDone",
                   "showCard", "showDone", "done", "failed"}]
    /\ card \in [Resumes -> Batches \cup {NoBatch}]
    /\ approved \in [Resumes -> BOOLEAN]
    /\ hand \in [Requests -> Batches \cup {NoBatch}]
    /\ trailing \subseteq Chats
    /\ effects \subseteq [batch : Batches, by : Requests]
    /\ cards \subseteq Batches /\ dones \subseteq Requests
    /\ proposed \in 0..MaxBatches

Init ==
    /\ used = 0 /\ budgetLock = Nobody
    /\ thread = Checkpoint("empty", NoBatch)
    /\ ledger = {} /\ turns = {}
    /\ draft = [r \in Requests |-> NoDraft]
    /\ pc = [r \in Requests |-> "idle"]
    /\ card = [r \in Resumes |-> NoBatch]
    /\ approved = [r \in Resumes |-> FALSE]
    /\ hand = [r \in Requests |-> NoBatch]
    /\ trailing = {} /\ effects = {} /\ cards = {} /\ dones = {}
    /\ proposed = 0

-----------------------------------------------------------------------------
(* The request's session *)

Goto(r, l) == pc' = [pc EXCEPT ![r] = l]

Unlock(r) == budgetLock' = IF budgetLock = r THEN Nobody ELSE budgetLock

Rollback(r) ==
    /\ Unlock(r)
    /\ draft' = [draft EXCEPT ![r] = NoDraft]
    /\ UNCHANGED <<used, ledger, turns>>

Commit(r) ==
    /\ Unlock(r)
    /\ used' = used + draft[r].charge
    /\ ledger' = ledger \cup draft[r].rows
    /\ turns' = turns \cup (IF draft[r].turn THEN {r} ELSE {})
    /\ draft' = [draft EXCEPT ![r] = NoDraft]

\* emit_ledger_event adds a row to the session and flushes it.
EmitRow(r, row) ==
    /\ draft' = [draft EXCEPT ![r].rows = @ \cup {row}]
    /\ UNCHANGED <<used, budgetLock, ledger, turns>>

-----------------------------------------------------------------------------
(* A chat, until its graph starts *)

\* bug: the row is read without FOR UPDATE.
CheckBudgetUnlocked(c) ==
    /\ pc[c] = "idle"
    /\ Goto(c, IF used + 1 <= Cap THEN "charge" ELSE "failed")
    /\ UNCHANGED <<used, budgetLock, thread, ledger, turns, draft, card,
                   approved, hand, trailing, effects, cards, dones, proposed>>

\* The SELECT ... FOR UPDATE of the budget row waits for its holder. A turn
\* that does not fit is refused with 429 after a rollback.
CheckBudget(c) ==
    /\ pc[c] = "idle"
    /\ budgetLock = Nobody
    /\ \/ used + 1 <= Cap /\ budgetLock' = c /\ Goto(c, "charge")
       \/ used + 1 > Cap /\ Goto(c, "failed") /\ UNCHANGED budgetLock
    /\ UNCHANGED <<used, thread, ledger, turns, draft, card, approved, hand,
                   trailing, effects, cards, dones, proposed>>

\* The UPDATE adds the estimate to the row, which it locks if need be.
ChargeTurn(c) ==
    /\ pc[c] = "charge"
    /\ budgetLock \in {c, Nobody}
    /\ budgetLock' = c
    /\ draft' = [draft EXCEPT ![c].charge = 1]
    /\ Goto(c, "start")
    /\ UNCHANGED <<used, thread, ledger, turns, card, approved, hand, trailing,
                   effects, cards, dones, proposed>>

\* The new input overwrites the thread, a paused run included.
StartTurn(c) ==
    /\ pc[c] = "start"
    /\ thread' = Checkpoint("running", NoBatch)
    /\ Goto(c, "run")
    /\ UNCHANGED <<session, card, approved, hand, trailing, effects, cards,
                   dones, proposed>>

-----------------------------------------------------------------------------
(* The turn graph, for chats and resumes alike *)

\* A node ends and its checkpoint is written.
Superstep(r) ==
    /\ pc[r] = "run"
    /\ thread' = Checkpoint("running", NoBatch)
    /\ UNCHANGED <<session, pc, card, approved, hand, trailing, effects, cards,
                   dones, proposed>>

\* dispatch_tools meets a batch with a write and interrupts the run.
Interrupt(r) ==
    /\ pc[r] = "run" /\ proposed < MaxBatches
    /\ proposed' = proposed + 1
    /\ thread' = Checkpoint("paused", proposed + 1)
    /\ hand' = [hand EXCEPT ![r] = proposed + 1]
    /\ Goto(r, "interrupted")
    /\ UNCHANGED <<session, card, approved, trailing, effects, cards, dones>>

\* _handle_interrupts: the ledger row, then the approval frame.
HandleInterrupt(r) ==
    /\ pc[r] = "interrupted"
    /\ EmitRow(r, Row("requested", hand[r], r))
    /\ Goto(r, "commitCard")
    /\ UNCHANGED <<thread, card, approved, hand, trailing, effects, cards,
                   dones, proposed>>

\* bug: a resume, too, is answered before its last checkpoint.
PersistEarly(r) ==
    /\ pc[r] = "run"
    /\ draft' = [draft EXCEPT ![r].turn = TRUE]
    /\ trailing' = trailing \cup {r}
    /\ Goto(r, "commitDone")
    /\ UNCHANGED <<used, budgetLock, thread, ledger, turns, card, approved,
                   hand, effects, cards, dones, proposed>>

\* The persist node stores the turn and emits the done frame, which the route
\* of a chat handles while the graph still writes its last checkpoint. A
\* resume returns only after that checkpoint.
Persist(r) ==
    /\ pc[r] = "run"
    /\ draft' = [draft EXCEPT ![r].turn = TRUE]
    /\ IF r \in Chats
       THEN trailing' = trailing \cup {r} /\ Goto(r, "commitDone")
       ELSE Goto(r, "persisted") /\ UNCHANGED trailing
    /\ UNCHANGED <<used, budgetLock, thread, ledger, turns, card, approved,
                   hand, effects, cards, dones, proposed>>

LastCheckpoint(r) ==
    /\ \/ r \in trailing /\ trailing' = trailing \ {r} /\ UNCHANGED pc
       \/ pc[r] = "persisted" /\ Goto(r, "commitDone") /\ UNCHANGED trailing
    /\ thread' = Checkpoint("ended", NoBatch)
    /\ UNCHANGED <<session, card, approved, hand, effects, cards, dones,
                   proposed>>

-----------------------------------------------------------------------------
(* A decision on an approval card *)

\* A reviewer answers a card, which carries the thread id only; aget_state
\* finds the thread paused, or the approval is not pending (404).
Decide(r) ==
    /\ pc[r] = "idle"
    /\ \E b \in cards, yes \in BOOLEAN :
          /\ card' = [card EXCEPT ![r] = b]
          /\ approved' = [approved EXCEPT ![r] = yes]
    /\ Goto(r, IF thread.at = "paused" THEN "invoke" ELSE "failed")
    /\ UNCHANGED <<session, thread, hand, trailing, effects, cards, dones,
                   proposed>>

\* ainvoke(Command(resume=...)) loads the latest checkpoint again. On a paused
\* thread the interrupted node runs again and ledgers the decision; on one
\* that moved on, the run goes on from where it is; on one that ended there is
\* nothing to run, no done chunk, and the route rolls back.
Invoke(r) ==
    /\ pc[r] = "invoke"
    /\ \/ /\ thread.at = "paused"
          /\ hand' = [hand EXCEPT ![r] = thread.batch]
          /\ EmitRow(r, Row(IF approved[r] THEN "granted" ELSE "denied",
                            thread.batch, r))
          /\ Goto(r, "dispatch")
       \/ thread.at = "running" /\ Goto(r, "run") /\ UNCHANGED <<session, hand>>
       \/ thread.at = "ended" /\ Goto(r, "failed") /\ Rollback(r) /\ UNCHANGED hand
    /\ UNCHANGED <<thread, card, approved, trailing, effects, cards, dones,
                   proposed>>

\* bug: the batch is dispatched whatever the decision.
DispatchAnyway(r) ==
    /\ pc[r] = "dispatch"
    /\ effects' = effects \cup {[batch |-> hand[r], by |-> r]}
    /\ Goto(r, "run")
    /\ UNCHANGED <<session, thread, card, approved, hand, trailing, cards,
                   dones, proposed>>

\* The approved batch is executed, a denied one answered with denials. The
\* thread stays paused until the node's own checkpoint (Superstep).
Dispatch(r) ==
    /\ pc[r] = "dispatch"
    /\ effects' = effects \cup
          (IF approved[r] THEN {[batch |-> hand[r], by |-> r]} ELSE {})
    /\ Goto(r, "run")
    /\ UNCHANGED <<session, thread, card, approved, hand, trailing, cards,
                   dones, proposed>>

-----------------------------------------------------------------------------
(* How a request ends *)

\* bug: the frame is sent to the client before the session commits.
CommitAfterFrame(r) ==
    \/ /\ pc[r] = "commitCard" /\ cards' = cards \cup {hand[r]}
       /\ Goto(r, "showCard")
       /\ UNCHANGED <<session, thread, card, approved, hand, trailing, effects,
                      dones, proposed>>
    \/ /\ pc[r] = "commitDone" /\ Commit(r) /\ Goto(r, "showDone")
       /\ UNCHANGED <<thread, card, approved, hand, trailing, effects, cards,
                      dones, proposed>>

CommitTurn(r) ==
    /\ \/ pc[r] = "commitCard" /\ Goto(r, "showCard")
       \/ pc[r] = "commitDone" /\ Goto(r, "showDone")
    /\ Commit(r)
    /\ UNCHANGED <<thread, card, approved, hand, trailing, effects, cards,
                   dones, proposed>>

\* The client sees the approval card, or the finished reply.
Answer(r) ==
    /\ \/ pc[r] = "showCard" /\ cards' = cards \cup {hand[r]} /\ UNCHANGED dones
       \/ pc[r] = "showDone" /\ dones' = dones \cup {r} /\ UNCHANGED cards
    /\ Goto(r, "done")
    /\ UNCHANGED <<session, thread, card, approved, hand, trailing, effects,
                   proposed>>

\* The hard timeout of a turn, an exception in it, a failed commit, a client
\* that disconnects or a process that dies: the session is rolled back.
Abort(r) ==
    /\ pc[r] \notin {"idle", "done", "failed"}
    /\ Goto(r, "failed")
    /\ trailing' = trailing \ {r}
    /\ Rollback(r)
    /\ UNCHANGED <<thread, card, approved, hand, effects, cards, dones, proposed>>

Graph(r) ==
    Superstep(r) \/ Interrupt(r) \/ HandleInterrupt(r) \/ Persist(r)
    \/ LastCheckpoint(r)
Chat(c) == CheckBudget(c) \/ ChargeTurn(c) \/ StartTurn(c)
Resume(r) == Decide(r) \/ Invoke(r) \/ Dispatch(r)
Finish(r) == CommitTurn(r) \/ Answer(r)

\* All requests have ended: nothing is left to do.
AllEnded ==
    /\ \A c \in Chats : pc[c] \in {"done", "failed"}
    /\ \A r \in Resumes : pc[r] \in {"done", "failed"} \/ (pc[r] = "idle" /\ cards = {})
    /\ trailing = {}
    /\ UNCHANGED vars

Next ==
    \/ \E r \in Requests : Graph(r) \/ Finish(r) \/ Abort(r)
    \/ \E c \in Chats : Chat(c)
    \/ \E r \in Resumes : Resume(r)
    \/ AllEnded

Spec == Init /\ [][Next]_vars

-----------------------------------------------------------------------------
(* Properties *)

\* The day's committed charges never pass the cap, however many chats of the
\* tenant check the budget at once (check_and_charge).
BudgetHeld == used <= Cap

\* What a client has been shown is committed: an approval card has its
\* agent_approval_requested row, a finished reply its turn, even when the
\* process dies right after the frame (the commits in _frames).
FramesAreCommitted ==
    /\ \A b \in cards : \E r \in Requests : Row("requested", b, r) \in ledger
    /\ dones \subseteq turns

\* A write of the agent is answered for by a human: a resume that ended well
\* after making external calls left the granted row of that very batch, and a
\* resume that committed a denial of a batch made none for it.
EffectsAreAccountedFor ==
    \A e \in effects :
       /\ pc[e.by] = "done" => Row("granted", e.batch, e.by) \in ledger
       /\ Row("denied", e.batch, e.by) \notin ledger

\* What the reviewer approved is what runs (approvals.py: args_summary lists
\* every flagged call "so the reviewer sees the full set they are approving").
ApprovedAsShown == \A e \in effects : e.batch = card[e.by]
=============================================================================
