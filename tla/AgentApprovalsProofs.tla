------------------------ MODULE AgentApprovalsProofs ------------------------
(***************************************************************************)
(* Safety of a conversation for every set of chats and decisions, every    *)
(* budget and every number of batches.                                     *)
(*                                                                         *)
(* Three arguments, each an invariant of its own.  The budget: only the    *)
(* holder of the budget row has a charge in its session, and it took the   *)
(* row while the charge fitted (BudgetInv).  The frames: what a request is *)
(* about to show is in its session before the commit and in the database   *)
(* after it (FramesInv).  The effects: a resume that has made an external  *)
(* call carries the granted row of that batch to its commit, and a         *)
(* decision is made once (EffectsInv).                                     *)
(***************************************************************************)
EXTENDS AgentApprovals, TLAPS

(* A thread is paused on a batch, and so is a request that interrupted or  *)
(* resumed it.                                                             *)
PausedInv ==
    /\ thread.at = "paused" => thread.batch \in Batches
    /\ \A r \in Requests : pc[r] \in {"interrupted", "dispatch", "commitCard", "showCard"}
                           => hand[r] \in Batches

(* The holder of the budget row found room for one more turn.              *)
BudgetInv ==
    /\ used <= Cap
    /\ budgetLock # Nobody => used + 1 <= Cap
    /\ \A c \in Chats : pc[c] = "charge" => budgetLock = c
    /\ \A r \in Requests : draft[r].charge = 1 => budgetLock = r

(* What a request is about to show is in its session, then in the database. *)
FramesInv ==
    /\ \A r \in Requests :
          /\ pc[r] = "commitCard" => Row("requested", hand[r], r) \in draft[r].rows
          /\ pc[r] = "showCard" => Row("requested", hand[r], r) \in ledger
          /\ pc[r] \in {"persisted", "commitDone"} => draft[r].turn
          /\ pc[r] = "showDone" => r \in turns
    /\ FramesAreCommitted

(* Rows are written by their request, whose decision stands by then. *)
DecisionsInv ==
    /\ \A r \in Requests : \A row \in draft[r].rows : row.by = r
    /\ \A r \in Resumes :
          /\ pc[r] = "idle" => draft[r].rows = {} /\ \A row \in ledger : row.by # r
          /\ \A row \in ledger \cup draft[r].rows :
                row.by = r /\ row.kind = "denied" => ~approved[r]

(* An approved batch has its granted row before it is executed; the session *)
(* keeps that row until the request commits or fails.                       *)
EffectsInv ==
    /\ \A r \in Resumes : pc[r] = "dispatch" /\ approved[r]
                          => Row("granted", hand[r], r) \in draft[r].rows
    /\ \A e \in effects :
          /\ e.by \in Resumes /\ approved[e.by]
          /\ pc[e.by] \notin {"idle", "invoke", "dispatch"}
          /\ pc[e.by] \in {"showCard", "showDone", "done"}
                => Row("granted", e.batch, e.by) \in ledger
          /\ pc[e.by] \notin {"showCard", "showDone", "done", "failed"}
                => Row("granted", e.batch, e.by) \in draft[e.by].rows

-----------------------------------------------------------------------------
LEMMA InitInv == Init => /\ TypeOK /\ PausedInv /\ BudgetInv
                         /\ FramesInv /\ DecisionsInv /\ EffectsInv
  BY RequestsAssumption, BoundsAssumption
     DEF Init, TypeOK, PausedInv, BudgetInv, FramesInv, FramesAreCommitted,
         DecisionsInv, EffectsInv, Requests, Batches, NoBatch, NoDraft, Checkpoint

(* The types of all variables are kept by every action. *)
LEMMA TypeStep ==
  ASSUME TypeOK, PausedInv, [Next]_vars
  PROVE  (TypeOK /\ PausedInv)'
<1> USE RequestsAssumption, BoundsAssumption DEF TypeOK, PausedInv, Requests, Batches, NoBatch, Rows
<1>1. ASSUME NEW c \in Chats, CheckBudget(c) PROVE (TypeOK /\ PausedInv)'
  BY <1>1 DEF CheckBudget, Goto
<1>2. ASSUME NEW c \in Chats, ChargeTurn(c) PROVE (TypeOK /\ PausedInv)'
  BY <1>2 DEF ChargeTurn, Goto
<1>3. ASSUME NEW c \in Chats, StartTurn(c) PROVE (TypeOK /\ PausedInv)'
  BY <1>3 DEF StartTurn, Goto, session, Checkpoint
<1>4. ASSUME NEW r \in Requests, Superstep(r) PROVE (TypeOK /\ PausedInv)'
  BY <1>4 DEF Superstep, Goto, session, Checkpoint
<1>5. ASSUME NEW r \in Requests, Interrupt(r) PROVE (TypeOK /\ PausedInv)'
  BY <1>5 DEF Interrupt, Goto, session, Checkpoint
<1>6. ASSUME NEW r \in Requests, HandleInterrupt(r) PROVE (TypeOK /\ PausedInv)'
  BY <1>6 DEF HandleInterrupt, Goto, EmitRow, Row
<1>7. ASSUME NEW r \in Requests, Persist(r) PROVE (TypeOK /\ PausedInv)'
  <2>1. draft' \in [Requests -> [charge : 0..1, rows : SUBSET Rows, turn : BOOLEAN]]
    <3>1. draft[r] \in [charge : 0..1, rows : SUBSET Rows, turn : BOOLEAN]
      OBVIOUS
    <3>2. [draft[r] EXCEPT !.turn = TRUE] \in [charge : 0..1, rows : SUBSET Rows, turn : BOOLEAN]
      BY <3>1
    <3> QED
      BY <1>7, <3>2 DEF Persist
  <2>2. pc' \in [Requests -> {"idle", "charge", "start", "run", "interrupted",
                   "invoke", "dispatch", "persisted", "commitCard", "commitDone",
                   "showCard", "showDone", "done", "failed"}] /\ trailing' \subseteq Chats
    BY <1>7 DEF Persist, Goto
  <2> QED
    BY <1>7, <2>1, <2>2 DEF Persist, Goto
<1>8. ASSUME NEW r \in Requests, LastCheckpoint(r) PROVE (TypeOK /\ PausedInv)'
  BY <1>8 DEF LastCheckpoint, Goto, session, Checkpoint
<1>9. ASSUME NEW r \in Resumes, Decide(r) PROVE (TypeOK /\ PausedInv)'
  BY <1>9 DEF Decide, Goto, session
<1>10. ASSUME NEW r \in Resumes, Invoke(r) PROVE (TypeOK /\ PausedInv)'
  <2>1. CASE /\ thread.at = "paused"
             /\ hand' = [hand EXCEPT ![r] = thread.batch]
             /\ EmitRow(r, Row(IF approved[r] THEN "granted" ELSE "denied", thread.batch, r))
             /\ Goto(r, "dispatch")
    <3>2. CASE approved[r]
      BY <1>10, <2>1, <3>2, SMTT(30) DEF Invoke, Goto, EmitRow, Row
    <3>3. CASE ~approved[r]
      BY <1>10, <2>1, <3>3, SMTT(30) DEF Invoke, Goto, EmitRow, Row
    <3> QED
      BY <3>2, <3>3
  <2>2. CASE thread.at = "running" /\ Goto(r, "run") /\ UNCHANGED <<session, hand>>
    BY <1>10, <2>2 DEF Invoke, Goto, session
  <2>3. CASE thread.at = "ended" /\ Goto(r, "failed") /\ Rollback(r) /\ UNCHANGED hand
    BY <1>10, <2>3 DEF Invoke, Goto, Rollback, Unlock, NoDraft
  <2> QED
    BY <1>10, <2>1, <2>2, <2>3 DEF Invoke
<1>11. ASSUME NEW r \in Resumes, Dispatch(r) PROVE (TypeOK /\ PausedInv)'
  BY <1>11 DEF Dispatch, Goto, session
<1>12. ASSUME NEW r \in Requests, CommitTurn(r) PROVE (TypeOK /\ PausedInv)'
  BY <1>12 DEF CommitTurn, Goto, Commit, Unlock, NoDraft
<1>13. ASSUME NEW r \in Requests, Answer(r) PROVE (TypeOK /\ PausedInv)'
  BY <1>13 DEF Answer, Goto, session
<1>14. ASSUME NEW r \in Requests, Abort(r) PROVE (TypeOK /\ PausedInv)'
  BY <1>14 DEF Abort, Goto, Rollback, Unlock, NoDraft
<1>15. CASE AllEnded \/ UNCHANGED vars
  BY <1>15 DEF AllEnded, vars
<1> QED
  BY <1>1, <1>2, <1>3, <1>4, <1>5, <1>6, <1>7, <1>8, <1>9, <1>10, <1>11, <1>12, <1>13, <1>14, <1>15
     DEF Next, Graph, Chat, Resume, Finish

(* Only the holder of the row adds to it, and only what it found room for. *)
LEMMA BudgetStep ==
  ASSUME TypeOK, BudgetInv, [Next]_vars
  PROVE  BudgetInv'
<1> USE RequestsAssumption, BoundsAssumption DEF TypeOK, BudgetInv, Requests
<1>1. ASSUME NEW c \in Chats, CheckBudget(c) PROVE BudgetInv'
  BY <1>1 DEF CheckBudget, Goto
<1>2. ASSUME NEW c \in Chats, ChargeTurn(c) PROVE BudgetInv'
  BY <1>2 DEF ChargeTurn, Goto
<1>3. ASSUME NEW c \in Chats, StartTurn(c) PROVE BudgetInv'
  BY <1>3 DEF StartTurn, Goto, session, Checkpoint
<1>4. ASSUME NEW r \in Requests, Superstep(r) PROVE BudgetInv'
  BY <1>4 DEF Superstep, Goto, session, Checkpoint
<1>5. ASSUME NEW r \in Requests, Interrupt(r) PROVE BudgetInv'
  BY <1>5 DEF Interrupt, Goto, session, Checkpoint
<1>6. ASSUME NEW r \in Requests, HandleInterrupt(r) PROVE BudgetInv'
  BY <1>6 DEF HandleInterrupt, Goto, EmitRow, Row
<1>7. ASSUME NEW r \in Requests, Persist(r) PROVE BudgetInv'
  BY <1>7 DEF Persist, Goto
<1>8. ASSUME NEW r \in Requests, LastCheckpoint(r) PROVE BudgetInv'
  BY <1>8 DEF LastCheckpoint, Goto, session, Checkpoint
<1>9. ASSUME NEW r \in Resumes, Decide(r) PROVE BudgetInv'
  BY <1>9 DEF Decide, Goto, session
<1>10. ASSUME NEW r \in Resumes, Invoke(r) PROVE BudgetInv'
  BY <1>10 DEF Invoke, Goto, session, EmitRow, Row, Rollback, Unlock, NoDraft
<1>11. ASSUME NEW r \in Resumes, Dispatch(r) PROVE BudgetInv'
  BY <1>11 DEF Dispatch, Goto, session
<1>12. ASSUME NEW r \in Requests, CommitTurn(r) PROVE BudgetInv'
  BY <1>12 DEF CommitTurn, Goto, Commit, Unlock, NoDraft
<1>13. ASSUME NEW r \in Requests, Answer(r) PROVE BudgetInv'
  BY <1>13 DEF Answer, Goto, session
<1>14. ASSUME NEW r \in Requests, Abort(r) PROVE BudgetInv'
  BY <1>14 DEF Abort, Goto, Rollback, Unlock, NoDraft
<1>15. CASE AllEnded \/ UNCHANGED vars
  BY <1>15 DEF AllEnded, vars
<1> QED
  BY <1>1, <1>2, <1>3, <1>4, <1>5, <1>6, <1>7, <1>8, <1>9, <1>10, <1>11, <1>12, <1>13, <1>14, <1>15
     DEF Next, Graph, Chat, Resume, Finish

(* The commit comes between the session's rows and the frame. *)
LEMMA FramesStep ==
  ASSUME TypeOK, FramesInv, [Next]_vars
  PROVE  FramesInv'
<1> USE RequestsAssumption, BoundsAssumption DEF TypeOK, FramesInv, FramesAreCommitted, Requests
<1>1. ASSUME NEW c \in Chats, CheckBudget(c) PROVE FramesInv'
  BY <1>1 DEF CheckBudget, Goto
<1>2. ASSUME NEW c \in Chats, ChargeTurn(c) PROVE FramesInv'
  BY <1>2 DEF ChargeTurn, Goto
<1>3. ASSUME NEW c \in Chats, StartTurn(c) PROVE FramesInv'
  BY <1>3 DEF StartTurn, Goto, session, Checkpoint
<1>4. ASSUME NEW r \in Requests, Superstep(r) PROVE FramesInv'
  BY <1>4 DEF Superstep, Goto, session, Checkpoint
<1>5. ASSUME NEW r \in Requests, Interrupt(r) PROVE FramesInv'
  BY <1>5 DEF Interrupt, Goto, session, Checkpoint
<1>6. ASSUME NEW r \in Requests, HandleInterrupt(r) PROVE FramesInv'
  BY <1>6, ZenonT(30) DEF HandleInterrupt, Goto, EmitRow, Row
<1>7. ASSUME NEW r \in Requests, Persist(r) PROVE FramesInv'
  BY <1>7 DEF Persist, Goto
<1>8. ASSUME NEW r \in Requests, LastCheckpoint(r) PROVE FramesInv'
  BY <1>8 DEF LastCheckpoint, Goto, session, Checkpoint
<1>9. ASSUME NEW r \in Resumes, Decide(r) PROVE FramesInv'
  BY <1>9 DEF Decide, Goto, session
<1>10. ASSUME NEW r \in Resumes, Invoke(r) PROVE FramesInv'
  <2>1. CASE /\ thread.at = "paused"
             /\ hand' = [hand EXCEPT ![r] = thread.batch]
             /\ EmitRow(r, Row(IF approved[r] THEN "granted" ELSE "denied", thread.batch, r))
             /\ Goto(r, "dispatch")
    <3>2. CASE approved[r]
      BY <1>10, <2>1, <3>2 DEF Invoke, Goto, EmitRow, Row
    <3>3. CASE ~approved[r]
      BY <1>10, <2>1, <3>3 DEF Invoke, Goto, EmitRow, Row
    <3> QED
      BY <3>2, <3>3
  <2>2. CASE thread.at = "running" /\ Goto(r, "run") /\ UNCHANGED <<session, hand>>
    BY <1>10, <2>2 DEF Invoke, Goto, session
  <2>3. CASE thread.at = "ended" /\ Goto(r, "failed") /\ Rollback(r) /\ UNCHANGED hand
    BY <1>10, <2>3 DEF Invoke, Goto, Rollback, Unlock, NoDraft
  <2> QED
    BY <1>10, <2>1, <2>2, <2>3 DEF Invoke
<1>11. ASSUME NEW r \in Resumes, Dispatch(r) PROVE FramesInv'
  BY <1>11 DEF Dispatch, Goto, session
<1>12. ASSUME NEW r \in Requests, CommitTurn(r) PROVE FramesInv'
  BY <1>12 DEF CommitTurn, Goto, Commit, Unlock, NoDraft
<1>13. ASSUME NEW r \in Requests, Answer(r) PROVE FramesInv'
  BY <1>13 DEF Answer, Goto, session
<1>14. ASSUME NEW r \in Requests, Abort(r) PROVE FramesInv'
  BY <1>14 DEF Abort, Goto, Rollback, Unlock, NoDraft
<1>15. CASE AllEnded \/ UNCHANGED vars
  BY <1>15 DEF AllEnded, vars
<1> QED
  BY <1>1, <1>2, <1>3, <1>4, <1>5, <1>6, <1>7, <1>8, <1>9, <1>10, <1>11, <1>12, <1>13, <1>14, <1>15
     DEF Next, Graph, Chat, Resume, Finish

(* A request writes rows of its own decision, which it made when it began. *)
LEMMA DecisionsStep ==
  ASSUME TypeOK, DecisionsInv, [Next]_vars
  PROVE  DecisionsInv'
<1> USE RequestsAssumption, BoundsAssumption DEF TypeOK, DecisionsInv, Requests
<1>1. ASSUME NEW c \in Chats, CheckBudget(c) PROVE DecisionsInv'
  BY <1>1 DEF CheckBudget, Goto
<1>2. ASSUME NEW c \in Chats, ChargeTurn(c) PROVE DecisionsInv'
  BY <1>2 DEF ChargeTurn, Goto
<1>3. ASSUME NEW c \in Chats, StartTurn(c) PROVE DecisionsInv'
  BY <1>3 DEF StartTurn, Goto, session, Checkpoint
<1>4. ASSUME NEW r \in Requests, Superstep(r) PROVE DecisionsInv'
  BY <1>4 DEF Superstep, Goto, session, Checkpoint
<1>5. ASSUME NEW r \in Requests, Interrupt(r) PROVE DecisionsInv'
  BY <1>5 DEF Interrupt, Goto, session, Checkpoint
<1>6. ASSUME NEW r \in Requests, HandleInterrupt(r) PROVE DecisionsInv'
  BY <1>6 DEF HandleInterrupt, Goto, EmitRow, Row
<1>7. ASSUME NEW r \in Requests, Persist(r) PROVE DecisionsInv'
  BY <1>7 DEF Persist, Goto
<1>8. ASSUME NEW r \in Requests, LastCheckpoint(r) PROVE DecisionsInv'
  BY <1>8 DEF LastCheckpoint, Goto, session, Checkpoint
<1>9. ASSUME NEW r \in Resumes, Decide(r) PROVE DecisionsInv'
  BY <1>9 DEF Decide, Goto, session
<1>10. ASSUME NEW r \in Resumes, Invoke(r) PROVE DecisionsInv'
  BY <1>10 DEF Invoke, Goto, session, EmitRow, Row, Rollback, Unlock, NoDraft
<1>11. ASSUME NEW r \in Resumes, Dispatch(r) PROVE DecisionsInv'
  BY <1>11 DEF Dispatch, Goto, session
<1>12. ASSUME NEW r \in Requests, CommitTurn(r) PROVE DecisionsInv'
  BY <1>12 DEF CommitTurn, Goto, Commit, Unlock, NoDraft
<1>13. ASSUME NEW r \in Requests, Answer(r) PROVE DecisionsInv'
  BY <1>13 DEF Answer, Goto, session
<1>14. ASSUME NEW r \in Requests, Abort(r) PROVE DecisionsInv'
  BY <1>14 DEF Abort, Goto, Rollback, Unlock, NoDraft
<1>15. CASE AllEnded \/ UNCHANGED vars
  BY <1>15 DEF AllEnded, vars
<1> QED
  BY <1>1, <1>2, <1>3, <1>4, <1>5, <1>6, <1>7, <1>8, <1>9, <1>10, <1>11, <1>12, <1>13, <1>14, <1>15
     DEF Next, Graph, Chat, Resume, Finish

(* The granted row travels with the request that executes the batch. *)
LEMMA EffectsStep ==
  ASSUME TypeOK, EffectsInv, [Next]_vars
  PROVE  EffectsInv'
<1> USE RequestsAssumption, BoundsAssumption DEF TypeOK, EffectsInv, Requests
<1>1. ASSUME NEW c \in Chats, CheckBudget(c) PROVE EffectsInv'
  BY <1>1 DEF CheckBudget, Goto
<1>2. ASSUME NEW c \in Chats, ChargeTurn(c) PROVE EffectsInv'
  BY <1>2 DEF ChargeTurn, Goto
<1>3. ASSUME NEW c \in Chats, StartTurn(c) PROVE EffectsInv'
  BY <1>3 DEF StartTurn, Goto, session, Checkpoint
<1>4. ASSUME NEW r \in Requests, Superstep(r) PROVE EffectsInv'
  BY <1>4 DEF Superstep, Goto, session, Checkpoint
<1>5. ASSUME NEW r \in Requests, Interrupt(r) PROVE EffectsInv'
  BY <1>5 DEF Interrupt, Goto, session, Checkpoint
<1>6. ASSUME NEW r \in Requests, HandleInterrupt(r) PROVE EffectsInv'
  BY <1>6 DEF HandleInterrupt, Goto, EmitRow, Row
<1>7. ASSUME NEW r \in Requests, Persist(r) PROVE EffectsInv'
  BY <1>7 DEF Persist, Goto
<1>8. ASSUME NEW r \in Requests, LastCheckpoint(r) PROVE EffectsInv'
  BY <1>8 DEF LastCheckpoint, Goto, session, Checkpoint
<1>9. ASSUME NEW r \in Resumes, Decide(r) PROVE EffectsInv'
  BY <1>9 DEF Decide, Goto, session
<1>10. ASSUME NEW r \in Resumes, Invoke(r) PROVE EffectsInv'
  <2>1. pc[r] = "invoke" /\ UNCHANGED <<effects, approved, ledger>>
        /\ \A q \in Requests \ {r} : pc'[q] = pc[q] /\ draft'[q] = draft[q] /\ hand'[q] = hand[q]
    <3>1. Rollback(r) \/ (\E row : EmitRow(r, row)) \/ UNCHANGED session
      BY <1>10 DEF Invoke
    <3>2. \A q \in Requests \ {r} : pc'[q] = pc[q] /\ hand'[q] = hand[q]
      BY <1>10 DEF Invoke, Goto
    <3> QED
      BY <1>10, <3>1, <3>2 DEF Invoke, session, EmitRow, Rollback
  <2>2. \A e \in effects : e.by # r
    BY <2>1
  <2>3. pc'[r] = "dispatch" /\ approved[r] => Row("granted", hand'[r], r) \in draft'[r].rows
    BY <1>10 DEF Invoke, Goto, session, EmitRow
  <2> QED
    BY <2>1, <2>2, <2>3
<1>11. ASSUME NEW r \in Resumes, Dispatch(r) PROVE EffectsInv'
  BY <1>11 DEF Dispatch, Goto, session
<1>12. ASSUME NEW r \in Requests, CommitTurn(r) PROVE EffectsInv'
  BY <1>12 DEF CommitTurn, Goto, Commit, Unlock, NoDraft
<1>13. ASSUME NEW r \in Requests, Answer(r) PROVE EffectsInv'
  BY <1>13 DEF Answer, Goto, session
<1>14. ASSUME NEW r \in Requests, Abort(r) PROVE EffectsInv'
  BY <1>14 DEF Abort, Goto, Rollback, Unlock, NoDraft
<1>15. CASE AllEnded \/ UNCHANGED vars
  BY <1>15 DEF AllEnded, vars
<1> QED
  BY <1>1, <1>2, <1>3, <1>4, <1>5, <1>6, <1>7, <1>8, <1>9, <1>10, <1>11, <1>12, <1>13, <1>14, <1>15
     DEF Next, Graph, Chat, Resume, Finish


-----------------------------------------------------------------------------
LEMMA TypeInvariance == Spec => [](TypeOK /\ PausedInv)
  BY InitInv, TypeStep, PTL DEF Spec

(* Every variable keeps its type: requests pause on batches that were      *)
(* proposed, sessions hold well-formed rows.                               *)
THEOREM TypeCorrect == Spec => []TypeOK
  BY TypeInvariance, PTL

(* check_and_charge never lets the day's committed charges pass the cap.   *)
THEOREM BudgetIsHeld == Spec => []BudgetHeld
<1>1. BudgetInv => BudgetHeld
  BY DEF BudgetInv, BudgetHeld
<1> QED
  BY <1>1, InitInv, BudgetStep, TypeCorrect, PTL DEF Spec

(* A frame the client has seen is backed by committed rows.                *)
THEOREM FramesFollowCommits == Spec => []FramesAreCommitted
<1>1. FramesInv => FramesAreCommitted
  BY DEF FramesInv
<1> QED
  BY <1>1, InitInv, FramesStep, TypeCorrect, PTL DEF Spec

(* An executed batch has its granted row, a denied one was not executed.   *)
THEOREM EffectsHaveTheirRows == Spec => []EffectsAreAccountedFor
<1>1. TypeOK /\ DecisionsInv /\ EffectsInv => EffectsAreAccountedFor
  <2> SUFFICES ASSUME TypeOK, DecisionsInv, EffectsInv, NEW e \in effects
               PROVE  /\ pc[e.by] = "done" => Row("granted", e.batch, e.by) \in ledger
                      /\ Row("denied", e.batch, e.by) \notin ledger
    BY DEF EffectsAreAccountedFor
  <2>1. e.by \in Resumes /\ approved[e.by]
    BY DEF EffectsInv
  <2>2. \A row \in ledger : row.by = e.by => row.kind # "denied"
    BY <2>1 DEF DecisionsInv
  <2> QED
    BY <2>1, <2>2 DEF EffectsInv, Row
<1> QED
  BY <1>1, InitInv, DecisionsStep, EffectsStep, TypeCorrect, PTL DEF Spec
=============================================================================
