------------------------ MODULE SynthesisQueueProofs ------------------------
(***************************************************************************)
(* Safety of the synthesis queue for every set of jobs, targets and        *)
(* drains, every budget and any number of days, edits and faults.          *)
(*                                                                         *)
(* Nothing locks a job between the drain's read and its run, or an insight *)
(* between the SELECT and the INSERT.  What keeps two drains apart is the  *)
(* budget row: a drain that got past the charge holds the row of the day   *)
(* it charged until its transaction ends (BudgetInv), so two drains that   *)
(* hold a text at the same time have charged different days.               *)
(***************************************************************************)
EXTENDS SynthesisQueue, WellFoundedInduction, TLAPS

Places == {"idle", "next", "look", "charge", "llm", "select",
           "insert", "update", "brief", "commit", "broken"}

(* A drain that runs a job has it in hand. *)
HandInv ==
    \A w \in Drains : pc[w] \notin {"idle", "next", "broken"} => hand[w] \in Jobs

(* Whoever charged a day holds its budget row, with room for the charge.   *)
BudgetInv ==
    \A w \in Drains :
       /\ payday[w] # 0 => /\ budgetLock[payday[w]] = w
                           /\ used[payday[w]] < Cap
       /\ pc[w] \in {"llm", "select", "insert", "update", "brief"} => payday[w] # 0

(* Edits counted in a node, or read from it, have been made.               *)
EditsInv ==
    /\ \A t \in Targets : attrs[t].edit + edits <= MaxEdits
    /\ \A w \in Drains : seen[w].edit + edits <= MaxEdits

(* A transaction that will settle its job as done has written its text.    *)
WrittenInv ==
    \A w \in Drains : outcome[w] = "done" =>
       /\ pc[w] = "commit" /\ payday[w] # 0
       /\ outLock[Target(w)] = w

-----------------------------------------------------------------------------
(* Min picks a member: a non-empty set of job ids has a least one. *)
LEMMA MinIn ==
  ASSUME NEW S, S \subseteq Jobs, S # {}
  PROVE  Min(S) \in S
<1>1. PICK i \in S : \A j \in S : ~(<<j, i>> \in OpToRel(<, Nat))
  BY JobsAssumption, NatLessThanWellFounded, WFMin
<1>2. ASSUME NEW j \in S PROVE i <= j
  <2>1. ~(j < i)
    <3> SUFFICES ASSUME j < i PROVE <<j, i>> \in OpToRel(<, Nat)
      BY <1>1
    <3> QED
      BY JobsAssumption DEF OpToRel
  <2> QED
    BY <2>1, JobsAssumption
<1> QED
  BY <1>2 DEF Min

(* The target of the job at work is one the jobs are about. *)
LEMMA TargetIn ==
  ASSUME TypeOK, HandInv, NEW w \in Drains, pc[w] \notin {"idle", "next", "broken"}
  PROVE  Target(w) \in Targets
  BY JobsAssumption DEF TypeOK, HandInv, Target

LEMMA InitInv == Init => /\ TypeOK /\ HandInv /\ BudgetInv /\ EditsInv /\ WrittenInv
                         /\ InsertCollidesOnlyAcrossMidnight /\ JobsAreSettledWhole
  BY JobsAssumption, BoundsAssumption
     DEF Init, TypeOK, HandInv, BudgetInv, EditsInv, WrittenInv, Days, Attributes,
         Blank, Settled, Pending, InsertCollidesOnlyAcrossMidnight, JobsAreSettledWhole

(* The types are kept: a commit adds to a day that has room. *)
LEMMA TypeStep ==
  ASSUME TypeOK, HandInv, BudgetInv, EditsInv, [Next]_vars
  PROVE  TypeOK'
<1> USE JobsAssumption, BoundsAssumption DEF TypeOK, HandInv, Days, Attributes, Settled, Pending, Target
<1>1. ASSUME NEW w \in Drains, ReadJobs(w) PROVE TypeOK'
  BY <1>1 DEF ReadJobs, Goto, db, locks, tx, PendingJobs, Oldest
<1>2. ASSUME NEW w \in Drains, StartJob(w) PROVE TypeOK'
  <2>1. Min(todo[w]) \in Jobs
    BY <1>2, MinIn DEF StartJob
  <2> QED
    BY <1>2, <2>1 DEF StartJob, Goto, db
<1>3. ASSUME NEW w \in Drains, EndCall(w) PROVE TypeOK'
  BY <1>3 DEF EndCall, Goto, db, locks, tx
<1>4. ASSUME NEW w \in Drains, ReadTarget(w) PROVE TypeOK'
  <2>1. attrs[Target(w)] \in [edit : 0..MaxEdits, brief : BOOLEAN]
    BY <1>4, TargetIn DEF ReadTarget
  <2>2. seen' \in [Drains -> [edit : 0..MaxEdits, brief : BOOLEAN]]
    BY <1>4, <2>1 DEF ReadTarget
  <2>3. pc' \in [Drains -> Places]
    BY <1>4 DEF ReadTarget, Goto, Places
  <2> QED
    BY <1>4, <2>2, <2>3 DEF ReadTarget, db, locks, Places
<1>5. ASSUME NEW w \in Drains, Charge(w) PROVE TypeOK'
  <2>1. payday' = payday \/ payday' = [payday EXCEPT ![w] = today]
    BY <1>5 DEF Charge
  <2>2. payday' \in [Drains -> 0..MaxDays]
    <3>1. CASE payday' = payday
      BY <3>1
    <3>2. CASE payday' = [payday EXCEPT ![w] = today]
      <4>1. today \in 0..MaxDays
        OBVIOUS
      <4> QED
        BY <3>2, <4>1
    <3> QED
      BY <2>1, <3>1, <3>2
  <2>3. pc' = [pc EXCEPT ![w] = "llm"] \/ pc' = [pc EXCEPT ![w] = "commit"]
    BY <1>5 DEF Charge, Goto
  <2>4. pc' \in [Drains -> Places]
    BY <2>3 DEF Places
  <2>5. budgetLock' \in [1..MaxDays -> Drains \cup {Nobody}]
    BY <1>5 DEF Charge
  <2> QED
    BY <1>5, <2>2, <2>4, <2>5 DEF Charge, db, Places
<1>6. ASSUME NEW w \in Drains, Phrase(w) PROVE TypeOK'
  BY <1>6 DEF Phrase, Goto, db, locks, tx
<1>7. ASSUME NEW w \in Drains, SelectInsight(w) PROVE TypeOK'
  BY <1>7 DEF SelectInsight, Goto, db, locks, tx
<1>8. ASSUME NEW w \in Drains, WriteText(w) PROVE TypeOK'
  <2>1. Target(w) \in Targets
    BY <1>8, TargetIn DEF WriteText
  <2>2. outLock' = outLock \/ outLock' = [outLock EXCEPT ![Target(w)] = w]
    BY <1>8 DEF WriteText
  <2>3. outLock' \in [Targets -> Drains \cup {Nobody}]
    BY <2>1, <2>2
  <2>4. outcome' = outcome \/ outcome' = [outcome EXCEPT ![w] = "done"]
    BY <1>8 DEF WriteText
  <2>5. outcome' \in [Drains -> {"done", "failed"}]
    BY <2>4
  <2>6. pc' = [pc EXCEPT ![w] = "broken"] \/ pc' = [pc EXCEPT ![w] = "commit"]
    BY <1>8 DEF WriteText, Goto
  <2>7. pc' \in [Drains -> Places]
    BY <2>6 DEF Places
  <2> QED
    BY <1>8, <2>3, <2>5, <2>7 DEF WriteText, db, Places
<1>9. ASSUME NEW w \in Drains, CommitJob(w) PROVE TypeOK'
  <2>1. Target(w) \in Targets /\ hand[w] \in Jobs
    BY <1>9, TargetIn DEF CommitJob
  <2>2. insight' \in [Targets -> 0..MaxDays]
    BY <1>9, <2>1 DEF CommitJob
  <2>3. [edit |-> seen[w].edit, brief |-> TRUE] \in [edit : 0..MaxEdits, brief : BOOLEAN]
    OBVIOUS
  <2>4. attrs' \in [Targets -> [edit : 0..MaxEdits, brief : BOOLEAN]]
    BY <1>9, <2>1, <2>3 DEF CommitJob
  <2>5. used' \in [1..MaxDays -> 0..Cap]
    <3>1. \A d \in 1..MaxDays : d = payday[w] => used[d] < Cap
      BY DEF BudgetInv
    <3> QED
      BY <1>9, <3>1 DEF CommitJob
  <2>6. status' \in [Jobs -> {"absent", "pending", "running"} \cup {"done", "failed"}]
    BY <1>9, <2>1 DEF CommitJob
  <2>7. pc' \in [Drains -> Places]
    BY <1>9 DEF CommitJob, Goto, Places
  <2>8. /\ jobLock' \in [Jobs -> Drains \cup {Nobody}]
        /\ outLock' \in [Targets -> Drains \cup {Nobody}]
        /\ budgetLock' \in [1..MaxDays -> Drains \cup {Nobody}]
    BY <1>9 DEF CommitJob, Release, FreeOf
  <2>9. /\ hand' \in [Drains -> Jobs \cup {0}] /\ payday' \in [Drains -> 0..MaxDays]
        /\ outcome' \in [Drains -> {"done", "failed"}]
        /\ seen' \in [Drains -> [edit : 0..MaxEdits, brief : BOOLEAN]]
    BY <1>9 DEF CommitJob, Release, Blank
  <2> QED
    BY <1>9, <2>2, <2>4, <2>5, <2>6, <2>7, <2>8, <2>9 DEF CommitJob, Places
<1>10. ASSUME NEW w \in Drains, EndBroken(w) PROVE TypeOK'
  BY <1>10 DEF EndBroken, Goto, Release, FreeOf, Blank, db
<1>11. ASSUME NEW w \in Drains, Raise(w) PROVE TypeOK'
  BY <1>11 DEF Raise, Goto, db, locks, tx
<1>12. ASSUME NEW w \in Drains, StatementRaises(w) PROVE TypeOK'
  BY <1>12 DEF StatementRaises, Goto, db, locks, tx
<1>13. ASSUME NEW w \in Drains, Crash(w) PROVE TypeOK'
  BY <1>13 DEF Crash, Goto, Release, FreeOf, Blank, db
<1>14. ASSUME NEW j \in Jobs, Enqueue(j) PROVE TypeOK'
  BY <1>14 DEF Enqueue, locks, tx
<1>15. ASSUME NEW t \in Targets, EditNode(t) PROVE TypeOK'
  <2>1. attrs[t].edit + 1 \in 0..MaxEdits
    BY <1>15 DEF EditNode, EditsInv
  <2>2. [edit |-> attrs[t].edit + 1, brief |-> FALSE] \in [edit : 0..MaxEdits, brief : BOOLEAN]
    BY <2>1
  <2>3. attrs' \in [Targets -> [edit : 0..MaxEdits, brief : BOOLEAN]]
    BY <1>15, <2>2 DEF EditNode
  <2> QED
    BY <1>15, <2>3 DEF EditNode, locks, tx
<1>16. CASE Midnight
  <2>1. today' \in Days
    BY <1>16 DEF Midnight
  <2>2. UNCHANGED <<status, insight, attrs, used, jobLock, outLock, budgetLock>>
    BY <1>16 DEF Midnight, db, locks
  <2>3. UNCHANGED <<pc, todo, hand, seen, payday, outcome, edits, faults>>
    BY <1>16 DEF Midnight, tx
  <2> QED
    BY <2>1, <2>2, <2>3
<1>17. CASE UNCHANGED vars
  BY <1>17 DEF vars
<1> QED
  BY <1>1, <1>2, <1>3, <1>4, <1>5, <1>6, <1>7, <1>8, <1>9, <1>10, <1>11, <1>12, <1>13, <1>14, <1>15, <1>16, <1>17
     DEF Next, Step

(* A job is taken from the list of the call and kept to the end of its run. *)
LEMMA HandStep ==
  ASSUME TypeOK, HandInv, [Next]_vars
  PROVE  HandInv'
<1> USE JobsAssumption, BoundsAssumption DEF TypeOK, HandInv
<1>1. ASSUME NEW w \in Drains, ReadJobs(w) PROVE HandInv'
  BY <1>1 DEF ReadJobs, Goto, db, locks, tx, PendingJobs, Oldest
<1>2. ASSUME NEW w \in Drains, StartJob(w) PROVE HandInv'
  <2>1. Min(todo[w]) \in Jobs
    BY <1>2, MinIn DEF StartJob
  <2> QED
    BY <1>2, <2>1 DEF StartJob, Goto, db
<1>3. ASSUME NEW w \in Drains, EndCall(w) PROVE HandInv'
  BY <1>3 DEF EndCall, Goto, db, locks, tx
<1>4. ASSUME NEW w \in Drains, ReadTarget(w) PROVE HandInv'
  BY <1>4 DEF ReadTarget, Goto, db, locks
<1>5. ASSUME NEW w \in Drains, Charge(w) PROVE HandInv'
  BY <1>5 DEF Charge, Goto, db
<1>6. ASSUME NEW w \in Drains, Phrase(w) PROVE HandInv'
  BY <1>6 DEF Phrase, Goto, db, locks, tx
<1>7. ASSUME NEW w \in Drains, SelectInsight(w) PROVE HandInv'
  BY <1>7 DEF SelectInsight, Goto, db, locks, tx
<1>8. ASSUME NEW w \in Drains, WriteText(w) PROVE HandInv'
  BY <1>8 DEF WriteText, Goto, db
<1>9. ASSUME NEW w \in Drains, CommitJob(w) PROVE HandInv'
  BY <1>9 DEF CommitJob, Goto, Release, FreeOf, Blank
<1>10. ASSUME NEW w \in Drains, EndBroken(w) PROVE HandInv'
  BY <1>10 DEF EndBroken, Goto, Release, FreeOf, Blank, db
<1>11. ASSUME NEW w \in Drains, Raise(w) PROVE HandInv'
  BY <1>11 DEF Raise, Goto, db, locks, tx
<1>12. ASSUME NEW w \in Drains, StatementRaises(w) PROVE HandInv'
  BY <1>12 DEF StatementRaises, Goto, db, locks, tx
<1>13. ASSUME NEW w \in Drains, Crash(w) PROVE HandInv'
  BY <1>13 DEF Crash, Goto, Release, FreeOf, Blank, db
<1>14. ASSUME NEW j \in Jobs, Enqueue(j) PROVE HandInv'
  BY <1>14 DEF Enqueue, locks, tx
<1>15. ASSUME NEW t \in Targets, EditNode(t) PROVE HandInv'
  BY <1>15 DEF EditNode, locks, tx
<1>16. CASE Midnight \/ UNCHANGED vars
  BY <1>16 DEF Midnight, vars, db, locks, tx
<1> QED
  BY <1>1, <1>2, <1>3, <1>4, <1>5, <1>6, <1>7, <1>8, <1>9, <1>10, <1>11, <1>12, <1>13, <1>14, <1>15, <1>16
     DEF Next, Step

(* The row of a charged day is locked until the end of the transaction. *)
LEMMA BudgetStep ==
  ASSUME TypeOK, BudgetInv, [Next]_vars
  PROVE  BudgetInv'
<1> USE JobsAssumption, BoundsAssumption DEF TypeOK, BudgetInv, Days
<1>1. ASSUME NEW w \in Drains, ReadJobs(w) PROVE BudgetInv'
  BY <1>1 DEF ReadJobs, Goto, db, locks, tx, PendingJobs, Oldest
<1>2. ASSUME NEW w \in Drains, StartJob(w) PROVE BudgetInv'
  BY <1>2 DEF StartJob, Goto, db
<1>3. ASSUME NEW w \in Drains, EndCall(w) PROVE BudgetInv'
  BY <1>3 DEF EndCall, Goto, db, locks, tx
<1>4. ASSUME NEW w \in Drains, ReadTarget(w) PROVE BudgetInv'
  BY <1>4 DEF ReadTarget, Goto, db, locks
<1>5. ASSUME NEW w \in Drains, Charge(w) PROVE BudgetInv'
  BY <1>5 DEF Charge, Goto, db
<1>6. ASSUME NEW w \in Drains, Phrase(w) PROVE BudgetInv'
  BY <1>6 DEF Phrase, Goto, db, locks, tx
<1>7. ASSUME NEW w \in Drains, SelectInsight(w) PROVE BudgetInv'
  BY <1>7 DEF SelectInsight, Goto, db, locks, tx
<1>8. ASSUME NEW w \in Drains, WriteText(w) PROVE BudgetInv'
  BY <1>8 DEF WriteText, Goto, db
<1>9. ASSUME NEW w \in Drains, CommitJob(w) PROVE BudgetInv'
  BY <1>9 DEF CommitJob, Goto, Release, FreeOf, Blank
<1>10. ASSUME NEW w \in Drains, EndBroken(w) PROVE BudgetInv'
  BY <1>10 DEF EndBroken, Goto, Release, FreeOf, Blank, db
<1>11. ASSUME NEW w \in Drains, Raise(w) PROVE BudgetInv'
  BY <1>11 DEF Raise, Goto, db, locks, tx
<1>12. ASSUME NEW w \in Drains, StatementRaises(w) PROVE BudgetInv'
  BY <1>12 DEF StatementRaises, Goto, db, locks, tx
<1>13. ASSUME NEW w \in Drains, Crash(w) PROVE BudgetInv'
  BY <1>13 DEF Crash, Goto, Release, FreeOf, Blank, db
<1>14. ASSUME NEW j \in Jobs, Enqueue(j) PROVE BudgetInv'
  BY <1>14 DEF Enqueue, locks, tx
<1>15. ASSUME NEW t \in Targets, EditNode(t) PROVE BudgetInv'
  BY <1>15 DEF EditNode, locks, tx
<1>16. CASE Midnight \/ UNCHANGED vars
  BY <1>16 DEF Midnight, vars, db, locks, tx
<1> QED
  BY <1>1, <1>2, <1>3, <1>4, <1>5, <1>6, <1>7, <1>8, <1>9, <1>10, <1>11, <1>12, <1>13, <1>14, <1>15, <1>16
     DEF Next, Step

(* A brief writes back a count of edits that was read before. *)
LEMMA EditsStep ==
  ASSUME TypeOK, HandInv, EditsInv, [Next]_vars
  PROVE  EditsInv'
<1> USE JobsAssumption, BoundsAssumption DEF TypeOK, HandInv, EditsInv, Attributes, Target
<1>1. ASSUME NEW w \in Drains, ReadJobs(w) PROVE EditsInv'
  BY <1>1 DEF ReadJobs, Goto, db, locks, tx, PendingJobs, Oldest
<1>2. ASSUME NEW w \in Drains, StartJob(w) PROVE EditsInv'
  BY <1>2 DEF StartJob, Goto, db
<1>3. ASSUME NEW w \in Drains, EndCall(w) PROVE EditsInv'
  BY <1>3 DEF EndCall, Goto, db, locks, tx
<1>4. ASSUME NEW w \in Drains, ReadTarget(w) PROVE EditsInv'
  <2>1. Target(w) \in Targets
    BY <1>4, TargetIn DEF ReadTarget
  <2>2. \A v \in Drains : seen'[v] = seen[v] \/ seen'[v] = attrs[Target(w)]
    BY <1>4 DEF ReadTarget
  <2> QED
    BY <1>4, <2>1, <2>2 DEF ReadTarget, db
<1>5. ASSUME NEW w \in Drains, Charge(w) PROVE EditsInv'
  BY <1>5 DEF Charge, Goto, db
<1>6. ASSUME NEW w \in Drains, Phrase(w) PROVE EditsInv'
  BY <1>6 DEF Phrase, Goto, db, locks, tx
<1>7. ASSUME NEW w \in Drains, SelectInsight(w) PROVE EditsInv'
  BY <1>7 DEF SelectInsight, Goto, db, locks, tx
<1>8. ASSUME NEW w \in Drains, WriteText(w) PROVE EditsInv'
  BY <1>8 DEF WriteText, Goto, db
<1>9. ASSUME NEW w \in Drains, CommitJob(w) PROVE EditsInv'
  BY <1>9 DEF CommitJob, Goto, Release, FreeOf, Blank
<1>10. ASSUME NEW w \in Drains, EndBroken(w) PROVE EditsInv'
  BY <1>10 DEF EndBroken, Goto, Release, FreeOf, Blank, db
<1>11. ASSUME NEW w \in Drains, Raise(w) PROVE EditsInv'
  BY <1>11 DEF Raise, Goto, db, locks, tx
<1>12. ASSUME NEW w \in Drains, StatementRaises(w) PROVE EditsInv'
  BY <1>12 DEF StatementRaises, Goto, db, locks, tx
<1>13. ASSUME NEW w \in Drains, Crash(w) PROVE EditsInv'
  BY <1>13 DEF Crash, Goto, Release, FreeOf, Blank, db
<1>14. ASSUME NEW j \in Jobs, Enqueue(j) PROVE EditsInv'
  BY <1>14 DEF Enqueue, locks, tx
<1>15. ASSUME NEW t \in Targets, EditNode(t) PROVE EditsInv'
  BY <1>15 DEF EditNode, locks, tx
<1>16. CASE Midnight \/ UNCHANGED vars
  BY <1>16 DEF Midnight, vars, db, locks, tx
<1> QED
  BY <1>1, <1>2, <1>3, <1>4, <1>5, <1>6, <1>7, <1>8, <1>9, <1>10, <1>11, <1>12, <1>13, <1>14, <1>15, <1>16
     DEF Next, Step

(* The outcome is done from the write to the commit only. *)
LEMMA WrittenStep ==
  ASSUME TypeOK, HandInv, BudgetInv, WrittenInv, [Next]_vars
  PROVE  WrittenInv'
<1> USE JobsAssumption, BoundsAssumption DEF TypeOK, HandInv, BudgetInv, WrittenInv, Target, Settled
<1>1. ASSUME NEW w \in Drains, ReadJobs(w) PROVE WrittenInv'
  BY <1>1 DEF ReadJobs, Goto, db, locks, tx, PendingJobs, Oldest
<1>2. ASSUME NEW w \in Drains, StartJob(w) PROVE WrittenInv'
  BY <1>2 DEF StartJob, Goto, db
<1>3. ASSUME NEW w \in Drains, EndCall(w) PROVE WrittenInv'
  BY <1>3 DEF EndCall, Goto, db, locks, tx
<1>4. ASSUME NEW w \in Drains, ReadTarget(w) PROVE WrittenInv'
  BY <1>4 DEF ReadTarget, Goto, db, locks
<1>5. ASSUME NEW w \in Drains, Charge(w) PROVE WrittenInv'
  BY <1>5 DEF Charge, Goto, db
<1>6. ASSUME NEW w \in Drains, Phrase(w) PROVE WrittenInv'
  BY <1>6 DEF Phrase, Goto, db, locks, tx
<1>7. ASSUME NEW w \in Drains, SelectInsight(w) PROVE WrittenInv'
  BY <1>7 DEF SelectInsight, Goto, db, locks, tx
<1>8. ASSUME NEW w \in Drains, WriteText(w) PROVE WrittenInv'
  <2>1. TargetOf[hand[w]] \in Targets
    BY <1>8, TargetIn DEF WriteText
  <2>2. payday[w] # 0 /\ outcome[w] # "done"
    BY <1>8 DEF WriteText
  <2> SUFFICES ASSUME NEW v \in Drains, outcome'[v] = "done"
               PROVE  /\ pc'[v] = "commit" /\ payday'[v] # 0
                      /\ outLock'[TargetOf[hand'[v]]] = v
    BY DEF WrittenInv
  <2>3. CASE v = w
    BY <1>8, <2>1, <2>2, <2>3 DEF WriteText, Goto
  <2>4. CASE v # w
    <3>1. outcome[v] = "done"
      BY <1>8, <2>4 DEF WriteText
    <3>2. TargetOf[hand[v]] # TargetOf[hand[w]]
      BY <1>8, <3>1, <2>4 DEF WriteText
    <3>3. hand'[v] = hand[v] /\ payday'[v] = payday[v] /\ pc'[v] = pc[v]
      BY <1>8, <2>4 DEF WriteText, Goto
    <3>4. outLock'[TargetOf[hand[v]]] = outLock[TargetOf[hand[v]]]
      <4>1. outLock' = outLock \/ outLock' = [outLock EXCEPT ![TargetOf[hand[w]]] = w]
        BY <1>8 DEF WriteText
      <4> QED
        BY <4>1, <3>1, <3>2, TargetIn
    <3> QED
      BY <3>1, <3>3, <3>4
  <2> QED
    BY <2>3, <2>4
<1>9. ASSUME NEW w \in Drains, CommitJob(w) PROVE WrittenInv'
  BY <1>9 DEF CommitJob, Goto, Release, FreeOf, Blank
<1>10. ASSUME NEW w \in Drains, EndBroken(w) PROVE WrittenInv'
  <2> SUFFICES ASSUME NEW v \in Drains, outcome'[v] = "done"
               PROVE  /\ pc'[v] = "commit" /\ payday'[v] # 0
                      /\ outLock'[TargetOf[hand'[v]]] = v
    BY DEF WrittenInv
  <2>1. v # w /\ outcome[v] = "done"
    BY <1>10 DEF EndBroken, Release
  <2>2. TargetOf[hand[v]] \in Targets
    BY <2>1, TargetIn
  <2> QED
    BY <1>10, <2>1, <2>2 DEF EndBroken, Goto, Release, FreeOf
<1>11. ASSUME NEW w \in Drains, Raise(w) PROVE WrittenInv'
  BY <1>11 DEF Raise, Goto, db, locks, tx
<1>12. ASSUME NEW w \in Drains, StatementRaises(w) PROVE WrittenInv'
  BY <1>12 DEF StatementRaises, Goto, db, locks, tx
<1>13. ASSUME NEW w \in Drains, Crash(w) PROVE WrittenInv'
  <2> SUFFICES ASSUME NEW v \in Drains, outcome'[v] = "done"
               PROVE  /\ pc'[v] = "commit" /\ payday'[v] # 0
                      /\ outLock'[TargetOf[hand'[v]]] = v
    BY DEF WrittenInv
  <2>1. v # w /\ outcome[v] = "done"
    BY <1>13 DEF Crash, Release
  <2>2. TargetOf[hand[v]] \in Targets
    BY <2>1, TargetIn
  <2> QED
    BY <1>13, <2>1, <2>2 DEF Crash, Goto, Release, FreeOf
<1>14. ASSUME NEW j \in Jobs, Enqueue(j) PROVE WrittenInv'
  BY <1>14 DEF Enqueue, locks, tx
<1>15. ASSUME NEW t \in Targets, EditNode(t) PROVE WrittenInv'
  BY <1>15 DEF EditNode, locks, tx
<1>16. CASE Midnight \/ UNCHANGED vars
  BY <1>16 DEF Midnight, vars, db, locks, tx
<1> QED
  BY <1>1, <1>2, <1>3, <1>4, <1>5, <1>6, <1>7, <1>8, <1>9, <1>10, <1>11, <1>12, <1>13, <1>14, <1>15, <1>16
     DEF Next, Step

(* A commit that settles a job as done leaves its insight behind. *)
LEMMA SettledStep ==
  ASSUME TypeOK, HandInv, WrittenInv, JobsAreSettledWhole, [Next]_vars
  PROVE  JobsAreSettledWhole'
<1> USE JobsAssumption, BoundsAssumption DEF TypeOK, HandInv, WrittenInv, JobsAreSettledWhole, Target, Settled, Pending
<1>1. ASSUME NEW w \in Drains, ReadJobs(w) PROVE JobsAreSettledWhole'
  BY <1>1 DEF ReadJobs, Goto, db, locks, tx, PendingJobs, Oldest
<1>2. ASSUME NEW w \in Drains, StartJob(w) PROVE JobsAreSettledWhole'
  BY <1>2 DEF StartJob, Goto, db
<1>3. ASSUME NEW w \in Drains, EndCall(w) PROVE JobsAreSettledWhole'
  BY <1>3 DEF EndCall, Goto, db, locks, tx
<1>4. ASSUME NEW w \in Drains, ReadTarget(w) PROVE JobsAreSettledWhole'
  BY <1>4 DEF ReadTarget, Goto, db, locks
<1>5. ASSUME NEW w \in Drains, Charge(w) PROVE JobsAreSettledWhole'
  BY <1>5 DEF Charge, Goto, db
<1>6. ASSUME NEW w \in Drains, Phrase(w) PROVE JobsAreSettledWhole'
  BY <1>6 DEF Phrase, Goto, db, locks, tx
<1>7. ASSUME NEW w \in Drains, SelectInsight(w) PROVE JobsAreSettledWhole'
  BY <1>7 DEF SelectInsight, Goto, db, locks, tx
<1>8. ASSUME NEW w \in Drains, WriteText(w) PROVE JobsAreSettledWhole'
  BY <1>8 DEF WriteText, Goto, db
<1>9. ASSUME NEW w \in Drains, CommitJob(w) PROVE JobsAreSettledWhole'
  BY <1>9 DEF CommitJob, Goto, Release, FreeOf, Blank
<1>10. ASSUME NEW w \in Drains, EndBroken(w) PROVE JobsAreSettledWhole'
  BY <1>10 DEF EndBroken, Goto, Release, FreeOf, Blank, db
<1>11. ASSUME NEW w \in Drains, Raise(w) PROVE JobsAreSettledWhole'
  BY <1>11 DEF Raise, Goto, db, locks, tx
<1>12. ASSUME NEW w \in Drains, StatementRaises(w) PROVE JobsAreSettledWhole'
  BY <1>12 DEF StatementRaises, Goto, db, locks, tx
<1>13. ASSUME NEW w \in Drains, Crash(w) PROVE JobsAreSettledWhole'
  BY <1>13 DEF Crash, Goto, Release, FreeOf, Blank, db
<1>14. ASSUME NEW j \in Jobs, Enqueue(j) PROVE JobsAreSettledWhole'
  BY <1>14 DEF Enqueue, locks, tx
<1>15. ASSUME NEW t \in Targets, EditNode(t) PROVE JobsAreSettledWhole'
  BY <1>15 DEF EditNode, locks, tx
<1>16. CASE Midnight \/ UNCHANGED vars
  BY <1>16 DEF Midnight, vars, db, locks, tx
<1> QED
  BY <1>1, <1>2, <1>3, <1>4, <1>5, <1>6, <1>7, <1>8, <1>9, <1>10, <1>11, <1>12, <1>13, <1>14, <1>15, <1>16
     DEF Next, Step

(* An insight committed under an insert's feet was paid for on another day. *)
LEMMA CollideStep ==
  ASSUME TypeOK, HandInv, BudgetInv, InsertCollidesOnlyAcrossMidnight, [Next]_vars
  PROVE  InsertCollidesOnlyAcrossMidnight'
<1> USE JobsAssumption, BoundsAssumption DEF TypeOK, HandInv, BudgetInv, InsertCollidesOnlyAcrossMidnight, Target, Days
<1>1. ASSUME NEW w \in Drains, ReadJobs(w) PROVE InsertCollidesOnlyAcrossMidnight'
  BY <1>1 DEF ReadJobs, Goto, db, locks, tx, PendingJobs, Oldest
<1>2. ASSUME NEW w \in Drains, StartJob(w) PROVE InsertCollidesOnlyAcrossMidnight'
  BY <1>2 DEF StartJob, Goto, db
<1>3. ASSUME NEW w \in Drains, EndCall(w) PROVE InsertCollidesOnlyAcrossMidnight'
  BY <1>3 DEF EndCall, Goto, db, locks, tx
<1>4. ASSUME NEW w \in Drains, ReadTarget(w) PROVE InsertCollidesOnlyAcrossMidnight'
  BY <1>4, ZenonT(30) DEF ReadTarget, Goto, db, locks
<1>5. ASSUME NEW w \in Drains, Charge(w) PROVE InsertCollidesOnlyAcrossMidnight'
  <2>1. \A v \in Drains : pc'[v] = "insert" => v # w /\ pc[v] = "insert" /\ payday'[v] = payday[v]
    BY <1>5 DEF Charge, Goto
  <2> QED
    BY <1>5, <2>1 DEF Charge, db
<1>6. ASSUME NEW w \in Drains, Phrase(w) PROVE InsertCollidesOnlyAcrossMidnight'
  BY <1>6, ZenonT(30) DEF Phrase, Goto, db, locks, tx
<1>7. ASSUME NEW w \in Drains, SelectInsight(w) PROVE InsertCollidesOnlyAcrossMidnight'
  BY <1>7 DEF SelectInsight, Goto, db, locks, tx
<1>8. ASSUME NEW w \in Drains, WriteText(w) PROVE InsertCollidesOnlyAcrossMidnight'
  <2>1. \A v \in Drains : pc'[v] = "insert" => pc[v] = "insert"
    BY <1>8 DEF WriteText, Goto
  <2> QED
    BY <1>8, <2>1 DEF WriteText, db
<1>9. ASSUME NEW w \in Drains, CommitJob(w) PROVE InsertCollidesOnlyAcrossMidnight'
  <2> SUFFICES ASSUME NEW v \in Drains, pc'[v] = "insert", insight'[TargetOf[hand'[v]]] # 0
               PROVE  insight'[TargetOf[hand'[v]]] # payday'[v]
    OBVIOUS
  <2>1. v # w /\ pc[v] = "insert" /\ hand'[v] = hand[v] /\ payday'[v] = payday[v]
    BY <1>9 DEF CommitJob, Goto, Release
  <2>2. TargetOf[hand[v]] \in Targets
    BY <2>1, TargetIn
  <2>3. CASE insight'[TargetOf[hand[v]]] = insight[TargetOf[hand[v]]]
    BY <2>1, <2>3
  <2>4. CASE insight'[TargetOf[hand[v]]] = payday[w]
    <3>1. budgetLock[payday[v]] = v /\ payday[v] # 0
      BY <2>1
    <3>2. payday[w] # 0 => budgetLock[payday[w]] = w
      OBVIOUS
    <3> QED
      BY <2>1, <2>4, <3>1, <3>2
  <2> QED
    BY <1>9, <2>2, <2>3, <2>4 DEF CommitJob
<1>10. ASSUME NEW w \in Drains, EndBroken(w) PROVE InsertCollidesOnlyAcrossMidnight'
  BY <1>10 DEF EndBroken, Goto, Release, FreeOf, Blank, db
<1>11. ASSUME NEW w \in Drains, Raise(w) PROVE InsertCollidesOnlyAcrossMidnight'
  BY <1>11 DEF Raise, Goto, db, locks, tx
<1>12. ASSUME NEW w \in Drains, StatementRaises(w) PROVE InsertCollidesOnlyAcrossMidnight'
  BY <1>12 DEF StatementRaises, Goto, db, locks, tx
<1>13. ASSUME NEW w \in Drains, Crash(w) PROVE InsertCollidesOnlyAcrossMidnight'
  BY <1>13 DEF Crash, Goto, Release, FreeOf, Blank, db
<1>14. ASSUME NEW j \in Jobs, Enqueue(j) PROVE InsertCollidesOnlyAcrossMidnight'
  BY <1>14 DEF Enqueue, locks, tx
<1>15. ASSUME NEW t \in Targets, EditNode(t) PROVE InsertCollidesOnlyAcrossMidnight'
  BY <1>15 DEF EditNode, locks, tx
<1>16. CASE Midnight \/ UNCHANGED vars
  BY <1>16 DEF Midnight, vars, db, locks, tx
<1> QED
  BY <1>1, <1>2, <1>3, <1>4, <1>5, <1>6, <1>7, <1>8, <1>9, <1>10, <1>11, <1>12, <1>13, <1>14, <1>15, <1>16
     DEF Next, Step

-----------------------------------------------------------------------------
LEMMA TypeInvariance == Spec => [](TypeOK /\ HandInv /\ BudgetInv /\ EditsInv)
  BY InitInv, TypeStep, HandStep, BudgetStep, EditsStep, PTL DEF Spec

(* Every variable keeps its type: no day is charged beyond its cap, and a  *)
(* brief never counts more edits than were made.                           *)
THEOREM TypeCorrect == Spec => []TypeOK
  BY TypeInvariance, PTL

(* A job committed as done has its insight, and none is left running.      *)
THEOREM NoHalfSettledJob == Spec => []JobsAreSettledWhole
  BY InitInv, WrittenStep, SettledStep, TypeInvariance, PTL DEF Spec

(* The check-then-insert of the synthesizer meets only insights paid for   *)
(* on another day than its own.                                            *)
THEOREM CollisionsOnlyAcrossMidnight == Spec => []InsertCollidesOnlyAcrossMidnight
  BY InitInv, CollideStep, TypeInvariance, PTL DEF Spec
=============================================================================
