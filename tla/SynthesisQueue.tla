--------------------------- MODULE SynthesisQueue ---------------------------
(***************************************************************************)
(* The queue of synthesis jobs and the drain that runs them                *)
(* (ledger/emitter.py, api/routes/synthesis_internal.py,                   *)
(* workers/synthesizer.py, intelligence/budget.py).                        *)
(*                                                                         *)
(* A drain reads the pending jobs without a lock and runs them one by one, *)
(* each in a transaction of its own: the job is set running, its target is *)
(* read, the tenant's budget row of the day is locked and charged, the LLM *)
(* writes a text, and an insight is inserted or updated by its dedup_key   *)
(* (a stakeholder's brief goes into the attributes of its node). Nothing   *)
(* but the locks of that transaction keeps two drains apart.               *)
(***************************************************************************)
EXTENDS Naturals, FiniteSetsExt

CONSTANTS
    Jobs,         \* job ids, numbered in the order of enqueued_at
    Targets,      \* matrix nodes and insights the jobs are about
    Stakeholders, \* targets whose synthesis is a brief on the node itself
    TargetOf,     \* the target of a job
    Drains,       \* callers of the drain endpoint
    Nobody,       \* no drain
    Limit,        \* jobs one call of the drain takes
    Cap,          \* syntheses the budget of a day pays for
    MaxDays,      \* bound: days that pass (each has a budget row of its own)
    MaxEdits,     \* bound: edits of a node's attributes
    MaxFaults     \* bound: statements that raise, drains that die

Days == 1..MaxDays
Pending == "pending"
Settled == {"done", "failed"}

ASSUME JobsAssumption ==
    /\ Jobs \subseteq Nat /\ Stakeholders \subseteq Targets
    /\ TargetOf \in [Jobs -> Targets] /\ Nobody \notin Drains
ASSUME BoundsAssumption ==
    /\ Limit \in Nat \ {0} /\ Cap \in Nat /\ MaxDays \in Nat \ {0}
    /\ MaxEdits \in Nat /\ MaxFaults \in Nat

VARIABLES
    status,     \* committed status of a job, "absent" before it is enqueued
    jobLock,    \* drain that holds the row lock of a job
    insight,    \* committed insight of a target: the day its drain charged, or 0
    outLock,    \* drain with an uncommitted write for a target
    attrs,      \* committed attributes of a node: edits so far, brief or none
    used,       \* committed tokens_used of each day, in syntheses
    budgetLock, \* drain that holds the lock of the day's budget row
    today,      \* the day
    pc,         \* where a drain is
    todo,       \* jobs of the current call that are still to be run
    hand,       \* the job at work
    seen,       \* attributes of the node as the drain read them
    payday,     \* the day whose budget row the transaction locked, or 0
    outcome,    \* status the transaction will commit
    edits,      \* edits that may still come
    faults      \* faults that may still come

db == <<status, insight, attrs, used>>
locks == <<jobLock, outLock, budgetLock>>
tx == <<hand, seen, payday, outcome>>
vars == <<status, insight, attrs, used, jobLock, outLock, budgetLock, today,
          pc, todo, hand, seen, payday, outcome, edits, faults>>

Attributes == [edit : 0..MaxEdits, brief : BOOLEAN]

TypeOK ==
    /\ status \in [Jobs -> {"absent", Pending, "running"} \cup Settled]
    /\ jobLock \in [Jobs -> Drains \cup {Nobody}]
    /\ insight \in [Targets -> 0..MaxDays]
    /\ outLock \in [Targets -> Drains \cup {Nobody}]
    /\ attrs \in [Targets -> Attributes]
    /\ used \in [Days -> 0..Cap]
    /\ budgetLock \in [Days -> Drains \cup {Nobody}]
    /\ today \in Days
    /\ pc \in [Drains -> {"idle", "next", "look", "charge", "llm", "select",
                          "insert", "update", "brief", "commit", "broken"}]
    /\ todo \in [Drains -> SUBSET Jobs]
    /\ hand \in [Drains -> Jobs \cup {0}]
    /\ seen \in [Drains -> Attributes]
    /\ payday \in [Drains -> 0..MaxDays]
    /\ outcome \in [Drains -> Settled]
    /\ edits \in 0..MaxEdits /\ faults \in 0..MaxFaults

Blank == [edit |-> 0, brief |-> FALSE]

Init ==
    /\ status = [j \in Jobs |-> "absent"]
    /\ jobLock = [j \in Jobs |-> Nobody]
    /\ insight = [t \in Targets |-> 0]
    /\ outLock = [t \in Targets |-> Nobody]
    /\ attrs = [t \in Targets |-> Blank]
    /\ used = [d \in Days |-> 0]
    /\ budgetLock = [d \in Days |-> Nobody]
    /\ today = 1
    /\ pc = [w \in Drains |-> "idle"] /\ todo = [w \in Drains |-> {}]
    /\ hand = [w \in Drains |-> 0]
    /\ seen = [w \in Drains |-> Blank]
    /\ payday = [w \in Drains |-> 0]
    /\ outcome = [w \in Drains |-> "failed"]
    /\ edits = MaxEdits /\ faults = MaxFaults

-----------------------------------------------------------------------------
(* Transactions *)

Goto(w, l) == pc' = [pc EXCEPT ![w] = l]
Target(w) == TargetOf[hand[w]]

FreeOf(lock, w) == [x \in DOMAIN lock |-> IF lock[x] = w THEN Nobody ELSE lock[x]]

\* The end of a transaction gives its locks back.
Release(w) ==
    /\ jobLock' = FreeOf(jobLock, w)
    /\ outLock' = FreeOf(outLock, w)
    /\ budgetLock' = FreeOf(budgetLock, w)
    /\ hand' = [hand EXCEPT ![w] = 0]
    /\ payday' = [payday EXCEPT ![w] = 0]
    /\ outcome' = [outcome EXCEPT ![w] = "failed"]
    /\ seen' = [seen EXCEPT ![w] = Blank]

-----------------------------------------------------------------------------
(* Requests beside the drain *)

\* emit_ledger_event adds the job in the transaction of the event.
Enqueue(j) ==
    /\ status[j] = "absent"
    /\ \A i \in Jobs : i < j => status[i] # "absent"
    /\ status' = [status EXCEPT ![j] = Pending]
    /\ UNCHANGED <<insight, attrs, used, locks, today, pc, todo, tx, edits, faults>>

\* A PATCH of the node replaces its attributes.
EditNode(t) ==
    /\ t \in Stakeholders /\ edits > 0 /\ outLock[t] = Nobody
    /\ edits' = edits - 1
    /\ attrs' = [attrs EXCEPT ![t] = [edit |-> @.edit + 1, brief |-> FALSE]]
    /\ UNCHANGED <<status, insight, used, locks, today, pc, todo, tx, faults>>

Midnight ==
    /\ today < MaxDays
    /\ today' = today + 1
    /\ UNCHANGED <<db, locks, pc, todo, tx, edits, faults>>

-----------------------------------------------------------------------------
(* The drain *)

PendingJobs == {j \in Jobs : status[j] = Pending}

\* ORDER BY enqueued_at LIMIT limit.
Oldest(S) == {j \in S : Cardinality({i \in S : i < j}) < Limit}

ReadJobs(w) ==
    /\ pc[w] = "idle" /\ PendingJobs # {}
    /\ todo' = [todo EXCEPT ![w] = Oldest(PendingJobs)]
    /\ Goto(w, "next")
    /\ UNCHANGED <<db, locks, today, tx, edits, faults>>

\* bug: the running status is committed before the job is run.
StartJobCommitted(w) ==
    /\ pc[w] = "next" /\ todo[w] # {}
    /\ LET j == Min(todo[w]) IN
          /\ jobLock[j] = Nobody
          /\ status' = [status EXCEPT ![j] = "running"]
          /\ hand' = [hand EXCEPT ![w] = j]
          /\ todo' = [todo EXCEPT ![w] = @ \ {j}]
    /\ Goto(w, "look")
    /\ UNCHANGED <<insight, attrs, used, locks, today, seen, payday, outcome,
                   edits, faults>>

\* The flush of status and attempts locks the row, whatever its status is by
\* now: the UPDATE tests the primary key only.
StartJob(w) ==
    /\ pc[w] = "next" /\ todo[w] # {}
    /\ LET j == Min(todo[w]) IN
          /\ jobLock[j] = Nobody
          /\ jobLock' = [jobLock EXCEPT ![j] = w]
          /\ hand' = [hand EXCEPT ![w] = j]
          /\ todo' = [todo EXCEPT ![w] = @ \ {j}]
    /\ Goto(w, "look")
    /\ UNCHANGED <<db, outLock, budgetLock, today, seen, payday, outcome,
                   edits, faults>>

EndCall(w) ==
    /\ pc[w] = "next" /\ todo[w] = {}
    /\ Goto(w, "idle")
    /\ UNCHANGED <<db, locks, today, todo, tx, edits, faults>>

\* The target and its anchor event are read; without them nothing is done.
ReadTarget(w) ==
    /\ pc[w] = "look"
    /\ \/ seen' = [seen EXCEPT ![w] = attrs[Target(w)]] /\ Goto(w, "charge")
       \/ Goto(w, "commit") /\ UNCHANGED seen
    /\ UNCHANGED <<db, locks, today, todo, hand, payday, outcome, edits, faults>>

\* bug: the charge is a transaction of its own and keeps no lock.
ChargeReleasing(w) ==
    /\ pc[w] = "charge"
    /\ payday' = [payday EXCEPT ![w] = today]
    /\ Goto(w, IF used[today] < Cap THEN "llm" ELSE "commit")
    /\ UNCHANGED <<db, locks, today, todo, hand, seen, outcome, edits, faults>>

\* bug: the estimate is compared with the cap before it is added.
ChargeOffByOne(w) ==
    /\ pc[w] = "charge"
    /\ budgetLock[today] = Nobody
    /\ budgetLock' = [budgetLock EXCEPT ![today] = w]
    /\ IF used[today] <= Cap
       THEN payday' = [payday EXCEPT ![w] = today] /\ Goto(w, "llm")
       ELSE Goto(w, "commit") /\ UNCHANGED payday
    /\ UNCHANGED <<db, jobLock, outLock, today, todo, hand, seen, outcome,
                   edits, faults>>

\* check_and_charge waits for the day's budget row and keeps it locked; a
\* synthesis that does not fit leaves a failure event.
Charge(w) ==
    /\ pc[w] = "charge"
    /\ budgetLock[today] = Nobody
    /\ budgetLock' = [budgetLock EXCEPT ![today] = w]
    /\ IF used[today] < Cap
       THEN payday' = [payday EXCEPT ![w] = today] /\ Goto(w, "llm")
       ELSE Goto(w, "commit") /\ UNCHANGED payday
    /\ UNCHANGED <<db, jobLock, outLock, today, todo, hand, seen, outcome,
                   edits, faults>>

\* Up to two calls of the LLM; a text without valid citations leaves a failure
\* event, and the charge stays.
Phrase(w) ==
    /\ pc[w] = "llm"
    /\ \/ Goto(w, IF Target(w) \in Stakeholders THEN "brief" ELSE "select")
       \/ Goto(w, "commit")
    /\ UNCHANGED <<db, locks, today, todo, tx, edits, faults>>

SelectInsight(w) ==
    /\ pc[w] = "select"
    /\ Goto(w, IF insight[Target(w)] = 0 THEN "insert" ELSE "update")
    /\ UNCHANGED <<db, locks, today, todo, tx, edits, faults>>

\* The INSERT of an insight, its UPDATE, or the UPDATE of the node's
\* attributes. An INSERT that meets a committed row of the same dedup_key
\* violates the unique index.
WriteText(w) ==
    /\ pc[w] \in {"insert", "update", "brief"}
    /\ outLock[Target(w)] = Nobody
    /\ \/ /\ pc[w] = "insert" /\ insight[Target(w)] # 0
          /\ Goto(w, "broken")
          /\ UNCHANGED <<outLock, outcome>>
       \/ /\ pc[w] # "insert" \/ insight[Target(w)] = 0
          /\ outLock' = [outLock EXCEPT ![Target(w)] = w]
          /\ outcome' = [outcome EXCEPT ![w] = "done"]
          /\ Goto(w, "commit")
    /\ UNCHANGED <<db, jobLock, budgetLock, today, todo, hand, seen, payday,
                   edits, faults>>

\* The commit that settles the job makes the text and the charge visible.
CommitJob(w) ==
    /\ pc[w] = "commit"
    /\ LET t == Target(w)
           written == outLock[t] = w
       IN  /\ insight' = [insight EXCEPT ![t] =
                  IF written /\ t \notin Stakeholders /\ @ = 0 THEN payday[w] ELSE @]
           /\ attrs' = [attrs EXCEPT ![t] =
                  IF written /\ t \in Stakeholders
                  THEN [edit |-> seen[w].edit, brief |-> TRUE] ELSE @]
    /\ status' = [status EXCEPT ![hand[w]] = outcome[w]]
    /\ used' = [d \in Days |-> IF d = payday[w] THEN used[d] + 1 ELSE used[d]]
    /\ Goto(w, "next")
    /\ Release(w)
    /\ UNCHANGED <<today, todo, edits, faults>>

\* An exception that is not the database's fails the job; what the transaction
\* flushed so far is committed with it.
Raise(w) ==
    /\ pc[w] \in {"look", "charge", "llm", "select"}
    /\ faults > 0 /\ faults' = faults - 1
    /\ Goto(w, "commit")
    /\ UNCHANGED <<db, locks, today, todo, tx, edits>>

\* A statement the database refuses aborts the transaction.
StatementRaises(w) ==
    /\ pc[w] \in {"look", "charge", "select", "insert", "update", "brief"}
    /\ faults > 0 /\ faults' = faults - 1
    /\ Goto(w, "broken")
    /\ UNCHANGED <<db, locks, today, todo, tx, edits>>

\* bug: the session is not closed.
EndBrokenOpen(w) ==
    /\ pc[w] = "broken"
    /\ Goto(w, "idle")
    /\ todo' = [todo EXCEPT ![w] = {}]
    /\ UNCHANGED <<db, locks, today, tx, edits, faults>>

\* The commit of the failed status raises in the aborted transaction, so the
\* request ends with it, and the session's close rolls back.
EndBroken(w) ==
    /\ pc[w] = "broken"
    /\ Goto(w, "idle")
    /\ todo' = [todo EXCEPT ![w] = {}]
    /\ Release(w)
    /\ UNCHANGED <<db, today, edits, faults>>

\* The process dies; the database rolls the open transaction back.
Crash(w) ==
    /\ pc[w] # "idle"
    /\ faults > 0 /\ faults' = faults - 1
    /\ Goto(w, "idle")
    /\ todo' = [todo EXCEPT ![w] = {}]
    /\ Release(w)
    /\ UNCHANGED <<db, today, edits>>

Step(w) ==
    ReadJobs(w) \/ StartJob(w) \/ EndCall(w) \/ ReadTarget(w) \/ Charge(w)
    \/ Phrase(w) \/ SelectInsight(w) \/ WriteText(w) \/ CommitJob(w) \/ EndBroken(w)

Next ==
    \/ \E w \in Drains : Step(w) \/ Raise(w) \/ StatementRaises(w) \/ Crash(w)
    \/ \E j \in Jobs : Enqueue(j)
    \/ \E t \in Targets : EditNode(t)
    \/ Midnight

Spec == Init /\ [][Next]_vars

\* The drain is called again as long as jobs are pending, and its steps end:
\* an LLM call has a timeout of its own.
Fairness == \A w \in Drains : WF_vars(Step(w))
FairSpec == Spec /\ Fairness

-----------------------------------------------------------------------------
(* Properties *)

\* The check-then-insert on dedup_key collides only with an insight of another
\* day's drain: between the SELECT and the commit the drain holds the budget
\* row of the day it charged, and so keeps every other drain of that day out.
InsertCollidesOnlyAcrossMidnight ==
    \A w \in Drains : pc[w] = "insert" /\ insight[Target(w)] # 0
                      => insight[Target(w)] # payday[w]

\* A job is settled whole or not at all: a job committed as done has its
\* insight, and one nobody settled is pending, for the next drain to find,
\* wherever the drain died.
JobsAreSettledWhole ==
    \A j \in Jobs :
       /\ status[j] = "done" /\ TargetOf[j] \notin Stakeholders
             => insight[TargetOf[j]] # 0
       /\ status[j] # "running"

\* Every job is settled in the end, and for good, if drains are called and
\* faults cease: no drain waits for ever for a job, the budget or an insight.
QueueDrains == <>[](PendingJobs = {})
=============================================================================
