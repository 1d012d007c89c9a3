--------------------------- MODULE EmbeddingQueue ---------------------------
(***************************************************************************)
(* The embedding backfill queue of the control plane: the trigger that     *)
(* enqueues a job whenever a source row is inserted or updated             *)
(* (alembic 0050), the worker that drains the queue                        *)
(* (workers/embedder.py) in one transaction per tick (cli/embedder.py),    *)
(* the requests that write source rows, and the integration kill switch    *)
(* that purges pending jobs.                                               *)
(*                                                                         *)
(* Postgres is modelled by what these transactions rely on.  A row has a   *)
(* committed version and a tip, the version its lock holder has written    *)
(* and not yet committed; without a holder the two are equal.  Locks last  *)
(* to the end of the transaction.  A statement whose row is locked waits;  *)
(* a cycle of waits is broken by aborting one member.  A statement that    *)
(* raises aborts its whole transaction, because nobody uses savepoints.    *)
(***************************************************************************)
EXTENDS Integers, FiniteSets

CONSTANTS
    Rows,         \* source rows, numbered by embedding_jobs.created_at
    Texts,        \* texts that can be embedded
    Blank,        \* a composed text that is empty
    Absent,       \* a row not inserted yet
    Gone,         \* a deleted row
    NoVector,     \* embedding IS NULL
    Free,         \* nobody holds the lock
    Workers,      \* replicas of the embedder
    Writers,      \* requests that write a source row
    Purger,       \* the kill switch request
    TableOf,      \* the source table of a row
    BatchSize,    \* jobs claimed by a tick
    MaxAttempts,  \* attempts after which a job is failed
    MaxFaults     \* bound: crashes and transient SQL errors in a behaviour

Procs == Workers \cup Writers \cup {Purger}
Stored == Texts \cup {Blank}
Statuses == {"none", "queued", "running", "done", "failed"}

ASSUME RowsAssumption == Rows \subseteq Nat /\ IsFiniteSet(Rows)
ASSUME BoundsAssumption ==
    BatchSize \in Nat \ {0} /\ MaxAttempts \in Nat \ {0} /\ MaxFaults \in Nat
ASSUME TextsAssumption ==
    /\ Blank \notin Texts /\ Absent \notin Stored /\ Gone \notin Stored
    /\ Absent # Gone /\ NoVector \notin Texts
ASSUME ProcsAssumption ==
    /\ Workers \cap Writers = {} /\ Purger \notin Workers \cup Writers
    /\ Free \notin Procs

VARIABLES
    src,      \* committed source rows: text, and the text of their vector
    srcTip,   \* the same, with the lock holder's uncommitted change
    job,      \* committed embedding_jobs rows ("none": no such row)
    jobTip,   \* the same, with the lock holder's uncommitted change
    srcLock,  \* holder of the row lock of a source row
    jobLock,  \* holder of the row lock of a job
    pc,       \* where every process is
    todo,     \* rows of the batch whose group has not been fetched
    group,    \* rows of the current group, to embed and write back
    seen,     \* the text a worker fetched for a row
    target,   \* the rows a writer or the purger still has to visit
    faults    \* crashes and transient errors left

committed == <<src, job>>
tips == <<srcTip, jobTip>>
locks == <<srcLock, jobLock>>
local == <<todo, group, seen>>
vars == <<src, srcTip, job, jobTip, srcLock, jobLock, pc, todo, group, seen,
          target, faults>>

Job(s, n) == [status |-> s, attempts |-> n]
Sources == [text : Stored \cup {Absent, Gone}, vector : Texts \cup {NoVector}]
Jobs == [status : Statuses, attempts : 0..MaxAttempts]

TypeOK ==
    /\ src \in [Rows -> Sources] /\ srcTip \in [Rows -> Sources]
    /\ job \in [Rows -> Jobs] /\ jobTip \in [Rows -> Jobs]
    /\ srcLock \in [Rows -> Procs \cup {Free}]
    /\ jobLock \in [Rows -> Procs \cup {Free}]
    /\ pc \in [Procs -> {"idle", "fetch", "embed", "write", "raised",
                         "trigger", "open", "purge"}]
    /\ todo \in [Workers -> SUBSET Rows] /\ group \in [Workers -> SUBSET Rows]
    /\ seen \in [Workers -> [Rows -> Texts \cup {NoVector}]]
    /\ target \in [Writers \cup {Purger} -> SUBSET Rows]
    /\ faults \in 0..MaxFaults

Init ==
    /\ src = [r \in Rows |-> [text |-> Absent, vector |-> NoVector]]
    /\ srcTip = src
    /\ job = [r \in Rows |-> Job("none", 0)]
    /\ jobTip = job
    /\ srcLock = [r \in Rows |-> Free]
    /\ jobLock = [r \in Rows |-> Free]
    /\ pc = [p \in Procs |-> "idle"]
    /\ todo = [w \in Workers |-> {}]
    /\ group = [w \in Workers |-> {}]
    /\ seen = [w \in Workers |-> [r \in Rows |-> NoVector]]
    /\ target = [p \in Writers \cup {Purger} |-> {}]
    /\ faults = MaxFaults

-----------------------------------------------------------------------------
(* Transactions *)

Lockable(lock, r, p) == lock[r] \in {Free, p}
Goto(p, l) == pc' = [pc EXCEPT ![p] = l]
Oldest(S) == CHOOSE r \in S : \A q \in S : r <= q

Release(p) ==
    /\ srcLock' = [r \in Rows |-> IF srcLock[r] = p THEN Free ELSE srcLock[r]]
    /\ jobLock' = [r \in Rows |-> IF jobLock[r] = p THEN Free ELSE jobLock[r]]

Commit(p) ==
    /\ src' = [r \in Rows |-> IF srcLock[r] = p THEN srcTip[r] ELSE src[r]]
    /\ job' = [r \in Rows |-> IF jobLock[r] = p THEN jobTip[r] ELSE job[r]]
    /\ Release(p)
    /\ UNCHANGED tips

(* A definition whose comment starts with "bug:" is a plausible mistake the *)
(* properties are tested against; the specification uses none of them.      *)

(* bug: the session of a failed tick is never closed. *)
RollbackLeakingLocks(p) ==
    /\ srcTip' = [r \in Rows |-> IF srcLock[r] = p THEN src[r] ELSE srcTip[r]]
    /\ jobTip' = [r \in Rows |-> IF jobLock[r] = p THEN job[r] ELSE jobTip[r]]
    /\ UNCHANGED <<locks, committed>>

Rollback(p) ==
    /\ srcTip' = [r \in Rows |-> IF srcLock[r] = p THEN src[r] ELSE srcTip[r]]
    /\ jobTip' = [r \in Rows |-> IF jobLock[r] = p THEN job[r] ELSE jobTip[r]]
    /\ Release(p)
    /\ UNCHANGED committed

-----------------------------------------------------------------------------
(* Job rows *)

(* bug: ON CONFLICT DO NOTHING. *)
EnqueueOnce(j) == IF j.status = "none" THEN Job("queued", 0) ELSE j

(* deployai_enqueue_embedding_job: INSERT ... ON CONFLICT DO UPDATE. *)
Enqueue(j) == Job("queued", 0)

(* bug: done is written before the vector, and the trigger overwrites it. *)
MarkDoneFirst(j) == Job("queued", 0)

(* bug: a status the table's CHECK does not list. *)
MarkCompleted(j) == [j EXCEPT !.status = "completed"]

(* _mark_done writes the status only: attempts keeps what the trigger of *)
(* the worker's own UPDATE has just reset.                               *)
MarkDone(j) == [j EXCEPT !.status = "done"]

(* bug: one attempt too many. *)
MarkFailureLate(j) ==
    [j EXCEPT !.status = IF j.attempts > MaxAttempts THEN "failed" ELSE "queued"]

(* bug: one attempt too few. *)
MarkFailureEarly(j) ==
    [j EXCEPT !.status = IF j.attempts >= MaxAttempts - 1 THEN "failed" ELSE "queued"]

(* _mark_failure: retry or give up, by the attempts read at the claim. *)
MarkFailure(j) ==
    [j EXCEPT !.status = IF j.attempts >= MaxAttempts THEN "failed" ELSE "queued"]

-----------------------------------------------------------------------------
(* The worker: one tick is one transaction *)

Claimable == {r \in Rows : /\ jobLock[r] = Free
                           /\ job[r].status = "queued"
                           /\ job[r].attempts < MaxAttempts}

(* ORDER BY created_at LIMIT batch FOR UPDATE SKIP LOCKED *)
NextBatch == {r \in Claimable :
                 Cardinality({q \in Claimable : q < r}) < BatchSize}

(* _claim_jobs: lock the batch, flip it to running, count the attempt. *)
Claim(w) ==
    /\ pc[w] = "idle"
    /\ NextBatch # {}
    /\ jobLock' = [r \in Rows |-> IF r \in NextBatch THEN w ELSE jobLock[r]]
    /\ jobTip' = [r \in Rows |->
                    IF r \in NextBatch THEN Job("running", job[r].attempts + 1)
                    ELSE jobTip[r]]
    /\ todo' = [todo EXCEPT ![w] = NextBatch]
    /\ Goto(w, "fetch")
    /\ UNCHANGED <<committed, srcTip, srcLock, group, seen, target, faults>>

NextGroup(w) == {r \in todo[w] : TableOf[r] = TableOf[Oldest(todo[w])]}

(* bug: an empty composed text is embedded like any other. *)
EmbeddableOrBlank(S) == {r \in S : src[r].text \in Stored}

Embeddable(S) == {r \in S : src[r].text \in Texts}

(* _process_group up to the Voyage call: read the committed texts of one  *)
(* table's jobs; a row that is gone or blank fails its job and no other.  *)
FetchTexts(w) ==
    /\ pc[w] = "fetch" /\ todo[w] # {}
    /\ LET jobs == NextGroup(w)
           embed == Embeddable(jobs)
       IN /\ todo' = [todo EXCEPT ![w] = @ \ jobs]
          /\ group' = [group EXCEPT ![w] = embed]
          /\ seen' = [seen EXCEPT ![w] =
                        [r \in Rows |-> IF r \in embed THEN src[r].text ELSE NoVector]]
          /\ jobTip' = [r \in Rows |-> IF r \in jobs \ embed
                                       THEN MarkFailure(jobTip[r]) ELSE jobTip[r]]
          /\ Goto(w, IF embed = {} THEN "fetch" ELSE "embed")
    /\ UNCHANGED <<committed, srcTip, locks, target, faults>>

VoyageAnswers(w) ==
    /\ pc[w] = "embed"
    /\ Goto(w, "write")
    /\ UNCHANGED <<committed, tips, locks, local, target, faults>>

(* A Voyage error, an unexpected exception or a wrong vector count fails *)
(* every job of the group.                                               *)
VoyageFails(w) ==
    /\ pc[w] = "embed"
    /\ jobTip' = [r \in Rows |-> IF r \in group[w] THEN MarkFailure(jobTip[r])
                                 ELSE jobTip[r]]
    /\ group' = [group EXCEPT ![w] = {}]
    /\ seen' = [seen EXCEPT ![w] = [r \in Rows |-> NoVector]]
    /\ Goto(w, "fetch")
    /\ UNCHANGED <<committed, srcTip, locks, todo, target, faults>>

RowDone(w, r) ==
    /\ group' = [group EXCEPT ![w] = @ \ {r}]
    /\ seen' = [seen EXCEPT ![w][r] = NoVector]
    /\ Goto(w, IF group[w] = {r} THEN "fetch" ELSE "write")

(* _write_vector then _mark_done.  The UPDATE fires the enqueue trigger on *)
(* the job the worker itself holds, so the order of the two matters; a     *)
(* deleted row matches nothing and fires nothing.                          *)
WriteBack(w) ==
    /\ pc[w] = "write"
    /\ LET r == Oldest(group[w])
       IN /\ Lockable(srcLock, r, w)
          /\ IF src[r].text = Gone
             THEN /\ jobTip' = [jobTip EXCEPT ![r] = MarkDone(@)]
                  /\ UNCHANGED <<srcTip, srcLock>>
             ELSE /\ srcTip' = [srcTip EXCEPT ![r].vector = seen[w][r]]
                  /\ srcLock' = [srcLock EXCEPT ![r] = w]
                  /\ jobTip' = [jobTip EXCEPT ![r] = MarkDone(Enqueue(@))]
          /\ RowDone(w, r)
    /\ UNCHANGED <<committed, jobLock, todo, target, faults>>

(* A vector of the wrong dimension raises before any statement. *)
RejectVector(w) ==
    /\ pc[w] = "write"
    /\ LET r == Oldest(group[w])
       IN /\ jobTip' = [jobTip EXCEPT ![r] = MarkFailure(@)]
          /\ RowDone(w, r)
    /\ UNCHANGED <<committed, srcTip, locks, todo, target, faults>>

EndTick(w, l) ==
    /\ todo' = [todo EXCEPT ![w] = {}]
    /\ group' = [group EXCEPT ![w] = {}]
    /\ seen' = [seen EXCEPT ![w] = [r \in Rows |-> NoVector]]
    /\ Goto(w, l)

CommitTick(w) ==
    /\ pc[w] = "fetch" /\ todo[w] = {}
    /\ Commit(w)
    /\ EndTick(w, "idle")
    /\ UNCHANGED <<target, faults>>

(* A statement raises: the handler's own _mark_failure then raises too, the *)
(* exception leaves run_embedder_tick and the loop rolls everything back.   *)
StatementRaises(w) ==
    /\ pc[w] \in {"fetch", "write"}
    /\ faults > 0 /\ faults' = faults - 1
    /\ Rollback(w)
    /\ EndTick(w, "raised")
    /\ UNCHANGED target

(* ERROR_BACKOFF_S is over: the loop polls again. *)
Resume(w) ==
    /\ pc[w] = "raised"
    /\ Goto(w, "idle")
    /\ UNCHANGED <<committed, tips, locks, local, target, faults>>

(* The process dies in a tick and is started again. *)
CrashWorker(w) ==
    /\ pc[w] \notin {"idle", "raised"} /\ faults > 0
    /\ faults' = faults - 1
    /\ Rollback(w)
    /\ EndTick(w, "idle")
    /\ UNCHANGED target

-----------------------------------------------------------------------------
(* Requests that write a source row *)

WriteSource(p, r, t) ==
    /\ pc[p] = "idle"
    /\ srcLock[r] = Free /\ src[r].text # Gone
    /\ srcLock' = [srcLock EXCEPT ![r] = p]
    /\ srcTip' = [srcTip EXCEPT ![r].text = t]
    /\ target' = [target EXCEPT ![p] = {r}]
    /\ Goto(p, "trigger")
    /\ UNCHANGED <<committed, jobTip, jobLock, local, faults>>

(* The AFTER trigger of the same statement; it waits for the job's lock. *)
EnqueueTrigger(p) ==
    /\ pc[p] = "trigger"
    /\ \E r \in target[p] :
         /\ Lockable(jobLock, r, p)
         /\ jobLock' = [jobLock EXCEPT ![r] = p]
         /\ jobTip' = [jobTip EXCEPT ![r] = Enqueue(@)]
    /\ target' = [target EXCEPT ![p] = {}]
    /\ Goto(p, "open")
    /\ UNCHANGED <<committed, srcTip, srcLock, local, faults>>

DeleteSource(p, r) ==
    /\ pc[p] = "idle"
    /\ srcLock[r] = Free /\ src[r].text \in Stored
    /\ srcLock' = [srcLock EXCEPT ![r] = p]
    /\ srcTip' = [srcTip EXCEPT ![r] = [text |-> Gone, vector |-> NoVector]]
    /\ Goto(p, "open")
    /\ UNCHANGED <<committed, jobTip, jobLock, local, target, faults>>

CommitRequest(p) ==
    /\ pc[p] = "open"
    /\ Commit(p)
    /\ Goto(p, "idle")
    /\ UNCHANGED <<local, target, faults>>

(* The request raises later on and its session is rolled back. *)
AbortRequest(p) ==
    /\ pc[p] \in {"trigger", "open"} /\ faults > 0
    /\ faults' = faults - 1
    /\ Rollback(p)
    /\ target' = [target EXCEPT ![p] = {}]
    /\ Goto(p, "idle")
    /\ UNCHANGED local

-----------------------------------------------------------------------------
(* The kill switch: DELETE FROM embedding_jobs WHERE status IN pending *)

StartPurge ==
    /\ pc[Purger] = "idle"
    /\ target' = [target EXCEPT ![Purger] =
                    {r \in Rows : job[r].status \in {"queued", "running"}}]
    /\ target'[Purger] # {}
    /\ Goto(Purger, "purge")
    /\ UNCHANGED <<committed, tips, locks, local, faults>>

(* Wait for the row, then test its new version again. *)
PurgeJob ==
    /\ pc[Purger] = "purge" /\ target[Purger] # {}
    /\ LET r == Oldest(target[Purger])
       IN /\ Lockable(jobLock, r, Purger)
          /\ target' = [target EXCEPT ![Purger] = @ \ {r}]
          /\ IF job[r].status \in {"queued", "running"}
             THEN /\ jobLock' = [jobLock EXCEPT ![r] = Purger]
                  /\ jobTip' = [jobTip EXCEPT ![r] = Job("none", 0)]
             ELSE UNCHANGED <<jobLock, jobTip>>
    /\ UNCHANGED <<committed, srcTip, srcLock, pc, local, faults>>

CommitPurge ==
    /\ pc[Purger] = "purge" /\ target[Purger] = {}
    /\ Commit(Purger)
    /\ Goto(Purger, "idle")
    /\ UNCHANGED <<local, target, faults>>

-----------------------------------------------------------------------------
(* The deadlock detector *)

(* The process whose lock p waits for, or Free. *)
WaitsFor(p) ==
    CASE pc[p] = "write" -> srcLock[Oldest(group[p])]
      [] pc[p] \in {"trigger", "purge"} /\ target[p] # {} ->
            jobLock[Oldest(target[p])]
      [] OTHER -> Free

InWaitCycle(p) ==
    /\ WaitsFor(p) # Free
    /\ \E S \in SUBSET Procs : p \in S /\ {WaitsFor(q) : q \in S} = S

(* Postgres aborts a member of the cycle. *)
DeadlockVictim(p) ==
    /\ InWaitCycle(p)
    /\ Rollback(p)
    /\ IF p \in Workers
       THEN EndTick(p, "raised") /\ UNCHANGED target
       ELSE /\ target' = [target EXCEPT ![p] = {}]
            /\ Goto(p, "idle")
            /\ UNCHANGED local
    /\ UNCHANGED faults

-----------------------------------------------------------------------------
Tick(w) ==
    \/ Claim(w) \/ FetchTexts(w) \/ VoyageAnswers(w) \/ VoyageFails(w)
    \/ WriteBack(w) \/ RejectVector(w) \/ CommitTick(w) \/ Resume(w)

Next ==
    \/ \E w \in Workers : Tick(w) \/ StatementRaises(w) \/ CrashWorker(w)
    \/ \E p \in Writers :
         \/ \E r \in Rows : DeleteSource(p, r) \/ \E t \in Stored : WriteSource(p, r, t)
         \/ EnqueueTrigger(p) \/ CommitRequest(p) \/ AbortRequest(p)
    \/ StartPurge \/ PurgeJob \/ CommitPurge
    \/ \E p \in Procs : DeadlockVictim(p)

Spec == Init /\ [][Next]_vars

(* The worker's loop keeps polling, and the Voyage client always returns:   *)
(* it has a timeout and a bounded number of retries.  An admitted request   *)
(* runs to its commit.  Lock waits are strongly fair: Postgres hands a freed *)
(* lock to the first in line, and SKIP LOCKED passes over a row somebody is  *)
(* waiting for.  The detector breaks every cycle; nothing else need do so: a *)
(* vector is rejected before its UPDATE waits, and need not be rejected.     *)
Fairness ==
    /\ \A w \in Workers : WF_vars(Tick(w) /\ ~RejectVector(w))
    /\ \A p \in Writers : SF_vars(EnqueueTrigger(p)) /\ WF_vars(CommitRequest(p))
    /\ SF_vars(PurgeJob) /\ WF_vars(CommitPurge)
    /\ \A p \in Procs : WF_vars(DeadlockVictim(p))

FairSpec == Spec /\ Fairness

-----------------------------------------------------------------------------
(* Properties *)

(* Freshness: a job that is done in the database means that the row's      *)
(* embedding was computed from the text the row has in the database, or    *)
(* that the row is gone.  Between the fetch and the write-back lies a call *)
(* to Voyage during which requests edit rows, so this rests on the job     *)
(* lock held from the claim on, on the trigger waiting for it and on       *)
(* marking done after the trigger of the worker's own UPDATE.              *)
DoneIsFresh ==
    \A r \in Rows : job[r].status = "done" =>
        src[r].text = Gone \/ src[r].vector = src[r].text

(* No job is stranded: one that is neither done nor failed is one the next *)
(* claim can pick.  "running", or "queued" with its attempts spent, would  *)
(* be skipped by every later tick.                                         *)
UnfinishedIsClaimable ==
    \A r \in Rows : job[r].status \in {"none", "done", "failed"} \/
        (job[r].status = "queued" /\ job[r].attempts < MaxAttempts)

(* A job is given up only by the commit of its MaxAttempts-th failure since *)
(* the row was last written.                                                *)
FailsOnlyWhenSpent ==
    [][\A r \in Rows : job'[r].status = "failed" /\ job[r].status # "failed" =>
         /\ job'[r].attempts = MaxAttempts
         /\ job[r].status = "queued" /\ job[r].attempts = MaxAttempts - 1]_vars

(* The committed rows behave as EmbeddingIndex promises. *)
PhaseOf(j) == CASE j.status \in {"queued", "running"} -> "due"
                [] j.status = "done" -> "indexed"
                [] j.status = "failed" -> "abandoned"
                [] OTHER -> "none"

Index == INSTANCE EmbeddingIndex WITH
            text <- [r \in Rows |-> src[r].text],
            vector <- [r \in Rows |-> src[r].vector],
            phase <- [r \in Rows |-> PhaseOf(job[r])]

ImplementsIndex == Index!IndexSpec

(* The queue drains: once the requests stop, every job is done, failed or *)
(* purged for good.                                                       *)
QueueDrains ==
    (<>[](\A p \in Writers : pc[p] = "idle"))
        => <>[](\A r \in Rows : job[r].status # "queued")

(* A request waiting in the trigger for a job a worker holds is not stuck: *)
(* it gets the lock or is rolled back.                                     *)
RequestsFinish == \A p \in Writers : pc[p] = "trigger" ~> pc[p] = "idle"
=============================================================================
