------------------------ MODULE EmbeddingQueueProofs ------------------------
(***************************************************************************)
(* Safety of the embedding queue for every set of rows, texts, workers and *)
(* requests, every batch size and every retry limit.                       *)
(*                                                                         *)
(* The argument: a worker holds the job lock of every row of its batch     *)
(* from the claim to the end of its transaction (WorkerInv), and a request *)
(* commits a new text only together with the job it has re-queued under    *)
(* that same lock (RequestInv).  So a text a worker fetched is the         *)
(* committed text until the worker's transaction ends, unless the row is   *)
(* deleted, and a job it marks done carries that text's vector (HeldInv).  *)
(***************************************************************************)
EXTENDS EmbeddingQueue, WellFoundedInduction, TLAPS

(* Without a holder there is no uncommitted change; nobody locks a deleted *)
(* row.                                                                    *)
TipsInv ==
    \A r \in Rows :
        /\ srcLock[r] = Free => srcTip[r] = src[r]
        /\ jobLock[r] = Free => jobTip[r] = job[r]
        /\ srcLock[r] # Free => src[r].text # Gone

(* What a worker has in hand. *)
WorkerInv ==
    \A w \in Workers :
        /\ \A r \in todo[w] \cup group[w] : jobLock[r] = w
        /\ pc[w] \in {"idle", "raised"} => todo[w] = {}
        /\ pc[w] \in {"idle", "raised", "fetch"} => group[w] = {}
        /\ pc[w] \in {"embed", "write"} => group[w] # {}
        /\ pc[w] \in {"idle", "raised", "fetch", "embed", "write"}
        /\ \A r \in group[w] :
              seen[w][r] \in Texts /\ src[r].text \in {seen[w][r], Gone}

(* What the transaction of a worker has written. *)
HeldInv ==
    \A w \in Workers : \A r \in Rows :
        /\ srcLock[r] = w => jobLock[r] = w /\ srcTip[r].text = src[r].text
        /\ jobLock[r] = w /\ jobTip[r].status = "running" => r \in todo[w] \cup group[w]
        /\ jobLock[r] = w /\ jobTip[r].status = "done" =>
              \/ src[r].text = Gone
              \/ srcLock[r] = w /\ srcTip[r].vector = src[r].text

(* What the transaction of a request or of the kill switch has written. *)
RequestInv ==
    \A r \in Rows :
        /\ \A p \in Writers :
              /\ jobLock[r] = p => jobTip[r] = Job("queued", 0)
              /\ srcLock[r] = p => \/ pc[p] = "trigger" /\ target[p] = {r}
                                   \/ pc[p] = "open" /\ (jobLock[r] = p \/ srcTip[r].text = Gone)
        /\ jobLock[r] = Purger => jobTip[r] = Job("none", 0)
        /\ srcLock[r] # Purger

(* A queued job, committed or not, has an attempt left. *)
AttemptsInv == \A r \in Rows : jobTip[r].status = "queued" => jobTip[r].attempts < MaxAttempts

IInv == /\ TypeOK /\ TipsInv /\ WorkerInv /\ HeldInv /\ RequestInv /\ AttemptsInv
        /\ DoneIsFresh /\ UnfinishedIsClaimable

-----------------------------------------------------------------------------
(* Oldest picks a member: a non-empty set of row numbers has a least one. *)
LEMMA OldestIn ==
  ASSUME NEW S, S \subseteq Rows, S # {}
  PROVE  Oldest(S) \in S
<1>1. PICK r \in S : \A q \in S : ~(<<q, r>> \in OpToRel(<, Nat))
  BY RowsAssumption, NatLessThanWellFounded, WFMin
<1>2. ASSUME NEW q \in S PROVE r <= q
  <2>1. ~(q < r)
    <3> SUFFICES ASSUME q < r PROVE <<q, r>> \in OpToRel(<, Nat)
      BY <1>1
    <3> QED
      BY RowsAssumption DEF OpToRel
  <2> QED
    BY <2>1, RowsAssumption
<1> QED
  BY <1>2 DEF Oldest

(* The initial state is well typed. *)
LEMMA TypeInit == Init => TypeOK
  BY BoundsAssumption
     DEF Init, TypeOK, Sources, Jobs, Job, Statuses, Stored

(* Nothing is locked, claimed or written in the initial state. *)
LEMMA InitInv == Init => IInv
<1> SUFFICES ASSUME Init PROVE IInv
  OBVIOUS
<1>1. TypeOK
  BY TypeInit
<1>2. TipsInv /\ WorkerInv /\ HeldInv /\ RequestInv
  BY ProcsAssumption
     DEF Init, TipsInv, WorkerInv, HeldInv, RequestInv, Procs, Job
<1>3. AttemptsInv /\ DoneIsFresh /\ UnfinishedIsClaimable
  BY DEF Init, AttemptsInv, DoneIsFresh, UnfinishedIsClaimable, Job
<1> QED
  BY <1>1, <1>2, <1>3 DEF IInv

(* What the operations on a job row return. *)
LEMMA JobOps ==
  ASSUME NEW j \in Jobs
  PROVE  /\ Enqueue(j) = Job("queued", 0) /\ Job("queued", 0) \in Jobs
         /\ Job("none", 0) \in Jobs
         /\ MarkDone(j) \in Jobs /\ MarkDone(j).status = "done"
         /\ MarkFailure(j) \in Jobs /\ MarkFailure(j).status \in {"queued", "failed"}
         /\ MarkFailure(j).status = "queued" => MarkFailure(j).attempts < MaxAttempts
  BY BoundsAssumption DEF Jobs, Job, Statuses, Enqueue, MarkDone, MarkFailure

(* Claiming locks free queued rows and has one more attempt for each. *)
LEMMA ClaimStep ==
  ASSUME IInv, NEW w \in Workers, Claim(w)
  PROVE  IInv'
<1> USE ProcsAssumption, TextsAssumption DEF IInv, Procs, Claim, Goto, committed, NextBatch, Claimable
<1>1. TypeOK'
  BY BoundsAssumption DEF TypeOK, Job, Jobs, Statuses, Sources, Stored
<1>2. TipsInv'
  BY DEF TypeOK, TipsInv, WorkerInv
<1>3. WorkerInv'
  BY DEF TypeOK, WorkerInv, HeldInv, RequestInv
<1>4. HeldInv'
  BY DEF TypeOK, HeldInv, WorkerInv, RequestInv, TipsInv, Job, Jobs, Sources
<1>5. RequestInv'
  BY DEF TypeOK, RequestInv, WorkerInv, Job
<1>6. AttemptsInv'
  BY BoundsAssumption DEF TypeOK, AttemptsInv, UnfinishedIsClaimable, Job, Jobs
<1>7. DoneIsFresh' /\ UnfinishedIsClaimable'
  BY DEF DoneIsFresh, UnfinishedIsClaimable
<1> QED
  BY <1>1, <1>2, <1>3, <1>4, <1>5, <1>6, <1>7

(* Fetching reads committed texts of rows the worker holds. *)
LEMMA FetchStep ==
  ASSUME IInv, NEW w \in Workers, FetchTexts(w)
  PROVE  IInv'
<1> USE ProcsAssumption, TextsAssumption DEF IInv, Procs, FetchTexts, Goto, committed, locks, NextGroup, Embeddable
<1>1. TypeOK'
  BY JobOps, BoundsAssumption DEF TypeOK
<1>2. TipsInv'
  BY JobOps DEF TypeOK, TipsInv, WorkerInv
<1>3. WorkerInv'
  BY JobOps DEF TypeOK, WorkerInv, HeldInv, RequestInv
<1>4. HeldInv'
  BY DEF TypeOK, HeldInv, WorkerInv, MarkFailure, Jobs
<1>5. RequestInv'
  BY JobOps DEF TypeOK, RequestInv, WorkerInv, Job
<1>6. AttemptsInv'
  BY JobOps, BoundsAssumption DEF TypeOK, AttemptsInv, UnfinishedIsClaimable, Job
<1>7. DoneIsFresh' /\ UnfinishedIsClaimable'
  BY JobOps DEF DoneIsFresh, UnfinishedIsClaimable
<1> QED
  BY <1>1, <1>2, <1>3, <1>4, <1>5, <1>6, <1>7

(* The answer moves the worker on; its texts are still the committed ones. *)
LEMMA VoyageAnswersStep ==
  ASSUME IInv, NEW w \in Workers, VoyageAnswers(w)
  PROVE  IInv'
<1> USE ProcsAssumption, TextsAssumption DEF IInv, Procs, VoyageAnswers, Goto, committed, tips, locks, local
<1>1. TypeOK'
  BY BoundsAssumption DEF TypeOK, Job, Jobs, Statuses, Sources, Stored
<1>2. TipsInv'
  BY DEF TypeOK, TipsInv, WorkerInv
<1>3. WorkerInv'
  BY DEF TypeOK, WorkerInv, HeldInv, RequestInv
<1>4. HeldInv'
  BY DEF TypeOK, HeldInv, WorkerInv, RequestInv, TipsInv, Job, Jobs, Sources
<1>5. RequestInv'
  BY DEF TypeOK, RequestInv, WorkerInv, Job
<1>6. AttemptsInv'
  BY BoundsAssumption DEF TypeOK, AttemptsInv, UnfinishedIsClaimable, Job, Jobs
<1>7. DoneIsFresh' /\ UnfinishedIsClaimable'
  BY DEF DoneIsFresh, UnfinishedIsClaimable
<1> QED
  BY <1>1, <1>2, <1>3, <1>4, <1>5, <1>6, <1>7

(* A failed call gives back the jobs of the group, still locked. *)
LEMMA VoyageFailsStep ==
  ASSUME IInv, NEW w \in Workers, VoyageFails(w)
  PROVE  IInv'
<1> USE ProcsAssumption, TextsAssumption DEF IInv, Procs, VoyageFails, Goto, committed, locks
<1>1. TypeOK'
  BY JobOps, BoundsAssumption DEF TypeOK
<1>2. TipsInv'
  BY JobOps DEF TypeOK, TipsInv, WorkerInv
<1>3. WorkerInv'
  BY JobOps DEF TypeOK, WorkerInv, HeldInv, RequestInv
<1>4. HeldInv'
  BY DEF TypeOK, HeldInv, WorkerInv, MarkFailure, Jobs
<1>5. RequestInv'
  BY JobOps DEF TypeOK, RequestInv, WorkerInv, Job
<1>6. AttemptsInv'
  BY JobOps, BoundsAssumption DEF TypeOK, AttemptsInv, UnfinishedIsClaimable, Job
<1>7. DoneIsFresh' /\ UnfinishedIsClaimable'
  BY JobOps DEF DoneIsFresh, UnfinishedIsClaimable
<1> QED
  BY <1>1, <1>2, <1>3, <1>4, <1>5, <1>6, <1>7

(* The heart of the argument: the vector written is that of the committed text. *)
LEMMA WriteBackStep ==
  ASSUME IInv, NEW w \in Workers, WriteBack(w)
  PROVE  IInv'
<1> USE ProcsAssumption, TextsAssumption DEF IInv, Procs, RowDone, Goto, committed
<1>r. PICK r \in group[w] :
          /\ srcLock[r] \in {Free, w}
          /\ IF src[r].text = Gone
             THEN /\ jobTip' = [jobTip EXCEPT ![r] = MarkDone(@)]
                  /\ UNCHANGED <<srcTip, srcLock>>
             ELSE /\ srcTip' = [srcTip EXCEPT ![r].vector = seen[w][r]]
                  /\ srcLock' = [srcLock EXCEPT ![r] = w]
                  /\ jobTip' = [jobTip EXCEPT ![r] = MarkDone(Enqueue(@))]
          /\ RowDone(w, r)
  BY OldestIn DEF TypeOK, WorkerInv, WriteBack, Lockable
<1>f. /\ pc[w] = "write" /\ r \in Rows
      /\ UNCHANGED <<committed, jobLock, todo, target, faults>>
  BY <1>r DEF TypeOK, WriteBack
<1>j. /\ jobTip' \in [Rows -> Jobs] /\ jobTip'[r].status = "done"
      /\ \A q \in Rows \ {r} : jobTip'[q] = jobTip[q]
  BY <1>r, <1>f, JobOps DEF TypeOK
<1>s. srcTip' \in [Rows -> Sources]
  <2>a. srcTip \in [Rows -> Sources] /\ seen[w] \in [Rows -> Texts \cup {NoVector}]
    BY DEF TypeOK
  <2>b. srcTip[r] \in Sources /\ seen[w][r] \in Texts \cup {NoVector}
    BY <2>a, <1>f
  <2>1. [srcTip[r] EXCEPT !.vector = seen[w][r]] \in Sources
    BY <2>b DEF Sources
  <2> QED
    BY <1>r, <1>f, <2>1 DEF TypeOK
<1>1. TypeOK'
  BY <1>r, <1>f, <1>j, <1>s DEF TypeOK
<1>2. TipsInv'
  BY <1>r, <1>f, JobOps DEF TypeOK, TipsInv, WorkerInv
<1>3. WorkerInv'
  BY <1>r, <1>f, JobOps DEF TypeOK, WorkerInv, HeldInv, RequestInv
<1>4. HeldInv'
  BY <1>r, <1>f, JobOps DEF TypeOK, HeldInv, WorkerInv, RequestInv, TipsInv, Job, Sources
<1>5. RequestInv'
  BY <1>r, <1>f, JobOps DEF TypeOK, RequestInv, WorkerInv, Job
<1>6. AttemptsInv'
  BY <1>f, <1>j DEF AttemptsInv
<1>7. DoneIsFresh' /\ UnfinishedIsClaimable'
  BY <1>r, <1>f, JobOps DEF DoneIsFresh, UnfinishedIsClaimable
<1> QED
  BY <1>1, <1>2, <1>3, <1>4, <1>5, <1>6, <1>7

(* A rejected vector fails its own job and leaves the row alone. *)
LEMMA RejectStep ==
  ASSUME IInv, NEW w \in Workers, RejectVector(w)
  PROVE  IInv'
<1> USE ProcsAssumption, TextsAssumption DEF IInv, Procs, RowDone, Goto, committed, locks
<1>r. PICK r \in group[w] : /\ jobTip' = [jobTip EXCEPT ![r] = MarkFailure(@)]
                             /\ RowDone(w, r)
  BY OldestIn DEF TypeOK, WorkerInv, RejectVector
<1>f. /\ pc[w] = "write" /\ r \in Rows
      /\ UNCHANGED <<committed, srcTip, locks, todo, target, faults>>
  BY <1>r DEF TypeOK, RejectVector
<1>j. MarkFailure(jobTip[r]).status \in {"queued", "failed"}
  BY <1>f, JobOps DEF TypeOK
<1>1. TypeOK'
  BY <1>r, <1>f, JobOps, BoundsAssumption DEF TypeOK
<1>2. TipsInv'
  BY <1>r, <1>f, JobOps DEF TypeOK, TipsInv, WorkerInv
<1>3. WorkerInv'
  BY <1>r, <1>f, JobOps DEF TypeOK, WorkerInv, HeldInv, RequestInv
<1>4. HeldInv'
  BY <1>r, <1>f, <1>j DEF TypeOK, HeldInv, WorkerInv, RequestInv, TipsInv, Job, Sources
<1>5. RequestInv'
  BY <1>r, <1>f, JobOps DEF TypeOK, RequestInv, WorkerInv, Job
<1>6. AttemptsInv'
  BY <1>r, <1>f, JobOps, BoundsAssumption DEF TypeOK, AttemptsInv, UnfinishedIsClaimable, Job
<1>7. DoneIsFresh' /\ UnfinishedIsClaimable'
  BY <1>r, <1>f, JobOps DEF DoneIsFresh, UnfinishedIsClaimable
<1> QED
  BY <1>1, <1>2, <1>3, <1>4, <1>5, <1>6, <1>7

(* Everything the tick holds is finished, so nothing running is committed. *)
LEMMA CommitTickStep ==
  ASSUME IInv, NEW w \in Workers, CommitTick(w)
  PROVE  IInv'
<1> USE ProcsAssumption, TextsAssumption DEF IInv, Procs, CommitTick, EndTick, Commit, Release, Goto, tips
<1>1. TypeOK'
  BY BoundsAssumption DEF TypeOK, Job, Jobs, Statuses, Sources, Stored
<1>2. TipsInv'
  BY DEF TypeOK, TipsInv, HeldInv, RequestInv, Sources
<1>3. WorkerInv'
  BY DEF TypeOK, WorkerInv, HeldInv, RequestInv
<1>4. HeldInv'
  BY DEF TypeOK, HeldInv, WorkerInv, RequestInv, TipsInv, Job, Jobs, Sources
<1>5. RequestInv'
  BY DEF TypeOK, RequestInv, WorkerInv, Job
<1>6. AttemptsInv'
  BY BoundsAssumption DEF TypeOK, AttemptsInv, UnfinishedIsClaimable, Job, Jobs
<1>7. DoneIsFresh' /\ UnfinishedIsClaimable'
  <2>1. DoneIsFresh'
    BY DEF DoneIsFresh, TypeOK, HeldInv, Sources
  <2>2. UnfinishedIsClaimable'
    <3>1. \A q \in Rows : jobLock[q] = w => jobTip[q].status # "running"
      BY DEF WorkerInv, HeldInv
    <3>2. \A q \in Rows : jobTip[q].status \in Statuses
      BY DEF TypeOK, Jobs
    <3> QED
      BY <3>1, <3>2 DEF TypeOK, UnfinishedIsClaimable, AttemptsInv, Statuses
  <2> QED
    BY <2>1, <2>2
<1> QED
  BY <1>1, <1>2, <1>3, <1>4, <1>5, <1>6, <1>7

(* The end of the backoff touches no data. *)
LEMMA ResumeStep ==
  ASSUME IInv, NEW w \in Workers, Resume(w)
  PROVE  IInv'
<1> USE ProcsAssumption, TextsAssumption DEF IInv, Procs, Resume, Goto, committed, tips, locks, local
<1>1. TypeOK'
  BY BoundsAssumption DEF TypeOK, Job, Jobs, Statuses, Sources, Stored
<1>2. TipsInv'
  BY DEF TypeOK, TipsInv, WorkerInv
<1>3. WorkerInv'
  BY DEF TypeOK, WorkerInv, HeldInv, RequestInv
<1>4. HeldInv'
  BY DEF TypeOK, HeldInv, WorkerInv, RequestInv, TipsInv, Job, Jobs, Sources
<1>5. RequestInv'
  BY DEF TypeOK, RequestInv, WorkerInv, Job
<1>6. AttemptsInv'
  BY BoundsAssumption DEF TypeOK, AttemptsInv, UnfinishedIsClaimable, Job, Jobs
<1>7. DoneIsFresh' /\ UnfinishedIsClaimable'
  BY DEF DoneIsFresh, UnfinishedIsClaimable
<1> QED
  BY <1>1, <1>2, <1>3, <1>4, <1>5, <1>6, <1>7

(* A tick that ends by an exception, a deadlock or a crash leaves no trace. *)
LEMMA EndTickStep ==
  ASSUME IInv, NEW w \in Workers, NEW l \in {"idle", "raised"},
         Rollback(w), EndTick(w, l), UNCHANGED target, faults' \in 0..MaxFaults
  PROVE  IInv'
<1> USE ProcsAssumption, TextsAssumption DEF IInv, Procs, EndTick, Rollback, Release, Goto, committed
<1>1. TypeOK'
  BY BoundsAssumption DEF TypeOK, Job, Jobs, Statuses, Sources, Stored
<1>2. TipsInv'
  BY DEF TypeOK, TipsInv, WorkerInv
<1>3. WorkerInv'
  BY DEF TypeOK, WorkerInv, HeldInv, RequestInv
<1>4. HeldInv'
  BY DEF TypeOK, HeldInv, WorkerInv, RequestInv, TipsInv, Job, Jobs, Sources
<1>5. RequestInv'
  BY DEF TypeOK, RequestInv, WorkerInv, Job
<1>6. AttemptsInv'
  BY BoundsAssumption DEF TypeOK, AttemptsInv, UnfinishedIsClaimable, Job, Jobs
<1>7. DoneIsFresh' /\ UnfinishedIsClaimable'
  BY DEF DoneIsFresh, UnfinishedIsClaimable
<1> QED
  BY <1>1, <1>2, <1>3, <1>4, <1>5, <1>6, <1>7

(* A request locks a free row: no worker has a text of it uncommitted. *)
LEMMA WriteSourceStep ==
  ASSUME IInv, NEW p \in Writers, NEW r \in Rows, NEW t \in Stored, WriteSource(p, r, t)
  PROVE  IInv'
<1> USE ProcsAssumption, TextsAssumption DEF IInv, Procs, WriteSource, Goto, committed, local
<1>s. srcTip' \in [Rows -> Sources]
  <2>1. ASSUME NEW s \in Sources PROVE [s EXCEPT !.text = t] \in Sources
    BY DEF Sources, Stored
  <2> QED
    BY <2>1 DEF TypeOK
<1>1. TypeOK'
  BY <1>s DEF TypeOK
<1>2. TipsInv'
  BY DEF TypeOK, TipsInv, WorkerInv
<1>3. WorkerInv'
  BY DEF TypeOK, WorkerInv, HeldInv, RequestInv
<1>4. HeldInv'
  BY DEF TypeOK, HeldInv, WorkerInv, RequestInv, TipsInv, Job, Jobs, Sources
<1>5. RequestInv'
  BY DEF TypeOK, RequestInv, WorkerInv, Job
<1>6. AttemptsInv'
  BY BoundsAssumption DEF TypeOK, AttemptsInv, UnfinishedIsClaimable, Job, Jobs
<1>7. DoneIsFresh' /\ UnfinishedIsClaimable'
  BY DEF DoneIsFresh, UnfinishedIsClaimable
<1> QED
  BY <1>1, <1>2, <1>3, <1>4, <1>5, <1>6, <1>7

(* The trigger puts the request on the job's lock as well as the row's. *)
LEMMA EnqueueStep ==
  ASSUME IInv, NEW p \in Writers, EnqueueTrigger(p)
  PROVE  IInv'
<1> USE ProcsAssumption, TextsAssumption DEF IInv, Procs, EnqueueTrigger, Goto, committed, local, Lockable, Enqueue
<1>1. TypeOK'
  BY BoundsAssumption DEF TypeOK, Job, Jobs, Statuses, Sources, Stored
<1>2. TipsInv'
  BY DEF TypeOK, TipsInv, WorkerInv
<1>3. WorkerInv'
  BY DEF TypeOK, WorkerInv, HeldInv, RequestInv
<1>4. HeldInv'
  BY DEF TypeOK, HeldInv, WorkerInv, RequestInv, TipsInv, Job, Jobs, Sources
<1>5. RequestInv'
  BY DEF TypeOK, RequestInv, WorkerInv, Job
<1>6. AttemptsInv'
  BY BoundsAssumption DEF TypeOK, AttemptsInv, UnfinishedIsClaimable, Job, Jobs
<1>7. DoneIsFresh' /\ UnfinishedIsClaimable'
  BY DEF DoneIsFresh, UnfinishedIsClaimable
<1> QED
  BY <1>1, <1>2, <1>3, <1>4, <1>5, <1>6, <1>7

(* A delete needs no job: a gone row is fresh by definition. *)
LEMMA DeleteStep ==
  ASSUME IInv, NEW p \in Writers, NEW r \in Rows, DeleteSource(p, r)
  PROVE  IInv'
<1> USE ProcsAssumption, TextsAssumption DEF IInv, Procs, DeleteSource, Goto, committed, local
<1>1. TypeOK'
  BY BoundsAssumption DEF TypeOK, Job, Jobs, Statuses, Sources, Stored
<1>2. TipsInv'
  BY DEF TypeOK, TipsInv, WorkerInv
<1>3. WorkerInv'
  BY DEF TypeOK, WorkerInv, HeldInv, RequestInv
<1>4. HeldInv'
  BY DEF TypeOK, HeldInv, WorkerInv, RequestInv, TipsInv, Job, Jobs, Sources
<1>5. RequestInv'
  BY DEF TypeOK, RequestInv, WorkerInv, Job
<1>6. AttemptsInv'
  BY BoundsAssumption DEF TypeOK, AttemptsInv, UnfinishedIsClaimable, Job, Jobs
<1>7. DoneIsFresh' /\ UnfinishedIsClaimable'
  BY DEF DoneIsFresh, UnfinishedIsClaimable
<1> QED
  BY <1>1, <1>2, <1>3, <1>4, <1>5, <1>6, <1>7

(* A new text is committed with its job queued again. *)
LEMMA CommitRequestStep ==
  ASSUME IInv, NEW p \in Writers, CommitRequest(p)
  PROVE  IInv'
<1> USE ProcsAssumption, TextsAssumption DEF IInv, Procs, CommitRequest, Commit, Release, Goto, tips, local
<1>1. TypeOK'
  BY BoundsAssumption DEF TypeOK, Job, Jobs, Statuses, Sources, Stored
<1>2. TipsInv'
  BY DEF TypeOK, TipsInv, HeldInv, RequestInv, Sources
<1>3. WorkerInv'
  BY DEF TypeOK, WorkerInv, HeldInv, RequestInv
<1>4. HeldInv'
  BY DEF TypeOK, HeldInv, WorkerInv, RequestInv, TipsInv, Job, Jobs, Sources
<1>5. RequestInv'
  BY DEF TypeOK, RequestInv, WorkerInv, Job
<1>6. AttemptsInv'
  BY BoundsAssumption DEF TypeOK, AttemptsInv, UnfinishedIsClaimable, Job, Jobs
<1>7. DoneIsFresh' /\ UnfinishedIsClaimable'
  BY BoundsAssumption DEF DoneIsFresh, UnfinishedIsClaimable, TypeOK, WorkerInv, HeldInv, AttemptsInv, RequestInv, Job
<1> QED
  BY <1>1, <1>2, <1>3, <1>4, <1>5, <1>6, <1>7

(* Rolling a request back restores the committed versions. *)
LEMMA EndRequestStep ==
  ASSUME IInv, NEW p \in Writers \cup {Purger}, Rollback(p), pc' = [pc EXCEPT ![p] = "idle"],
         target' = [target EXCEPT ![p] = {}], UNCHANGED local, faults' \in 0..MaxFaults
  PROVE  IInv'
<1> USE ProcsAssumption, TextsAssumption DEF IInv, Procs, Rollback, Release, committed, local
<1>1. TypeOK'
  BY BoundsAssumption DEF TypeOK, Job, Jobs, Statuses, Sources, Stored
<1>2. TipsInv'
  BY DEF TypeOK, TipsInv, WorkerInv
<1>3. WorkerInv'
  BY DEF TypeOK, WorkerInv, HeldInv, RequestInv
<1>4. HeldInv'
  BY DEF TypeOK, HeldInv, WorkerInv, RequestInv, TipsInv, Job, Jobs, Sources
<1>5. RequestInv'
  BY DEF TypeOK, RequestInv, WorkerInv, Job
<1>6. AttemptsInv'
  BY BoundsAssumption DEF TypeOK, AttemptsInv, UnfinishedIsClaimable, Job, Jobs
<1>7. DoneIsFresh' /\ UnfinishedIsClaimable'
  BY DEF DoneIsFresh, UnfinishedIsClaimable
<1> QED
  BY <1>1, <1>2, <1>3, <1>4, <1>5, <1>6, <1>7

(* Listing the pending jobs locks nothing. *)
LEMMA StartPurgeStep ==
  ASSUME IInv, StartPurge
  PROVE  IInv'
<1> USE ProcsAssumption, TextsAssumption DEF IInv, Procs, StartPurge, Goto, committed, tips, locks, local
<1>1. TypeOK'
  BY BoundsAssumption DEF TypeOK, Job, Jobs, Statuses, Sources, Stored
<1>2. TipsInv'
  BY DEF TypeOK, TipsInv, WorkerInv
<1>3. WorkerInv'
  BY DEF TypeOK, WorkerInv, HeldInv, RequestInv
<1>4. HeldInv'
  BY DEF TypeOK, HeldInv, WorkerInv, RequestInv, TipsInv, Job, Jobs, Sources
<1>5. RequestInv'
  BY DEF TypeOK, RequestInv, WorkerInv, Job
<1>6. AttemptsInv'
  BY BoundsAssumption DEF TypeOK, AttemptsInv, UnfinishedIsClaimable, Job, Jobs
<1>7. DoneIsFresh' /\ UnfinishedIsClaimable'
  BY DEF DoneIsFresh, UnfinishedIsClaimable
<1> QED
  BY <1>1, <1>2, <1>3, <1>4, <1>5, <1>6, <1>7

(* The purge writes a job only under its lock. *)
LEMMA PurgeJobStep ==
  ASSUME IInv, PurgeJob
  PROVE  IInv'
<1> USE ProcsAssumption, TextsAssumption DEF IInv, Procs, committed, local
<1>r. PICK r \in target[Purger] :
          /\ jobLock[r] \in {Free, Purger}
          /\ target' = [target EXCEPT ![Purger] = @ \ {r}]
          /\ \/ /\ jobLock' = [jobLock EXCEPT ![r] = Purger]
                /\ jobTip' = [jobTip EXCEPT ![r] = Job("none", 0)]
             \/ UNCHANGED <<jobLock, jobTip>>
  BY OldestIn DEF TypeOK, PurgeJob, Lockable
<1>f. r \in Rows /\ UNCHANGED <<committed, srcTip, srcLock, pc, local, faults>>
  BY <1>r DEF TypeOK, PurgeJob
<1>j. /\ jobTip' \in [Rows -> Jobs]
      /\ \A q \in Rows : jobTip'[q] = jobTip[q] \/ jobTip'[q].status = "none"
  <2>1. Job("none", 0) \in Jobs
    BY <1>f, JobOps DEF TypeOK
  <2>2. Job("none", 0).status = "none"
    BY DEF Job
  <2> QED
    BY <1>r, <1>f, <2>1, <2>2 DEF TypeOK
<1>1. TypeOK'
  BY <1>r, <1>f, <1>j DEF TypeOK
<1>2. TipsInv'
  BY <1>r, <1>f, JobOps DEF TypeOK, TipsInv, WorkerInv
<1>3. WorkerInv'
  BY <1>r, <1>f, JobOps DEF TypeOK, WorkerInv, HeldInv, RequestInv
<1>4. HeldInv'
  BY <1>r, <1>f, JobOps DEF TypeOK, HeldInv, WorkerInv, RequestInv, TipsInv, Job, Sources
<1>5. RequestInv'
  BY <1>r, <1>f, JobOps DEF TypeOK, RequestInv, WorkerInv, Job
<1>6. AttemptsInv'
  BY <1>j DEF AttemptsInv
<1>7. DoneIsFresh' /\ UnfinishedIsClaimable'
  BY <1>r, <1>f, JobOps DEF DoneIsFresh, UnfinishedIsClaimable
<1> QED
  BY <1>1, <1>2, <1>3, <1>4, <1>5, <1>6, <1>7

(* The purge commits jobs that are gone, which no property constrains. *)
LEMMA CommitPurgeStep ==
  ASSUME IInv, CommitPurge
  PROVE  IInv'
<1> USE ProcsAssumption, TextsAssumption DEF IInv, Procs, CommitPurge, Commit, Release, Goto, tips, local
<1>1. TypeOK'
  BY BoundsAssumption DEF TypeOK, Job, Jobs, Statuses, Sources, Stored
<1>2. TipsInv'
  BY DEF TypeOK, TipsInv, HeldInv, RequestInv, Sources
<1>3. WorkerInv'
  BY DEF TypeOK, WorkerInv, HeldInv, RequestInv
<1>4. HeldInv'
  BY DEF TypeOK, HeldInv, WorkerInv, RequestInv, TipsInv, Job, Jobs, Sources
<1>5. RequestInv'
  BY DEF TypeOK, RequestInv, WorkerInv, Job
<1>6. AttemptsInv'
  BY BoundsAssumption DEF TypeOK, AttemptsInv, UnfinishedIsClaimable, Job, Jobs
<1>7. DoneIsFresh' /\ UnfinishedIsClaimable'
  BY BoundsAssumption DEF DoneIsFresh, UnfinishedIsClaimable, TypeOK, WorkerInv, HeldInv, AttemptsInv, RequestInv, Job
<1> QED
  BY <1>1, <1>2, <1>3, <1>4, <1>5, <1>6, <1>7

-----------------------------------------------------------------------------
(* What the commits rely on beyond freshness: the promise of EmbeddingIndex *)
(* says what a commit changes, not only what it leaves.                     *)

(* A worker counts one attempt more than the committed job of a row it has *)
(* in hand.                                                                *)
InHandInv ==
    \A w \in Workers :
        /\ todo[w] \cap group[w] = {}
        /\ \A r \in todo[w] \cup group[w] : /\ jobTip[r].status = "running"
                                            /\ jobTip[r].attempts = job[r].attempts + 1

(* A job a worker holds is committed as queued; given up, it has had its   *)
(* last attempt; done, its row has the text it was embedded from.          *)
ClaimedInv ==
    \A w \in Workers : \A r \in Rows : jobLock[r] = w =>
        /\ job[r].status = "queued" /\ jobTip[r].status # "none"
        /\ jobTip[r].status = "failed" => /\ jobTip[r].attempts = MaxAttempts
                                          /\ job[r].attempts = MaxAttempts - 1
        /\ jobTip[r].status = "done" => src[r].text \in Texts \cup {Gone}
        /\ srcLock[r] = w => jobTip[r].status = "done"

(* A request writes one row: a text, with the job queued again, or a       *)
(* deletion, without its job.                                              *)
OwnerInv ==
    \A p \in Writers : \A r \in Rows :
        /\ jobLock[r] = p \/ r \in target[p] => srcLock[r] = p /\ srcTip[r].text \in Stored
        /\ r \in target[p] => pc[p] = "trigger"
        /\ srcLock[r] = p =>
              /\ \A q \in Rows : srcLock[q] = p => q = r
              /\ \/ srcTip[r].text \in Stored /\ srcTip[r].vector = src[r].vector
                 \/ srcTip[r] = [text |-> Gone, vector |-> NoVector] /\ src[r].text \in Stored

(* The kill switch holds pending jobs only. *)
PurgeInv ==
    \A r \in Rows : jobLock[r] = Purger => job[r].status \in {"queued", "running"}

RInv == InHandInv /\ ClaimedInv /\ OwnerInv /\ PurgeInv

(* The end of a tick that is rolled back, and that of a request. *)
EndedTick(w) == /\ Rollback(w) /\ UNCHANGED target
                /\ EndTick(w, "idle") \/ EndTick(w, "raised")
EndedRequest(p) == /\ Rollback(p) /\ target' = [target EXCEPT ![p] = {}]
                   /\ pc' = [pc EXCEPT ![p] = "idle"] /\ UNCHANGED local

(* The steps, with the ways in which a transaction is rolled back as one. *)
LEMMA NextSteps ==
  ASSUME [Next]_vars
  PROVE  \/ \E w \in Workers :
               \/ Claim(w) \/ FetchTexts(w) \/ VoyageAnswers(w) \/ VoyageFails(w)
               \/ WriteBack(w) \/ RejectVector(w) \/ CommitTick(w) \/ Resume(w)
               \/ EndedTick(w)
         \/ \E p \in Writers :
               \/ \E r \in Rows : DeleteSource(p, r) \/ \E t \in Stored : WriteSource(p, r, t)
               \/ EnqueueTrigger(p) \/ CommitRequest(p)
         \/ \E p \in Writers \cup {Purger} : EndedRequest(p)
         \/ StartPurge \/ PurgeJob \/ CommitPurge
         \/ UNCHANGED vars
<1>1. ASSUME NEW w \in Workers, StatementRaises(w) \/ CrashWorker(w) PROVE EndedTick(w)
  BY <1>1 DEF StatementRaises, CrashWorker, EndedTick
<1>2. ASSUME NEW p \in Writers, AbortRequest(p) PROVE EndedRequest(p)
  BY <1>2 DEF AbortRequest, EndedRequest, Goto
<1>3. ASSUME NEW p \in Procs, DeadlockVictim(p), p \in Workers PROVE EndedTick(p)
  BY <1>3 DEF DeadlockVictim, EndedTick
<1>4. ASSUME NEW p \in Procs, DeadlockVictim(p), p \notin Workers PROVE EndedRequest(p)
  BY <1>4 DEF DeadlockVictim, EndedRequest, Goto
<1>5. CASE \E p \in Procs : DeadlockVictim(p)
  BY <1>3, <1>4, <1>5 DEF Procs
<1> QED
  BY <1>1, <1>2, <1>5 DEF Next, Tick

(* The marks of a worker keep the attempts of a job. *)
LEMMA MarkOps ==
  ASSUME NEW j \in Jobs
  PROVE  /\ MarkFailure(j).attempts = j.attempts
         /\ MarkFailure(j).status = IF j.attempts >= MaxAttempts THEN "failed" ELSE "queued"
         /\ MarkDone(j).attempts = j.attempts /\ MarkDone(j).status = "done"
         /\ MarkDone(Enqueue(j)).status = "done"
         /\ j.attempts \in 0..MaxAttempts /\ j.status \in Statuses
<1>1. j.attempts \in 0..MaxAttempts /\ j.status \in Statuses
  BY DEF Jobs
<1>2. /\ MarkFailure(j).attempts = j.attempts
      /\ MarkFailure(j).status = IF j.attempts >= MaxAttempts THEN "failed" ELSE "queued"
  BY DEF Jobs, MarkFailure
<1>3. MarkDone(j).attempts = j.attempts /\ MarkDone(j).status = "done"
  BY DEF Jobs, MarkDone
<1>4. MarkDone(Enqueue(j)).status = "done"
  BY DEF MarkDone, Enqueue, Job
<1> QED
  BY <1>1, <1>2, <1>3, <1>4

(* The row a worker writes back, and what becomes of it. *)
LEMMA WriteBackDoes ==
  ASSUME IInv, NEW w \in Workers, WriteBack(w)
  PROVE  /\ pc[w] = "write"
         /\ UNCHANGED <<committed, jobLock, todo, target, faults>>
         /\ \E r \in group[w] :
               /\ r \in Rows /\ srcLock[r] \in {Free, w}
               /\ IF src[r].text = Gone
                  THEN /\ jobTip' = [jobTip EXCEPT ![r] = MarkDone(@)]
                       /\ UNCHANGED <<srcTip, srcLock>>
                  ELSE /\ srcTip' = [srcTip EXCEPT ![r].vector = seen[w][r]]
                       /\ srcLock' = [srcLock EXCEPT ![r] = w]
                       /\ jobTip' = [jobTip EXCEPT ![r] = MarkDone(Enqueue(@))]
               /\ RowDone(w, r)
  BY OldestIn DEF IInv, TypeOK, WorkerInv, WriteBack, Lockable

(* The row whose vector is rejected. *)
LEMMA RejectVectorDoes ==
  ASSUME IInv, NEW w \in Workers, RejectVector(w)
  PROVE  /\ pc[w] = "write"
         /\ UNCHANGED <<committed, srcTip, locks, todo, target, faults>>
         /\ \E r \in group[w] : /\ r \in Rows
                                /\ jobTip' = [jobTip EXCEPT ![r] = MarkFailure(@)]
                                /\ RowDone(w, r)
  BY OldestIn DEF IInv, TypeOK, WorkerInv, RejectVector

(* The job the purge visits. *)
LEMMA PurgeJobDoes ==
  ASSUME IInv, PurgeJob
  PROVE  /\ UNCHANGED <<committed, srcTip, srcLock, pc, local, faults>>
         /\ \E r \in target[Purger] :
               /\ r \in Rows /\ jobLock[r] \in {Free, Purger}
               /\ target' = [target EXCEPT ![Purger] = @ \ {r}]
               /\ \/ /\ job[r].status \in {"queued", "running"}
                     /\ jobLock' = [jobLock EXCEPT ![r] = Purger]
                     /\ jobTip' = [jobTip EXCEPT ![r] = Job("none", 0)]
                  \/ UNCHANGED <<jobLock, jobTip>>
  BY OldestIn DEF IInv, TypeOK, PurgeJob, Lockable

(* Two workers have no row in common, since each holds its job. *)
LEMMA HandsApart ==
  ASSUME IInv, NEW v \in Workers, NEW w \in Workers,
         NEW r \in todo[w] \cup group[w], r \in todo[v] \cup group[v]
  PROVE  v = w
  BY DEF IInv, WorkerInv

(* What a row in hand looks like. *)
LEMMA RowIsClaimed ==
  ASSUME IInv, RInv, NEW w \in Workers, NEW r \in todo[w] \cup group[w]
  PROVE  /\ r \in Rows /\ jobLock[r] = w /\ job[r].status = "queued" /\ srcLock[r] # w
         /\ jobTip[r] \in Jobs /\ jobTip[r].attempts = job[r].attempts + 1
         /\ job[r].attempts \in 0..MaxAttempts
<1>1. r \in Rows
  BY DEF IInv, TypeOK
<1> QED
  BY <1>1 DEF IInv, RInv, TypeOK, WorkerInv, InHandInv, ClaimedInv, Jobs

(* The write-back of a vector settles one row of the group, as done or as  *)
(* failed; the text of a row that is done is the one that was fetched.     *)
LEMMA RowSettled ==
  ASSUME IInv, NEW w \in Workers, WriteBack(w) \/ RejectVector(w)
  PROVE  /\ UNCHANGED <<committed, jobLock, todo>>
         /\ \E r \in group[w] :
               /\ r \in Rows /\ group' = [group EXCEPT ![w] = @ \ {r}]
               /\ \A q \in Rows \ {r} : jobTip'[q] = jobTip[q] /\ srcLock'[q] = srcLock[q]
               /\ \/ jobTip'[r].status = "done" /\ src[r].text \in Texts \cup {Gone}
                  \/ jobTip'[r] = MarkFailure(jobTip[r]) /\ srcLock'[r] = srcLock[r]
<1> USE DEF IInv, TypeOK
<1>1. CASE WriteBack(w)
  <2>1. PICK r \in group[w] :
               /\ r \in Rows
               /\ IF src[r].text = Gone
                  THEN /\ jobTip' = [jobTip EXCEPT ![r] = MarkDone(@)]
                       /\ UNCHANGED <<srcTip, srcLock>>
                  ELSE /\ srcTip' = [srcTip EXCEPT ![r].vector = seen[w][r]]
                       /\ srcLock' = [srcLock EXCEPT ![r] = w]
                       /\ jobTip' = [jobTip EXCEPT ![r] = MarkDone(Enqueue(@))]
               /\ RowDone(w, r)
    BY <1>1, WriteBackDoes
  <2>2. jobTip'[r].status = "done" /\ (\A q \in Rows \ {r} : jobTip'[q] = jobTip[q] /\ srcLock'[q] = srcLock[q])
    BY <2>1, MarkOps
  <2>3. src[r].text \in Texts \cup {Gone}
    BY <2>1 DEF WorkerInv
  <2> QED
    BY <1>1, <2>1, <2>2, <2>3, WriteBackDoes DEF RowDone
<1>2. CASE RejectVector(w)
  <2>1. PICK r \in group[w] : /\ r \in Rows
                              /\ jobTip' = [jobTip EXCEPT ![r] = MarkFailure(@)]
                              /\ RowDone(w, r)
    BY <1>2, RejectVectorDoes
  <2> QED
    BY <1>2, <2>1, RejectVectorDoes DEF RowDone, locks
<1> QED
  BY <1>1, <1>2

(* A failure of rows in hand gives a job up at its last attempt only. *)
LEMMA FailuresAreCounted ==
  ASSUME IInv, RInv, NEW w \in Workers, NEW F \in SUBSET (todo[w] \cup group[w]),
         UNCHANGED <<committed, srcLock, jobLock>>,
         \A r \in Rows : jobTip'[r] = IF r \in F THEN MarkFailure(jobTip[r]) ELSE jobTip[r]
  PROVE  ClaimedInv'
<1>1. ASSUME NEW r \in F
      PROVE  /\ job[r].status = "queued" /\ jobTip'[r].status \in {"queued", "failed"}
             /\ jobTip'[r].status = "failed" => /\ jobTip'[r].attempts = MaxAttempts
                                               /\ job[r].attempts = MaxAttempts - 1
             /\ jobLock[r] = w /\ srcLock[r] # w
  BY RowIsClaimed, MarkOps, BoundsAssumption
<1> QED
  BY <1>1 DEF RInv, ClaimedInv, committed

(* So does a write-back. *)
LEMMA SettlesAreCounted ==
  ASSUME IInv, RInv, NEW w \in Workers, WriteBack(w) \/ RejectVector(w)
  PROVE  ClaimedInv'
<1>1. PICK r \in group[w] :
          /\ r \in Rows
          /\ \A q \in Rows \ {r} : jobTip'[q] = jobTip[q] /\ srcLock'[q] = srcLock[q]
          /\ \/ jobTip'[r].status = "done" /\ src[r].text \in Texts \cup {Gone}
             \/ jobTip'[r] = MarkFailure(jobTip[r]) /\ srcLock'[r] = srcLock[r]
  BY RowSettled
<1>2. UNCHANGED <<src, job, jobLock>>
  BY RowSettled DEF committed
<1>3. /\ job[r].status = "queued" /\ jobTip'[r].status \in {"queued", "failed", "done"}
      /\ jobTip'[r].status = "failed" => /\ jobTip'[r].attempts = MaxAttempts
                                        /\ job[r].attempts = MaxAttempts - 1
      /\ jobTip'[r].status = "done" => src[r].text \in Texts \cup {Gone}
      /\ jobLock[r] = w /\ (jobTip'[r].status # "done" => srcLock'[r] # w)
  <2>1. CASE jobTip'[r].status = "done" /\ src[r].text \in Texts \cup {Gone}
    BY <2>1, RowIsClaimed
  <2>2. CASE jobTip'[r] = MarkFailure(jobTip[r]) /\ srcLock'[r] = srcLock[r]
    BY <2>2, RowIsClaimed, MarkOps, BoundsAssumption
  <2> QED
    BY <1>1, <2>1, <2>2
<1> QED
  BY <1>1, <1>2, <1>3 DEF RInv, ClaimedInv

(* A commit changes no job somebody else holds, and no text of its row,    *)
(* unless it deletes the row.                                              *)
LEMMA CommitsApart ==
  ASSUME IInv, RInv, NEW p \in Procs, Commit(p),
         \A v \in Workers \ {p} : \A r \in Rows :
             jobLock[r] = v => src'[r].text \in {src[r].text, Gone}
  PROVE  ClaimedInv'
<1> SUFFICES ASSUME NEW v \in Workers, NEW r \in Rows, jobLock'[r] = v
             PROVE  /\ job'[r].status = "queued" /\ jobTip'[r].status # "none"
                    /\ jobTip'[r].status = "failed" => /\ jobTip'[r].attempts = MaxAttempts
                                                      /\ job'[r].attempts = MaxAttempts - 1
                    /\ jobTip'[r].status = "done" => src'[r].text \in Texts \cup {Gone}
                    /\ srcLock'[r] = v => jobTip'[r].status = "done"
  BY DEF ClaimedInv
<1>1. v # p /\ jobLock[r] = v
  BY ProcsAssumption DEF Commit, Release, Procs
<1>2. job'[r] = job[r] /\ jobTip'[r] = jobTip[r] /\ (srcLock'[r] = v => srcLock[r] = v)
  BY <1>1, ProcsAssumption DEF Commit, Release, tips, Procs
<1> QED
  BY <1>1, <1>2 DEF RInv, ClaimedInv

(* The attempts of a claimed job are fixed by its claim. *)
LEMMA InHandStep ==
  ASSUME IInv, RInv, [Next]_vars
  PROVE  InHandInv'
<1> USE ProcsAssumption, TextsAssumption, BoundsAssumption DEF IInv, RInv, TypeOK, Procs, WorkerInv, InHandInv
<1>1. ASSUME NEW w \in Workers, Claim(w) PROVE InHandInv'
  BY <1>1, MarkOps DEF Claim, committed, NextBatch, Claimable, Goto, Job
<1>2. ASSUME NEW w \in Workers, FetchTexts(w) PROVE InHandInv'
  BY <1>2, MarkOps DEF FetchTexts, committed, locks, NextGroup, Embeddable, Goto
<1>3. ASSUME NEW w \in Workers, VoyageAnswers(w) PROVE InHandInv'
  BY <1>3, MarkOps DEF VoyageAnswers, committed, tips, locks, local, Goto
<1>4. ASSUME NEW w \in Workers, VoyageFails(w) PROVE InHandInv'
  BY <1>4, MarkOps DEF VoyageFails, committed, locks, Goto
<1>5. ASSUME NEW w \in Workers, WriteBack(w) PROVE InHandInv'
  <2>1. PICK r \in group[w] :
            /\ r \in Rows /\ group' = [group EXCEPT ![w] = @ \ {r}]
            /\ \A q \in Rows \ {r} : jobTip'[q] = jobTip[q]
    BY <1>5, RowSettled
  <2>2. todo' = todo /\ job' = job
    BY <1>5, RowSettled DEF committed
  <2>3. ASSUME NEW v \in Workers, NEW q \in todo'[v] \cup group'[v]
        PROVE  q # r /\ q \in todo[v] \cup group[v] /\ q \in Rows
    BY <2>1, <2>2
  <2>4. \A v \in Workers : todo'[v] \cap group'[v] = {}
    BY <2>1, <2>2
  <2> QED
    BY <2>1, <2>2, <2>3, <2>4
<1>6. ASSUME NEW w \in Workers, RejectVector(w) PROVE InHandInv'
  <2>1. PICK r \in group[w] :
            /\ r \in Rows /\ group' = [group EXCEPT ![w] = @ \ {r}]
            /\ \A q \in Rows \ {r} : jobTip'[q] = jobTip[q]
    BY <1>6, RowSettled
  <2>2. todo' = todo /\ job' = job
    BY <1>6, RowSettled DEF committed
  <2>3. ASSUME NEW v \in Workers, NEW q \in todo'[v] \cup group'[v]
        PROVE  q # r /\ q \in todo[v] \cup group[v] /\ q \in Rows
    BY <2>1, <2>2
  <2>4. \A v \in Workers : todo'[v] \cap group'[v] = {}
    BY <2>1, <2>2
  <2> QED
    BY <2>1, <2>2, <2>3, <2>4
<1>7. ASSUME NEW w \in Workers, CommitTick(w) PROVE InHandInv'
  BY <1>7, MarkOps DEF CommitTick, tips, Commit, Release, EndTick, Goto
<1>8. ASSUME NEW w \in Workers, Resume(w) PROVE InHandInv'
  BY <1>8, MarkOps DEF Resume, committed, tips, locks, local, Goto
<1>9. ASSUME NEW w \in Workers, EndedTick(w) PROVE InHandInv'
  <2>1. todo' = [todo EXCEPT ![w] = {}] /\ group' = [group EXCEPT ![w] = {}]
    BY <1>9 DEF EndedTick, EndTick
  <2>2. ASSUME NEW v \in Workers, NEW r \in todo'[v] \cup group'[v]
        PROVE  /\ r \in todo[v] \cup group[v] /\ v # w
    BY <2>1
  <2>3. ASSUME NEW v \in Workers, NEW r \in todo'[v] \cup group'[v]
        PROVE  jobTip'[r] = jobTip[r] /\ job'[r] = job[r]
    BY <1>9, <2>2 DEF EndedTick, Rollback, committed
  <2> QED
    BY <2>1, <2>2, <2>3
<1>10. ASSUME NEW p \in Writers, NEW r \in Rows, NEW t \in Stored, WriteSource(p, r, t) PROVE InHandInv'
  BY <1>10, MarkOps DEF committed, local, WriteSource, Goto
<1>11. ASSUME NEW p \in Writers, NEW r \in Rows, DeleteSource(p, r) PROVE InHandInv'
  BY <1>11, MarkOps DEF committed, local, DeleteSource, Goto
<1>12. ASSUME NEW p \in Writers, EnqueueTrigger(p) PROVE InHandInv'
  BY <1>12, MarkOps DEF EnqueueTrigger, committed, local, Lockable, Enqueue, Goto, Job
<1>13. ASSUME NEW p \in Writers, CommitRequest(p) PROVE InHandInv'
  BY <1>13, MarkOps DEF CommitRequest, tips, local, Commit, Release, Goto
<1>14. ASSUME NEW p \in Writers \cup {Purger}, EndedRequest(p) PROVE InHandInv'
  BY <1>14, MarkOps DEF EndedRequest, committed, local, Rollback, Release
<1>15. CASE StartPurge
  BY <1>15, MarkOps DEF StartPurge, committed, tips, locks, local, Goto
<1>16. CASE PurgeJob
  <2>1. ASSUME NEW v \in Workers, NEW r \in todo[v] \cup group[v]
        PROVE  jobTip'[r] = jobTip[r]
    BY <1>16, PurgeJobDoes
  <2> QED
    BY <2>1, PurgeJobDoes, <1>16 DEF committed, local
<1>17. CASE CommitPurge
  BY <1>17, MarkOps DEF CommitPurge, tips, local, Commit, Release, Goto
<1>18. CASE UNCHANGED vars
  BY <1>18 DEF vars
<1> QED
  BY NextSteps, <1>1, <1>2, <1>3, <1>4, <1>5, <1>6, <1>7, <1>8, <1>9, <1>10, <1>11, <1>12, <1>13, <1>14, <1>15, <1>16, <1>17, <1>18

(* Only the worker that holds a job settles it. *)
LEMMA ClaimedStep ==
  ASSUME IInv, RInv, [Next]_vars
  PROVE  ClaimedInv'
<1> USE ProcsAssumption, TextsAssumption, BoundsAssumption DEF IInv, RInv, TypeOK, Procs, WorkerInv, InHandInv, ClaimedInv
<1>1. ASSUME NEW w \in Workers, Claim(w) PROVE ClaimedInv'
  <2>1. ASSUME NEW v \in Workers, NEW r \in Rows, jobLock'[r] = v, r \notin NextBatch
        PROVE  jobLock[r] = v /\ jobTip'[r] = jobTip[r]
    BY <1>1, <2>1 DEF Claim
  <2>2. ASSUME NEW r \in Rows, r \in NextBatch
        PROVE  /\ job[r].status = "queued" /\ jobTip'[r].status = "running"
               /\ srcLock[r] \notin Workers
    BY <1>1, <2>2 DEF Claim, NextBatch, Claimable, Job, HeldInv
  <2> QED
    BY <1>1, <2>1, <2>2 DEF Claim, committed
<1>2. ASSUME NEW w \in Workers, FetchTexts(w) PROVE ClaimedInv'
  <2> DEFINE F == NextGroup(w) \ Embeddable(NextGroup(w))
  <2>1. F \in SUBSET (todo[w] \cup group[w])
    BY DEF NextGroup
  <2>2. \A r \in Rows : jobTip'[r] = IF r \in F THEN MarkFailure(jobTip[r]) ELSE jobTip[r]
    BY <1>2 DEF FetchTexts
  <2>3. UNCHANGED <<committed, srcLock, jobLock>>
    BY <1>2 DEF FetchTexts, locks
  <2> HIDE DEF IInv, RInv, TypeOK, WorkerInv, InHandInv, ClaimedInv, Procs
  <2> QED
    BY <2>1, <2>2, <2>3, FailuresAreCounted
<1>3. ASSUME NEW w \in Workers, VoyageAnswers(w) PROVE ClaimedInv'
  BY <1>3, MarkOps DEF VoyageAnswers, committed, tips, locks, local, Goto
<1>4. ASSUME NEW w \in Workers, VoyageFails(w) PROVE ClaimedInv'
  <2>1. \A r \in Rows : jobTip'[r] = IF r \in group[w] THEN MarkFailure(jobTip[r]) ELSE jobTip[r]
    BY <1>4 DEF VoyageFails
  <2>2. UNCHANGED <<committed, srcLock, jobLock>>
    BY <1>4 DEF VoyageFails, locks
  <2>3. group[w] \in SUBSET (todo[w] \cup group[w])
    OBVIOUS
  <2> HIDE DEF IInv, RInv, TypeOK, WorkerInv, InHandInv, ClaimedInv, Procs
  <2> QED
    BY <2>1, <2>2, <2>3, FailuresAreCounted
<1>5. ASSUME NEW w \in Workers, WriteBack(w) PROVE ClaimedInv'
  BY <1>5, SettlesAreCounted
<1>6. ASSUME NEW w \in Workers, RejectVector(w) PROVE ClaimedInv'
  BY <1>6, SettlesAreCounted
<1>7. ASSUME NEW w \in Workers, CommitTick(w) PROVE ClaimedInv'
  <2>1. ASSUME NEW v \in Workers \ {w}, NEW r \in Rows, jobLock[r] = v
        PROVE  src'[r].text \in {src[r].text, Gone}
    BY <1>7, <2>1 DEF CommitTick, Commit, HeldInv
  <2> QED
    BY <1>7, <2>1, CommitsApart DEF CommitTick
<1>8. ASSUME NEW w \in Workers, Resume(w) PROVE ClaimedInv'
  BY <1>8, MarkOps DEF Resume, committed, tips, locks, local, Goto
<1>9. ASSUME NEW w \in Workers, EndedTick(w) PROVE ClaimedInv'
  BY <1>9, MarkOps DEF EndedTick, committed, Rollback, Release, EndTick, Goto
<1>10. ASSUME NEW p \in Writers, NEW r \in Rows, NEW t \in Stored, WriteSource(p, r, t) PROVE ClaimedInv'
  BY <1>10, MarkOps DEF committed, local, WriteSource, Goto
<1>11. ASSUME NEW p \in Writers, NEW r \in Rows, DeleteSource(p, r) PROVE ClaimedInv'
  BY <1>11, MarkOps DEF committed, local, DeleteSource, Goto
<1>12. ASSUME NEW p \in Writers, EnqueueTrigger(p) PROVE ClaimedInv'
  BY <1>12, MarkOps DEF EnqueueTrigger, committed, local, Lockable, Enqueue, Goto, Job
<1>13. ASSUME NEW p \in Writers, CommitRequest(p) PROVE ClaimedInv'
  <2>1. ASSUME NEW v \in Workers \ {p}, NEW r \in Rows, jobLock[r] = v
        PROVE  src'[r].text \in {src[r].text, Gone}
    BY <1>13, <2>1 DEF CommitRequest, Commit, RequestInv
  <2> QED
    BY <1>13, <2>1, CommitsApart DEF CommitRequest
<1>14. ASSUME NEW p \in Writers \cup {Purger}, EndedRequest(p) PROVE ClaimedInv'
  BY <1>14, MarkOps DEF EndedRequest, committed, local, Rollback, Release
<1>15. CASE StartPurge
  BY <1>15, MarkOps DEF StartPurge, committed, tips, locks, local, Goto
<1>16. CASE PurgeJob
  BY <1>16, PurgeJobDoes, MarkOps DEF committed, local, Job
<1>17. CASE CommitPurge
  <2>1. ASSUME NEW v \in Workers \ {Purger}, NEW r \in Rows, jobLock[r] = v
        PROVE  src'[r].text \in {src[r].text, Gone}
    BY <1>17, <2>1 DEF CommitPurge, Commit, RequestInv
  <2> QED
    BY <1>17, <2>1, CommitsApart DEF CommitPurge
<1>18. CASE UNCHANGED vars
  BY <1>18 DEF vars
<1> QED
  BY NextSteps, <1>1, <1>2, <1>3, <1>4, <1>5, <1>6, <1>7, <1>8, <1>9, <1>10, <1>11, <1>12, <1>13, <1>14, <1>15, <1>16, <1>17, <1>18

(* A request holds the row it writes until its transaction ends. *)
LEMMA OwnerStep ==
  ASSUME IInv, RInv, [Next]_vars
  PROVE  OwnerInv'
<1> USE ProcsAssumption, TextsAssumption DEF IInv, RInv, TypeOK, Procs, TipsInv, WorkerInv, RequestInv, OwnerInv
<1>1. ASSUME NEW w \in Workers, Claim(w) PROVE OwnerInv'
  BY <1>1 DEF Claim, committed, NextBatch, Claimable, Goto, Job
<1>2. ASSUME NEW w \in Workers, FetchTexts(w) PROVE OwnerInv'
  BY <1>2 DEF FetchTexts, committed, locks, NextGroup, Embeddable, Goto
<1>3. ASSUME NEW w \in Workers, VoyageAnswers(w) PROVE OwnerInv'
  BY <1>3 DEF VoyageAnswers, committed, tips, locks, local, Goto
<1>4. ASSUME NEW w \in Workers, VoyageFails(w) PROVE OwnerInv'
  BY <1>4 DEF VoyageFails, committed, locks, Goto
<1>5. ASSUME NEW w \in Workers, WriteBack(w) PROVE OwnerInv'
  <2>1. PICK r \in group[w] :
            /\ r \in Rows /\ srcLock[r] \in {Free, w}
            /\ \/ UNCHANGED <<srcTip, srcLock>>
               \/ /\ srcTip' = [srcTip EXCEPT ![r].vector = seen[w][r]]
                  /\ srcLock' = [srcLock EXCEPT ![r] = w]
            /\ RowDone(w, r)
    BY <1>5, WriteBackDoes
  <2>2. \A q \in Rows : \A p \in Writers :
            srcLock[q] = p \/ srcLock'[q] = p
               => srcLock'[q] = srcLock[q] /\ srcTip'[q] = srcTip[q]
    BY <2>1
  <2>3. \A p \in Writers : pc'[p] = pc[p]
    BY <2>1 DEF RowDone, Goto
  <2>4. UNCHANGED <<src, jobLock, target>>
    BY <1>5, WriteBackDoes DEF committed
  <2> QED
    BY <2>2, <2>3, <2>4
<1>6. ASSUME NEW w \in Workers, RejectVector(w) PROVE OwnerInv'
  BY <1>6, RejectVectorDoes DEF committed, locks, RowDone, Goto
<1>7. ASSUME NEW w \in Workers, CommitTick(w) PROVE OwnerInv'
  BY <1>7 DEF CommitTick, tips, Commit, Release, EndTick, Goto
<1>8. ASSUME NEW w \in Workers, Resume(w) PROVE OwnerInv'
  BY <1>8 DEF Resume, committed, tips, locks, local, Goto
<1>9. ASSUME NEW w \in Workers, EndedTick(w) PROVE OwnerInv'
  BY <1>9 DEF EndedTick, committed, Rollback, Release, EndTick, Goto
<1>10. ASSUME NEW p \in Writers, NEW r \in Rows, NEW t \in Stored, WriteSource(p, r, t) PROVE OwnerInv'
  BY <1>10 DEF committed, local, WriteSource, Goto
<1>11. ASSUME NEW p \in Writers, NEW r \in Rows, DeleteSource(p, r) PROVE OwnerInv'
  BY <1>11 DEF committed, local, DeleteSource, Goto
<1>12. ASSUME NEW p \in Writers, EnqueueTrigger(p) PROVE OwnerInv'
  BY <1>12 DEF EnqueueTrigger, committed, local, Lockable, Enqueue, Goto, Job
<1>13. ASSUME NEW p \in Writers, CommitRequest(p) PROVE OwnerInv'
  BY <1>13 DEF CommitRequest, tips, local, Commit, Release, Goto
<1>14. ASSUME NEW p \in Writers \cup {Purger}, EndedRequest(p) PROVE OwnerInv'
  BY <1>14 DEF EndedRequest, committed, local, Rollback, Release
<1>15. CASE StartPurge
  BY <1>15 DEF StartPurge, committed, tips, locks, local, Goto
<1>16. CASE PurgeJob
  BY <1>16, PurgeJobDoes DEF committed, local, Job
<1>17. CASE CommitPurge
  BY <1>17 DEF CommitPurge, tips, local, Commit, Release, Goto
<1>18. CASE UNCHANGED vars
  BY <1>18 DEF vars
<1> QED
  BY NextSteps, <1>1, <1>2, <1>3, <1>4, <1>5, <1>6, <1>7, <1>8, <1>9, <1>10, <1>11, <1>12, <1>13, <1>14, <1>15, <1>16, <1>17, <1>18

(* The purge locks a job after it has tested its committed status again. *)
LEMMA PurgeStep ==
  ASSUME IInv, RInv, [Next]_vars
  PROVE  PurgeInv'
<1> USE ProcsAssumption DEF IInv, RInv, TypeOK, Procs, WorkerInv, RequestInv, PurgeInv
<1>1. ASSUME NEW w \in Workers, Claim(w) PROVE PurgeInv'
  BY <1>1 DEF Claim, committed, NextBatch, Claimable, Goto, Job
<1>2. ASSUME NEW w \in Workers, FetchTexts(w) PROVE PurgeInv'
  BY <1>2 DEF FetchTexts, committed, locks, NextGroup, Embeddable, Goto
<1>3. ASSUME NEW w \in Workers, VoyageAnswers(w) PROVE PurgeInv'
  BY <1>3 DEF VoyageAnswers, committed, tips, locks, local, Goto
<1>4. ASSUME NEW w \in Workers, VoyageFails(w) PROVE PurgeInv'
  BY <1>4 DEF VoyageFails, committed, locks, Goto
<1>5. ASSUME NEW w \in Workers, WriteBack(w) PROVE PurgeInv'
  BY <1>5, WriteBackDoes DEF committed, RowDone, Goto
<1>6. ASSUME NEW w \in Workers, RejectVector(w) PROVE PurgeInv'
  BY <1>6, RejectVectorDoes DEF committed, locks, RowDone, Goto
<1>7. ASSUME NEW w \in Workers, CommitTick(w) PROVE PurgeInv'
  BY <1>7 DEF CommitTick, tips, Commit, Release, EndTick, Goto
<1>8. ASSUME NEW w \in Workers, Resume(w) PROVE PurgeInv'
  BY <1>8 DEF Resume, committed, tips, locks, local, Goto
<1>9. ASSUME NEW w \in Workers, EndedTick(w) PROVE PurgeInv'
  BY <1>9 DEF EndedTick, committed, Rollback, Release, EndTick, Goto
<1>10. ASSUME NEW p \in Writers, NEW r \in Rows, NEW t \in Stored, WriteSource(p, r, t) PROVE PurgeInv'
  BY <1>10 DEF committed, local, WriteSource, Goto
<1>11. ASSUME NEW p \in Writers, NEW r \in Rows, DeleteSource(p, r) PROVE PurgeInv'
  BY <1>11 DEF committed, local, DeleteSource, Goto
<1>12. ASSUME NEW p \in Writers, EnqueueTrigger(p) PROVE PurgeInv'
  BY <1>12 DEF EnqueueTrigger, committed, local, Lockable, Enqueue, Goto, Job
<1>13. ASSUME NEW p \in Writers, CommitRequest(p) PROVE PurgeInv'
  BY <1>13 DEF CommitRequest, tips, local, Commit, Release, Goto
<1>14. ASSUME NEW p \in Writers \cup {Purger}, EndedRequest(p) PROVE PurgeInv'
  BY <1>14 DEF EndedRequest, committed, local, Rollback, Release
<1>15. CASE StartPurge
  BY <1>15 DEF StartPurge, committed, tips, locks, local, Goto
<1>16. CASE PurgeJob
  BY <1>16, PurgeJobDoes DEF committed, local, Job
<1>17. CASE CommitPurge
  BY <1>17 DEF CommitPurge, tips, local, Commit, Release, Goto
<1>18. CASE UNCHANGED vars
  BY <1>18 DEF vars
<1> QED
  BY NextSteps, <1>1, <1>2, <1>3, <1>4, <1>5, <1>6, <1>7, <1>8, <1>9, <1>10, <1>11, <1>12, <1>13, <1>14, <1>15, <1>16, <1>17, <1>18

-----------------------------------------------------------------------------
(* Every step keeps the invariant: one case per action. *)
LEMMA NextInv == IInv /\ [Next]_vars => IInv'
<1> SUFFICES ASSUME IInv, [Next]_vars PROVE IInv'
  OBVIOUS
<1>1. ASSUME NEW w \in Workers, Tick(w) PROVE IInv'
  BY <1>1, ClaimStep, FetchStep, VoyageAnswersStep, VoyageFailsStep, WriteBackStep,
     RejectStep, CommitTickStep, ResumeStep DEF Tick
<1>f. faults \in 0..MaxFaults /\ (faults > 0 => faults - 1 \in 0..MaxFaults)
  BY BoundsAssumption DEF IInv, TypeOK
<1>2. ASSUME NEW w \in Workers, StatementRaises(w) \/ CrashWorker(w) PROVE IInv'
  BY <1>2, <1>f, EndTickStep DEF StatementRaises, CrashWorker
<1>3. ASSUME NEW p \in Writers, NEW r \in Rows,
             DeleteSource(p, r) \/ \E t \in Stored : WriteSource(p, r, t)
      PROVE  IInv'
  BY <1>3, DeleteStep, WriteSourceStep
<1>4. ASSUME NEW p \in Writers, EnqueueTrigger(p) \/ CommitRequest(p) \/ AbortRequest(p)
      PROVE  IInv'
  BY <1>4, <1>f, EnqueueStep, CommitRequestStep, EndRequestStep DEF AbortRequest, Goto
<1>5. CASE StartPurge \/ PurgeJob \/ CommitPurge
  BY <1>5, StartPurgeStep, PurgeJobStep, CommitPurgeStep
<1>6. ASSUME NEW p \in Procs, DeadlockVictim(p) PROVE IInv'
  <2>1. CASE p \in Workers
    BY <1>6, <1>f, <2>1, EndTickStep DEF DeadlockVictim
  <2>2. CASE p \notin Workers
    BY <1>6, <1>f, <2>2, EndRequestStep DEF DeadlockVictim, Procs, Goto
  <2> QED
    BY <2>1, <2>2
<1>7. CASE UNCHANGED vars
  BY <1>7 DEF vars, IInv, TypeOK, TipsInv, WorkerInv, HeldInv, RequestInv,
              AttemptsInv, DoneIsFresh, UnfinishedIsClaimable
<1> QED
  BY <1>1, <1>2, <1>3, <1>4, <1>5, <1>6, <1>7 DEF Next

(* The inductive invariant holds in every reachable state. *)
LEMMA Invariance == Spec => []IInv
  BY InitInv, NextInv, PTL DEF Spec

LEMMA RInit == Init => RInv
  BY ProcsAssumption, TextsAssumption
     DEF Init, RInv, InHandInv, ClaimedInv, OwnerInv, PurgeInv, Procs

LEMMA RInvariance == Spec => [](IInv /\ RInv)
<1>1. IInv /\ RInv /\ [Next]_vars => RInv'
  BY InHandStep, ClaimedStep, OwnerStep, PurgeStep DEF RInv
<1> QED
  BY <1>1, RInit, Invariance, PTL DEF Spec

-----------------------------------------------------------------------------
(* The steps that change the committed rows are the three commits. *)
LEMMA OnlyCommits ==
  ASSUME [Next]_vars, ~UNCHANGED committed
  PROVE  \/ \E w \in Workers : CommitTick(w)
         \/ \E p \in Writers : CommitRequest(p)
         \/ CommitPurge
<1> USE DEF committed
<1>1. ASSUME NEW w \in Workers,
             \/ Claim(w) \/ FetchTexts(w) \/ VoyageAnswers(w) \/ VoyageFails(w)
             \/ WriteBack(w) \/ RejectVector(w) \/ Resume(w) \/ EndedTick(w)
      PROVE  FALSE
  BY <1>1 DEF Claim, FetchTexts, VoyageAnswers, VoyageFails, WriteBack, RejectVector,
              Resume, EndedTick, Rollback
<1>2. ASSUME NEW p \in Writers, NEW r \in Rows,
             DeleteSource(p, r) \/ \E t \in Stored : WriteSource(p, r, t)
      PROVE  FALSE
  BY <1>2 DEF DeleteSource, WriteSource
<1>3. ASSUME NEW p \in Writers \cup {Purger}, EndedRequest(p) PROVE FALSE
  BY <1>3 DEF EndedRequest, Rollback
<1>4. ASSUME NEW p \in Writers, EnqueueTrigger(p) PROVE FALSE
  BY <1>4 DEF EnqueueTrigger
<1>5. CASE StartPurge \/ PurgeJob \/ UNCHANGED vars
  BY <1>5 DEF StartPurge, PurgeJob, vars
<1> QED
  BY NextSteps, <1>1, <1>2, <1>3, <1>4, <1>5

(* A tick commits the rows it holds: done ones with the vector of their    *)
(* text, failed ones, and queued ones for a later tick.                    *)
LEMMA TickSettles ==
  ASSUME IInv, RInv, NEW w \in Workers, CommitTick(w), NEW r \in Rows
  PROVE  /\ src'[r].text = src[r].text
         /\ jobLock[r] # w => job'[r] = job[r] /\ src'[r].vector = src[r].vector
         /\ jobLock[r] = w =>
               /\ job[r].status = "queued" /\ job'[r] = jobTip[r]
               /\ jobTip[r].status \in {"queued", "failed", "done"}
               /\ jobTip[r].status = "done" => src[r].text \in Texts \cup {Gone}
               /\ jobTip[r].status = "done" /\ src[r].text # Gone => src'[r].vector = src[r].text
               /\ jobTip[r].status # "done" \/ src[r].text = Gone => src'[r].vector = src[r].vector
<1>1. /\ src'[r] = IF srcLock[r] = w THEN srcTip[r] ELSE src[r]
      /\ job'[r] = IF jobLock[r] = w THEN jobTip[r] ELSE job[r]
  BY DEF CommitTick, Commit
<1>2. /\ srcLock[r] = w => jobLock[r] = w /\ srcTip[r].text = src[r].text
      /\ jobLock[r] = w /\ jobTip[r].status = "done" =>
            src[r].text = Gone \/ (srcLock[r] = w /\ srcTip[r].vector = src[r].text)
  BY DEF IInv, HeldInv
<1>3. srcLock[r] = w => jobTip[r].status = "done" /\ src[r].text # Gone
  BY <1>2, ProcsAssumption DEF IInv, RInv, TipsInv, ClaimedInv, Procs
<1>4. jobLock[r] = w => /\ job[r].status = "queued"
                        /\ jobTip[r].status \in {"queued", "failed", "done"}
                        /\ jobTip[r].status = "done" => src[r].text \in Texts \cup {Gone}
  <2>1. jobTip[r].status \in Statuses
    BY DEF IInv, TypeOK, Jobs
  <2>2. jobLock[r] = w => jobTip[r].status # "running"
    BY DEF IInv, HeldInv, WorkerInv, CommitTick
  <2> QED
    BY <2>1, <2>2 DEF RInv, ClaimedInv, Statuses
<1> QED
  BY <1>1, <1>2, <1>3, <1>4

(* The commit of a request writes one row and queues its job, or deletes   *)
(* one row and leaves its job alone, or writes none.                       *)
LEMMA RequestWrites ==
  ASSUME IInv, RInv, NEW p \in Writers, CommitRequest(p)
  PROVE  \/ UNCHANGED committed
         \/ \E r \in Rows :
               /\ \A q \in Rows \ {r} : src'[q] = src[q] /\ job'[q] = job[q]
               /\ src[r].text # Gone
               /\ \/ /\ src'[r].text \in Stored /\ src'[r].vector = src[r].vector
                     /\ job'[r] = Job("queued", 0)
                  \/ /\ src[r].text \in Stored /\ job'[r] = job[r]
                     /\ src'[r] = [text |-> Gone, vector |-> NoVector]
<1>1. /\ src' = [r \in Rows |-> IF srcLock[r] = p THEN srcTip[r] ELSE src[r]]
      /\ job' = [r \in Rows |-> IF jobLock[r] = p THEN jobTip[r] ELSE job[r]]
      /\ pc[p] = "open"
  BY DEF CommitRequest, Commit
<1>2. \A r \in Rows : jobLock[r] = p => srcLock[r] = p /\ srcTip[r].text \in Stored
                                        /\ jobTip[r] = Job("queued", 0)
  BY DEF IInv, RInv, OwnerInv, RequestInv
<1>3. CASE \A r \in Rows : srcLock[r] # p
  <2>1. src \in [Rows -> Sources] /\ job \in [Rows -> Jobs]
    BY DEF IInv, TypeOK
  <2> QED
    BY <1>1, <1>2, <1>3, <2>1 DEF committed
<1>4. ASSUME NEW r \in Rows, srcLock[r] = p
      PROVE  /\ \A q \in Rows \ {r} : src'[q] = src[q] /\ job'[q] = job[q]
             /\ src[r].text # Gone
             /\ \/ /\ src'[r].text \in Stored /\ src'[r].vector = src[r].vector
                   /\ job'[r] = Job("queued", 0)
                \/ /\ src[r].text \in Stored /\ job'[r] = job[r]
                   /\ src'[r] = [text |-> Gone, vector |-> NoVector]
  <2>1. \A q \in Rows \ {r} : srcLock[q] # p /\ jobLock[q] # p
    BY <1>2, <1>4 DEF RInv, OwnerInv
  <2>2. src[r].text # Gone
    BY <1>4, ProcsAssumption DEF IInv, TipsInv, Procs
  <2>3. jobLock[r] = p \/ srcTip[r].text = Gone
    BY <1>1, <1>4 DEF IInv, RequestInv
  <2>4. \/ srcTip[r].text \in Stored /\ srcTip[r].vector = src[r].vector
        \/ srcTip[r] = [text |-> Gone, vector |-> NoVector] /\ src[r].text \in Stored
    BY <1>4 DEF RInv, OwnerInv
  <2>5. srcTip[r].text = Gone => srcTip[r].text \notin Stored
    BY TextsAssumption
  <2>6. jobLock[r] = p => job'[r] = Job("queued", 0)
    BY <1>1, <1>2
  <2>7. src'[r] = srcTip[r]
    BY <1>1, <1>4
  <2> QED
    BY <1>1, <1>2, <2>1, <2>2, <2>3, <2>4, <2>5, <2>6, <2>7
<1> QED
  BY <1>3, <1>4

(* The purge drops jobs that are pending, and writes no row. *)
LEMMA PurgeDrops ==
  ASSUME IInv, RInv, CommitPurge, NEW r \in Rows
  PROVE  /\ src'[r] = src[r]
         /\ jobLock[r] # Purger => job'[r] = job[r]
         /\ jobLock[r] = Purger => job'[r] = Job("none", 0) /\ job[r].status \in {"queued", "running"}
  BY DEF IInv, RInv, CommitPurge, Commit, RequestInv, PurgeInv

-----------------------------------------------------------------------------
(* Every variable keeps its type: attempts never pass the limit, a lock is *)
(* held by a process or free.                                              *)
THEOREM TypeCorrect == Spec => []TypeOK
<1>1. IInv => TypeOK
  BY DEF IInv
<1> QED
  BY <1>1, Invariance, PTL

(* embedder.py marks a job done only over the vector of the row's current  *)
(* text, whatever requests commit during the call to Voyage.               *)
THEOREM Freshness == Spec => []DoneIsFresh
<1>1. IInv => DoneIsFresh
  BY DEF IInv
<1> QED
  BY <1>1, Invariance, PTL

(* No tick, however it ends, leaves behind a job the next ticks would skip. *)
THEOREM NoStrandedJob == Spec => []UnfinishedIsClaimable
<1>1. IInv => UnfinishedIsClaimable
  BY DEF IInv
<1> QED
  BY <1>1, Invariance, PTL

(* A job is given up by the commit of its last attempt only: what a worker *)
(* counts is one more than what was committed when it claimed the job, and *)
(* nobody else changes a job that is claimed.                              *)
THEOREM GivesUpWhenSpent == Spec => FailsOnlyWhenSpent
<1>1. ASSUME IInv, RInv, [Next]_vars, NEW r \in Rows,
             job'[r].status = "failed", job[r].status # "failed"
      PROVE  /\ job'[r].attempts = MaxAttempts
             /\ job[r].status = "queued" /\ job[r].attempts = MaxAttempts - 1
  <2>1. ~UNCHANGED committed
    BY <1>1 DEF committed
  <2>2. ASSUME NEW w \in Workers, CommitTick(w)
        PROVE  /\ job'[r].attempts = MaxAttempts
               /\ job[r].status = "queued" /\ job[r].attempts = MaxAttempts - 1
    <3>1. jobLock[r] = w /\ job'[r] = jobTip[r]
      BY <1>1, <2>2, TickSettles
    <3> QED
      BY <1>1, <3>1 DEF RInv, ClaimedInv
  <2>3. ASSUME NEW p \in Writers, CommitRequest(p) PROVE FALSE
    BY <1>1, <2>1, <2>3, RequestWrites DEF Job
  <2>4. CASE CommitPurge
    BY <1>1, <2>4, PurgeDrops DEF Job
  <2> QED
    BY <1>1, <2>1, <2>2, <2>3, <2>4, OnlyCommits
<1>2. IInv /\ RInv /\ [Next]_vars =>
        [\A r \in Rows : job'[r].status = "failed" /\ job[r].status # "failed" =>
           /\ job'[r].attempts = MaxAttempts
           /\ job[r].status = "queued" /\ job[r].attempts = MaxAttempts - 1]_vars
  BY <1>1
<1> QED
  BY <1>2, RInvariance, PTL DEF Spec, FailsOnlyWhenSpent

(* Every step of the queue is a step of EmbeddingIndex on the committed    *)
(* rows, or leaves them alone: only commits show, a tick's as the batch it *)
(* settles, a request's as the row it writes or removes, the kill switch's *)
(* as the jobs it drops.                                                   *)
LEMMA StepRefines ==
  ASSUME IInv, RInv, [Next]_vars
  PROVE  [Index!IndexNext]_(Index!indexVars)
<1> USE DEF Index!indexVars
<1>t. /\ \A r \in Rows : job[r].status \in Statuses
      /\ \A j : j.status \in {"queued", "running"} => PhaseOf(j) = "due"
      /\ \A j : j.status = "done" => PhaseOf(j) = "indexed"
      /\ \A j : j.status = "failed" => PhaseOf(j) = "abandoned"
      /\ PhaseOf(Job("none", 0)) = "none" /\ PhaseOf(Job("queued", 0)) = "due"
  BY DEF IInv, TypeOK, Jobs, PhaseOf, Job
<1>1. CASE UNCHANGED committed
  BY <1>1 DEF committed
<1>2. ASSUME NEW w \in Workers, CommitTick(w) PROVE Index!IndexNext
  <2>d. PICK D \in SUBSET Rows : D = {r \in Rows : jobLock[r] = w /\ jobTip[r].status = "done"}
    OBVIOUS
  <2>f. PICK F \in SUBSET Rows : F = {r \in Rows : jobLock[r] = w /\ jobTip[r].status = "failed"}
    OBVIOUS
  <2>1. D \cap F = {}
    BY <2>d, <2>f
  <2>2. \A r \in D \cup F : PhaseOf(job[r]) = "due"
    BY <1>2, <1>t, <2>d, <2>f, TickSettles
  <2>3. \A r \in D : src[r].text \in Texts \cup {Gone}
    BY <1>2, <2>d, TickSettles
  <2>4. ASSUME NEW r \in Rows
        PROVE  /\ src'[r].text = src[r].text
               /\ src'[r].vector = IF r \in D /\ src[r].text # Gone THEN src[r].text ELSE src[r].vector
               /\ PhaseOf(job'[r]) = IF r \in D THEN "indexed"
                                     ELSE IF r \in F THEN "abandoned" ELSE PhaseOf(job[r])
    BY <1>2, <1>t, <2>d, <2>f, TickSettles
  <2>5. Index!SettleBatch(D, F)
    BY <2>1, <2>2, <2>3, <2>4 DEF Index!SettleBatch
  <2> QED
    BY <2>5 DEF Index!IndexNext
<1>3. ASSUME NEW p \in Writers, CommitRequest(p), ~UNCHANGED committed PROVE Index!IndexNext
  <2>1. PICK r \in Rows :
               /\ \A q \in Rows \ {r} : src'[q] = src[q] /\ job'[q] = job[q]
               /\ src[r].text # Gone
               /\ \/ /\ src'[r].text \in Stored /\ src'[r].vector = src[r].vector
                     /\ job'[r] = Job("queued", 0)
                  \/ /\ src[r].text \in Stored /\ job'[r] = job[r]
                     /\ src'[r] = [text |-> Gone, vector |-> NoVector]
    BY <1>3, RequestWrites
  <2>2. CASE /\ src'[r].text \in Stored /\ src'[r].vector = src[r].vector
             /\ job'[r] = Job("queued", 0)
    <3>1. PICK t \in Texts \cup {Blank} : t = src'[r].text
      BY <2>2 DEF Stored
    <3>2. Index!WriteRow(r, t)
      BY <1>t, <2>1, <2>2, <3>1 DEF Index!WriteRow
    <3> QED
      BY <3>2 DEF Index!IndexNext
  <2>3. CASE /\ src[r].text \in Stored /\ job'[r] = job[r]
             /\ src'[r] = [text |-> Gone, vector |-> NoVector]
    <3>1. \A q \in Rows \ {r} : src'[q] = src[q]
      BY <2>1
    <3>2. \A q \in Rows : PhaseOf(job'[q]) = PhaseOf(job[q])
      BY <2>1, <2>3
    <3>3. /\ src'[r].text = Gone /\ src'[r].vector = NoVector
          /\ src[r].text \in Texts \cup {Blank}
      BY <2>3 DEF Stored
    <3>4. Index!RemoveRow(r)
      BY <3>1, <3>2, <3>3 DEF Index!RemoveRow
    <3> QED
      BY <3>4 DEF Index!IndexNext
  <2> QED
    BY <2>1, <2>2, <2>3
<1>4. CASE CommitPurge
  <2> DEFINE S == {r \in Rows : jobLock[r] = Purger}
  <2>1. \A r \in S : PhaseOf(job[r]) = "due"
    BY <1>4, <1>t, PurgeDrops
  <2>2. ASSUME NEW r \in Rows
        PROVE  /\ src'[r] = src[r]
               /\ PhaseOf(job'[r]) = IF r \in S THEN "none" ELSE PhaseOf(job[r])
    BY <1>4, <1>t, PurgeDrops
  <2>3. Index!DropJobs(S)
    BY <2>1, <2>2 DEF Index!DropJobs
  <2> QED
    BY <2>3 DEF Index!IndexNext
<1> QED
  BY <1>1, <1>2, <1>3, <1>4, OnlyCommits

(* The queue implements EmbeddingIndex: what a reader of the committed     *)
(* tables sees is that rows are written, removed, indexed from their       *)
(* current text, given up or dropped, and nothing else.                    *)
THEOREM Refinement == Spec => ImplementsIndex
<1>1. Init => Index!IndexInit
  BY DEF Init, Index!IndexInit, PhaseOf, Job
<1> QED
  BY <1>1, StepRefines, RInvariance, PTL DEF Spec, ImplementsIndex, Index!IndexSpec
=============================================================================
