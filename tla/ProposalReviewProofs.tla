------------------------ MODULE ProposalReviewProofs ------------------------
(***************************************************************************)
(* The ledger of the review loop, for every set of proposals, reviewers    *)
(* and extractions and every number of statements that raise.              *)
(*                                                                         *)
(* The argument: a ledger row is stamped while its request holds the lock  *)
(* of the proposal, and the lock lasts to the commit. So the one row of a  *)
(* proposal that is not committed yet is its latest (LedgerInv), and the   *)
(* commit that makes it count also writes the status it tells.             *)
(***************************************************************************)
EXTENDS ProposalReview, TLAPS

Deciders == Reviewers \cup {Bulk}
Deciding == {"flush", "emit", "commit"}

(* Who runs what, and the lock that goes with a flushed decision.          *)
PlaceInv ==
    /\ \A r \in Deciders : pc[r] \in {"idle", "next"} \cup Deciding
    /\ \A x \in Extractors : pc[x] \in {"idle", "delete", "llm"}
    /\ \A r \in Deciders : pc[r] \in Deciding => hand[r] \in Proposals /\ will[r] \in Decisions
    /\ \A r \in Deciders : pc[r] \in {"emit", "commit"} => lock[hand[r]] = r

(* Only drafted proposals are decided: no id is used a second time.        *)
ExistInv ==
    /\ \A r \in Deciders : pc[r] \in Deciding => row[hand[r]].status # "absent"
    /\ \A p \in todo[Bulk] : row[p].status # "absent"

(* An uncommitted row is the latest of its proposal, and belongs to the    *)
(* request that is about to commit it.                                     *)
IsOpen(e, p) ==
    /\ e.by \in Deciders /\ pc[e.by] = "commit"
    /\ hand[e.by] = p /\ will[e.by] = e.what
    /\ \A f \in events[p] : f.at <= e.at

LedgerInv ==
    /\ \A p \in Proposals : \A e, f \in events[p] : e.at = f.at => e = f
    /\ \A p \in Proposals : \A e \in events[p] : e.committed \/ IsOpen(e, p)
    /\ \A r \in Deciders : pc[r] = "commit" =>
         \E e \in events[hand[r]] : ~e.committed /\ e.by = r

(* A request has not made the node or edge it is about to make.            *)
FreshInv ==
    /\ \A r \in Deciders : pc[r] \in Deciding /\ will[r] = "accepted"
         => <<r, hand[r]>> \notin nodes
    /\ \A p \in todo[Bulk] \cap wasPending : <<Bulk, p>> \notin nodes
    /\ pc[Bulk] \in Deciding => hand[Bulk] \notin todo[Bulk]

IInv ==
    /\ TypeOK /\ PlaceInv /\ ExistInv /\ LedgerInv /\ FreshInv
    /\ LedgerTellsStatus /\ NodesAreExplained

-----------------------------------------------------------------------------
(* The request sets are disjoint, and Nobody is none of them.              *)
LEMMA Actors ==
  /\ Deciders \subseteq Requests /\ Extractors \subseteq Requests /\ Bulk \in Deciders
  /\ Deciders \cap Extractors = {} /\ Nobody \notin Requests
  BY RequestsAssumption DEF Deciders, Requests

(* What an undecided proposal has behind it: nothing.                      *)
LEMMA Undecided ==
  ASSUME TypeOK, LedgerTellsStatus, NodesAreExplained,
         NEW p \in Proposals, row[p].status \in {"absent", "pending"}
  PROVE  Committed(p) = {} /\ \A r \in Requests : <<r, p>> \notin nodes
<1>1. ASSUME NEW e \in Latest(p) PROVE row[p].status \notin {e.what, "deleted"}
  <2>1. e.what \in Decisions
    BY DEF Latest, Committed, TypeOK, Events
  <2> QED
    BY <2>1 DEF Decisions
<1>2. Committed(p) = {}
  BY <1>1 DEF LedgerTellsStatus
<1>3. \A r \in Requests : Accepts(r, p) = {}
  BY <1>2 DEF Accepts
<1> QED
  BY <1>2, <1>3 DEF NodesAreExplained

(* The stamp of a new row is later than those of the rows that are there.  *)
LEMMA NowIsLater ==
  ASSUME TypeOK, LedgerInv, LedgerTellsStatus, NEW p \in Proposals
  PROVE  Now(p) \in Nat /\ \A e \in events[p] : e.at < Now(p)
<1> DEFINE S == {0} \cup {e.at : e \in events[p]}
<1>1. S \subseteq Nat
  BY DEF TypeOK, Events
<1>2. \E m \in S : \A n \in S : m >= n
  <2>1. CASE \E e \in events[p] : ~e.committed
    <3>1. PICK e \in events[p] : ~e.committed
      BY <2>1
    <3>2. \A f \in events[p] : f.at <= e.at
      BY <3>1 DEF LedgerInv, IsOpen
    <3>3. e.at \in S
      OBVIOUS
    <3>4. \A n \in S : e.at >= n
      BY <1>1, <3>2, <3>3
    <3> QED
      BY <3>3, <3>4
  <2>2. CASE events[p] = {}
    <3>1. S = {0}
      BY <2>2
    <3> QED
      BY <3>1
  <2>3. CASE events[p] # {} /\ \A e \in events[p] : e.committed
    <3>1. Committed(p) = events[p]
      BY <2>3 DEF Committed
    <3>2. PICK e \in events[p] : \A f \in events[p] : f.at <= e.at
      BY <2>3, <3>1 DEF LedgerTellsStatus, Latest
    <3>3. e.at \in S
      OBVIOUS
    <3>4. \A n \in S : e.at >= n
      BY <1>1, <3>2, <3>3
    <3> QED
      BY <3>3, <3>4
  <2> QED
    BY <2>1, <2>2, <2>3
<1>3. Max(S) \in S /\ \A n \in S : Max(S) >= n
  BY <1>2 DEF Max
<1> HIDE DEF S
<1>4. Now(p) = 1 + Max(S)
  BY DEF Now, S
<1>5. \A e \in events[p] : e.at \in S
  BY DEF S
<1>6. Max(S) \in Nat
  BY <1>1, <1>3
<1>7. Now(p) \in Nat
  BY <1>4, <1>6
<1>8. ASSUME NEW e \in events[p] PROVE e.at < Now(p)
  <2>1. e.at \in Nat /\ Max(S) >= e.at
    BY <1>1, <1>3, <1>5
  <2> QED
    BY <1>4, <1>6, <2>1
<1> QED
  BY <1>7, <1>8

-----------------------------------------------------------------------------
(* The steps that leave the rows, the nodes and the ledger alone.          *)
Quiet ==
    \/ \E r \in Reviewers, p \in Proposals, d \in Decisions : Load(r, p, d)
    \/ \E r \in Deciders : Flush(r)
    \/ \E S \in SUBSET Proposals : BulkLoad(S)
    \/ BulkStep
    \/ \E x \in Extractors : Extract(x) \/ DeleteProposal(x)
    \/ UNCHANGED vars

(* They really do.                                                         *)
LEMMA QuietStep ==
  ASSUME Quiet
  PROVE  UNCHANGED <<row, nodes, events>>
  BY DEF Quiet, Load, Flush, BulkLoad, BulkStep, BulkBreaks, BulkAudit, BulkEnd,
         BulkNext, Extract, DeleteProposal, vars, db

(* Every step is quiet, or of one of five other kinds.                     *)
LEMMA Kinds ==
  ASSUME [Next]_vars
  PROVE  \/ Quiet
         \/ \E r \in Deciders : Emit(r) \/ Commit(r) \/ Fail(r)
         \/ \E x \in Extractors : Draft(x) \/ ExtractFails(x)
  BY DEF Next, Decide, ExtractStep, Quiet, Deciders

(* The rows an extraction leaves behind: N are its drafts, A those of them *)
(* it accepts at once.                                                     *)
Undrafted == {p \in Proposals : row[p].status = "absent"}

Drafts(x, N, A) ==
    /\ row' = [p \in Proposals |->
                 CASE lock[p] = x -> [row[p] EXCEPT !.status = "deleted"]
                   [] p \in A -> [status |-> "accepted", result |-> x]
                   [] p \in N \ A -> [status |-> "pending", result |-> Nobody]
                   [] OTHER -> row[p]]
    /\ nodes' = nodes \cup ({x} \X A)
    /\ events' = [p \in Proposals |-> events[p] \cup
                    IF p \in A THEN {Event("accepted", x, Now(p), TRUE)} ELSE {}]

(* Draft is one of them, for some drafts and some of these accepted.       *)
LEMMA DraftEffect ==
  ASSUME NEW x \in Extractors, Draft(x)
  PROVE  \E N \in SUBSET Undrafted : \E A \in SUBSET N : Drafts(x, N, A)
<1>1. PICK N \in SUBSET Undrafted :
        \E A \in SUBSET (N \ (Invalid \cup Dangling)) : Drafts(x, N, A)
  BY Zenon DEF Draft, Undrafted, Drafts
<1> QED
  BY <1>1

(* Before the first extraction nothing is recorded.                        *)
LEMMA InitInv == Init => IInv
<1> SUFFICES ASSUME Init PROVE IInv
  OBVIOUS
<1> USE RequestsAssumption DEF Init
<1>1. TypeOK
  <2>1. row \in [Proposals -> [status : Statuses, result : Requests \cup {Nobody}]]
    BY DEF Statuses
  <2>2. events \in [Proposals -> SUBSET Events]
    OBVIOUS
  <2>3. todo \in [{Bulk} \cup Extractors -> SUBSET Proposals]
    OBVIOUS
  <2>4. /\ lock \in [Proposals -> Requests \cup {Nobody}]
        /\ pc \in [Requests -> {"idle", "flush", "emit", "commit", "next", "delete", "llm"}]
        /\ hand \in [Requests -> Proposals \cup {Nobody}]
        /\ will \in [Requests -> Decisions \cup {Nobody}]
    OBVIOUS
  <2>5. nodes \subseteq Requests \X Proposals /\ wasPending \subseteq Proposals
    OBVIOUS
  <2>6. inTx \in BOOLEAN /\ expired \in BOOLEAN /\ audit \in {"none", "landed", "lost"}
    OBVIOUS
  <2>7. faults \in 0..MaxFaults
    OBVIOUS
  <2> QED
    BY <2>1, <2>2, <2>3, <2>4, <2>5, <2>6, <2>7 DEF TypeOK
<1>2. PlaceInv /\ ExistInv /\ LedgerInv /\ FreshInv
  BY DEF PlaceInv, ExistInv, LedgerInv, FreshInv, Deciders, Deciding, Requests
<1>3. LedgerTellsStatus /\ NodesAreExplained
  BY DEF LedgerTellsStatus, NodesAreExplained, Committed, Accepts, Decisions
<1> QED
  BY <1>1, <1>2, <1>3 DEF IInv

-----------------------------------------------------------------------------
(* What the end of a transaction does to locks and to the ledger's rows.   *)
LEMMA UnlockedType ==
  ASSUME TypeOK, NEW r \in Requests, Unlocked(r)
  PROVE  lock' \in [Proposals -> Requests \cup {Nobody}]
  BY DEF TypeOK, Unlocked

(* A rollback takes rows of the ledger away.                               *)
LEMMA RollbackType ==
  ASSUME TypeOK, NEW r \in Requests, Rollback(r)
  PROVE  /\ UNCHANGED <<row, nodes>>
         /\ lock' \in [Proposals -> Requests \cup {Nobody}]
         /\ events' \in [Proposals -> SUBSET Events]
<1>1. events' \in [Proposals -> SUBSET Events]
  <2>1. \A p \in Proposals : {e \in events[p] : e.committed \/ e.by # r} \in SUBSET Events
    BY DEF TypeOK
  <2> QED
    BY <2>1 DEF Rollback
<1> QED
  BY <1>1, UnlockedType DEF Rollback

(* After its answer a request holds no proposal.                           *)
LEMMA ProceedType ==
  ASSUME TypeOK, NEW r \in Requests, Proceed(r)
  PROVE  /\ pc' \in [Requests -> {"idle", "flush", "emit", "commit", "next", "delete", "llm"}]
         /\ hand' \in [Requests -> Proposals \cup {Nobody}]
         /\ will' \in [Requests -> Decisions \cup {Nobody}]
  BY DEF TypeOK, Proceed, Goto

(* The UPDATE of a decision keeps the type of a row.                       *)
LEMMA DecidedType ==
  ASSUME NEW t \in [status : Statuses, result : Requests \cup {Nobody}],
         NEW r \in Requests, will[r] \in Decisions
  PROVE  /\ Decided(r, t) \in [status : Statuses, result : Requests \cup {Nobody}]
         /\ Decided(r, t).status = will[r]
         /\ Decided(r, t).result = IF will[r] = "accepted" THEN r ELSE t.result
<1>1. CASE will[r] = "accepted"
  BY <1>1 DEF Decided, Statuses
<1>2. CASE will[r] # "accepted"
  BY <1>2 DEF Decided, Statuses
<1> QED
  BY <1>1, <1>2

(* A stamped row is a row of the ledger.                                   *)
LEMMA EventType ==
  ASSUME NEW d \in Decisions, NEW r \in Requests, NEW t \in Nat, NEW c \in BOOLEAN
  PROVE  Event(d, r, t, c) \in Events
  BY DEF Event, Events

(* Types, for the steps that only move requests and locks.                 *)
LEMMA QuietType ==
  ASSUME TypeOK, PlaceInv, Quiet
  PROVE  TypeOK'
<1> USE RequestsAssumption, Actors DEF TypeOK
<1>1. ASSUME NEW r \in Reviewers, NEW p \in Proposals, NEW d \in Decisions, Load(r, p, d)
      PROVE  TypeOK'
  BY <1>1 DEF Load, Take, Goto, db, bulk, Deciders
<1>2. ASSUME NEW r \in Deciders, Flush(r) PROVE TypeOK'
  BY <1>2 DEF Flush, Goto, bulk
<1>3. ASSUME NEW S \in SUBSET Proposals, BulkLoad(S) PROVE TypeOK'
  BY <1>3 DEF BulkLoad, Goto, db
<1>4. CASE BulkBreaks \/ BulkAudit
  BY <1>4, ZenonT(30) DEF BulkBreaks, BulkAudit, BulkEnd, Goto, db
<1>5. ASSUME NEW p \in Proposals, BulkNext(p) PROVE TypeOK'
  <2>1. /\ todo' \in [{Bulk} \cup Extractors -> SUBSET Proposals]
        /\ UNCHANGED <<row, lock, nodes, events, wasPending, audit, faults>>
        /\ inTx' \in BOOLEAN /\ expired' \in BOOLEAN
    BY <1>5 DEF BulkNext, db
  <2>2. UNCHANGED <<pc, hand, will>> \/ Take(Bulk, p, "accepted")
    BY <1>5 DEF BulkNext
  <2>3. /\ pc' \in [Requests -> {"idle", "flush", "emit", "commit", "next", "delete", "llm"}]
        /\ hand' \in [Requests -> Proposals \cup {Nobody}]
        /\ will' \in [Requests -> Decisions \cup {Nobody}]
    <3>1. CASE UNCHANGED <<pc, hand, will>>
      BY <3>1
    <3>2. CASE /\ pc' = [pc EXCEPT ![Bulk] = "flush"]
               /\ hand' = [hand EXCEPT ![Bulk] = p]
               /\ will' = [will EXCEPT ![Bulk] = "accepted"]
      BY <3>2 DEF Decisions
    <3> QED
      BY <2>2, <3>1, <3>2 DEF Take, Goto
  <2> QED
    BY <2>1, <2>3
<1>6. ASSUME NEW x \in Extractors, Extract(x) PROVE TypeOK'
  BY <1>6 DEF Extract, Goto, Pending, db, bulk
<1>7. ASSUME NEW x \in Extractors, DeleteProposal(x) PROVE TypeOK'
  <2>1. PICK p \in todo[x] :
          /\ lock' = [lock EXCEPT ![p] = x]
          /\ todo' = [todo EXCEPT ![x] = @ \ {p}]
          /\ Goto(x, IF todo[x] = {p} THEN "llm" ELSE "delete")
    BY <1>7 DEF DeleteProposal
  <2>2. pc' \in [Requests -> {"idle", "flush", "emit", "commit", "next", "delete", "llm"}]
    BY <2>1 DEF Goto
  <2> QED
    BY <1>7, <2>1, <2>2 DEF DeleteProposal, bulk
<1>8. CASE UNCHANGED vars
  BY <1>8 DEF vars
<1> QED
  BY <1>1, <1>2, <1>3, <1>4, <1>5, <1>6, <1>7, <1>8 DEF Quiet, BulkStep

(* Types, for every step.                                                  *)
LEMMA TypeStep ==
  ASSUME IInv, [Next]_vars
  PROVE  TypeOK'
<1>0. TypeOK /\ PlaceInv /\ LedgerInv /\ LedgerTellsStatus
  BY DEF IInv
<1> USE <1>0, RequestsAssumption, Actors
<1>1. ASSUME NEW r \in Deciders, Emit(r) PROVE TypeOK'
  <2>1. hand[r] \in Proposals /\ will[r] \in Decisions
    BY <1>1 DEF Emit, PlaceInv, Deciding
  <2>2. Event(will[r], r, Now(hand[r]), FALSE) \in Events
    BY <2>1, EventType, NowIsLater
  <2>3. events' \in [Proposals -> SUBSET Events]
    BY <1>1, <2>1, <2>2 DEF Emit, TypeOK
  <2> QED
    BY <1>1, <2>3 DEF Emit, TypeOK, Goto, bulk
<1>2. ASSUME NEW r \in Deciders, Commit(r) PROVE TypeOK'
  <2>1. hand[r] \in Proposals /\ will[r] \in Decisions
    BY <1>2 DEF Commit, PlaceInv, Deciding
  <2>2. Decided(r, row[hand[r]]) \in [status : Statuses, result : Requests \cup {Nobody}]
    BY <2>1, DecidedType DEF TypeOK
  <2>3. row' \in [Proposals -> [status : Statuses, result : Requests \cup {Nobody}]]
    BY <1>2, <2>1, <2>2 DEF Commit, TypeOK
  <2>4. \A e \in Events : [e EXCEPT !.committed = @ \/ e.by = r] \in Events
    BY DEF Events
  <2>5. events' \in [Proposals -> SUBSET Events]
    BY <1>2, <2>4 DEF Commit, TypeOK
  <2>6. nodes' \subseteq Requests \X Proposals
    BY <1>2, <2>1 DEF Commit, TypeOK
  <2>7. Unlocked(r) /\ Proceed(r)
    BY <1>2 DEF Commit
  <2>8. inTx' \in BOOLEAN
    BY <1>2 DEF Commit, TypeOK
  <2>9. UNCHANGED <<todo, wasPending, expired, audit, faults>>
    BY <1>2 DEF Commit
  <2> QED
    BY <2>3, <2>5, <2>6, <2>7, <2>8, <2>9, UnlockedType, ProceedType DEF TypeOK
<1>3. ASSUME NEW r \in Deciders, Fail(r) PROVE TypeOK'
  <2>1. Rollback(r) /\ Proceed(r) /\ UNCHANGED <<todo, wasPending, audit>>
    BY <1>3 DEF Fail
  <2>2. inTx' \in BOOLEAN /\ expired' \in BOOLEAN
    BY <1>3 DEF Fail, TypeOK
  <2>3. faults' \in 0..MaxFaults
    BY <1>3 DEF Fail, TypeOK
  <2> QED
    BY <2>1, <2>2, <2>3, RollbackType, ProceedType DEF TypeOK
<1>4. ASSUME NEW x \in Extractors, Draft(x) PROVE TypeOK'
  <2>1. PICK N \in SUBSET Undrafted : \E A \in SUBSET N : Drafts(x, N, A)
    BY <1>4, DraftEffect
  <2>2. PICK A \in SUBSET N : Drafts(x, N, A)
    BY <2>1
  <2>3. \A p \in Proposals : row'[p] \in [status : Statuses, result : Requests \cup {Nobody}]
    BY <2>2 DEF Drafts, TypeOK, Statuses, Decisions
  <2>4. row' \in [Proposals -> [status : Statuses, result : Requests \cup {Nobody}]]
    BY <2>2, <2>3 DEF Drafts
  <2>5. \A p \in Proposals : Event("accepted", x, Now(p), TRUE) \in Events
    BY EventType, NowIsLater DEF Decisions
  <2>6. events' \in [Proposals -> SUBSET Events]
    <3>1. \A p \in Proposals :
            events[p] \cup (IF p \in A THEN {Event("accepted", x, Now(p), TRUE)} ELSE {})
              \in SUBSET Events
      <4> SUFFICES ASSUME NEW p \in Proposals
                   PROVE  events[p] \cup (IF p \in A THEN {Event("accepted", x, Now(p), TRUE)} ELSE {})
                            \in SUBSET Events
        OBVIOUS
      <4>1. events[p] \subseteq Events
        BY DEF TypeOK
      <4> QED
        BY <2>5, <4>1
    <3> QED
      BY <2>2, <3>1 DEF Drafts
  <2>7. nodes' \subseteq Requests \X Proposals
    BY <2>2 DEF Drafts, Undrafted, TypeOK
  <2>8. Unlocked(x) /\ UNCHANGED <<hand, will, todo, bulk, faults>>
    BY <1>4 DEF Draft
  <2>9. pc' \in [Requests -> {"idle", "flush", "emit", "commit", "next", "delete", "llm"}]
    BY <1>4 DEF Draft, Goto, TypeOK
  <2> QED
    BY <2>4, <2>6, <2>7, <2>8, <2>9, UnlockedType DEF TypeOK, bulk
<1>5. ASSUME NEW x \in Extractors, ExtractFails(x) PROVE TypeOK'
  <2>1. Rollback(x) /\ UNCHANGED <<hand, will, bulk>>
    BY <1>5 DEF ExtractFails
  <2>2. /\ todo' \in [{Bulk} \cup Extractors -> SUBSET Proposals]
        /\ pc' \in [Requests -> {"idle", "flush", "emit", "commit", "next", "delete", "llm"}]
        /\ faults' \in 0..MaxFaults
    BY <1>5 DEF ExtractFails, Goto, TypeOK
  <2> QED
    BY <2>1, <2>2, RollbackType DEF TypeOK, bulk
<1> QED
  BY <1>1, <1>2, <1>3, <1>4, <1>5, Kinds, QuietType

-----------------------------------------------------------------------------
(* A lock is kept to the end of the transaction of its holder.             *)
LEMMA PlaceStep ==
  ASSUME IInv, [Next]_vars
  PROVE  PlaceInv'
<1>0. TypeOK /\ PlaceInv
  BY DEF IInv
<1> USE <1>0, RequestsAssumption, Actors DEF TypeOK, PlaceInv, Deciding
<1>1. ASSUME NEW r \in Reviewers, NEW p \in Proposals, NEW d \in Decisions, Load(r, p, d)
      PROVE  PlaceInv'
  BY <1>1 DEF Load, Take, Goto, db, Deciders
<1>2. ASSUME NEW r \in Deciders, Flush(r) PROVE PlaceInv'
  BY <1>2 DEF Flush, Goto
<1>3. ASSUME NEW S \in SUBSET Proposals, BulkLoad(S) PROVE PlaceInv'
  BY <1>3 DEF BulkLoad, Goto, db
<1>4. CASE BulkBreaks \/ BulkAudit
  BY <1>4 DEF BulkBreaks, BulkAudit, BulkEnd, Goto, db
<1>5. ASSUME NEW p \in Proposals, BulkNext(p) PROVE PlaceInv'
  <2>1. lock' = lock /\ (UNCHANGED <<pc, hand, will>> \/ Take(Bulk, p, "accepted"))
    BY <1>5 DEF BulkNext, db
  <2>2. CASE UNCHANGED <<pc, hand, will>>
    BY <2>1, <2>2
  <2>3. CASE Take(Bulk, p, "accepted")
    BY <2>1, <2>3 DEF Take, Goto, Decisions
  <2> QED
    BY <2>1, <2>2, <2>3
<1>6. ASSUME NEW x \in Extractors, Extract(x) PROVE PlaceInv'
  BY <1>6 DEF Extract, Goto, db
<1>7. ASSUME NEW x \in Extractors, DeleteProposal(x) PROVE PlaceInv'
  <2>1. PICK p \in todo[x] :
          /\ lock[p] = Nobody /\ lock' = [lock EXCEPT ![p] = x]
          /\ Goto(x, IF todo[x] = {p} THEN "llm" ELSE "delete")
    BY <1>7 DEF DeleteProposal
  <2>2. pc' = [pc EXCEPT ![x] = "llm"] \/ pc' = [pc EXCEPT ![x] = "delete"]
    BY <2>1 DEF Goto
  <2>3. UNCHANGED <<hand, will>>
    BY <1>7 DEF DeleteProposal
  <2>4. \A r \in Deciders : pc'[r] = pc[r]
    BY <2>2
  <2>5. \A r \in Deciders : pc[r] \in {"emit", "commit"} => lock'[hand[r]] = r
    BY <2>1
  <2> QED
    BY <2>2, <2>3, <2>4, <2>5
<1>8. ASSUME NEW r \in Deciders, Emit(r) PROVE PlaceInv'
  BY <1>8 DEF Emit, Goto
<1>9. ASSUME NEW r \in Deciders, Unlocked(r), Proceed(r) PROVE PlaceInv'
  <2>1. \A s \in Deciders : s # r => pc'[s] = pc[s] /\ hand'[s] = hand[s] /\ will'[s] = will[s]
    BY <1>9 DEF Proceed, Goto
  <2>2. pc'[r] \in {"idle", "next"}
    BY <1>9 DEF Proceed, Goto
  <2>3. \A s \in Deciders : s # r /\ pc[s] \in {"emit", "commit"} => lock'[hand[s]] = s
    BY <1>9 DEF Unlocked
  <2>4. \A x \in Extractors : pc'[x] = pc[x]
    BY <1>9 DEF Proceed, Goto
  <2> QED
    BY <2>1, <2>2, <2>3, <2>4
<1>10. ASSUME NEW x \in Extractors, Unlocked(x), Goto(x, "idle"), UNCHANGED <<hand, will>>
       PROVE  PlaceInv'
  <2>1. \A s \in Deciders : pc'[s] = pc[s]
    BY <1>10 DEF Goto
  <2>2. \A s \in Deciders : pc[s] \in {"emit", "commit"} => lock'[hand[s]] = s
    BY <1>10 DEF Unlocked
  <2>3. \A y \in Extractors : pc'[y] \in {"idle", "delete", "llm"}
    BY <1>10 DEF Goto
  <2> QED
    BY <1>10, <2>1, <2>2, <2>3
<1>11. CASE UNCHANGED vars
  BY <1>11 DEF vars
<1>12. CASE Quiet
  BY <1>1, <1>2, <1>3, <1>4, <1>5, <1>6, <1>7, <1>11, <1>12 DEF Quiet, BulkStep
<1>13. ASSUME NEW r \in Deciders, Commit(r) \/ Fail(r) PROVE PlaceInv'
  BY <1>9, <1>13 DEF Commit, Fail, Rollback
<1>14. ASSUME NEW x \in Extractors, Draft(x) \/ ExtractFails(x) PROVE PlaceInv'
  BY <1>10, <1>14 DEF Draft, ExtractFails, Rollback
<1> QED
  BY <1>8, <1>12, <1>13, <1>14, Kinds

(* A drafted proposal stays drafted.                                       *)
LEMMA StaysDrafted ==
  ASSUME IInv, [Next]_vars, NEW p \in Proposals, row[p].status # "absent"
  PROVE  row'[p].status # "absent"
<1>0. TypeOK /\ PlaceInv
  BY DEF IInv
<1>1. CASE row' = row
  BY <1>1
<1>2. ASSUME NEW r \in Deciders, Commit(r) PROVE row'[p].status # "absent"
  <2>1. hand[r] \in Proposals /\ will[r] \in Decisions
    BY <1>0, <1>2 DEF Commit, PlaceInv, Deciding
  <2>2. row' = [row EXCEPT ![hand[r]] = Decided(r, row[hand[r]])]
    BY <1>2 DEF Commit
  <2>3. Decided(r, row[hand[r]]).status = will[r]
    BY <1>0, <2>1, DecidedType, Actors DEF TypeOK
  <2>4. will[r] # "absent"
    BY <2>1 DEF Decisions
  <2> QED
    BY <1>0, <2>1, <2>2, <2>3, <2>4 DEF TypeOK
<1>3. ASSUME NEW x \in Extractors, Draft(x) PROVE row'[p].status # "absent"
  <2>1. PICK N \in SUBSET Undrafted : \E A \in SUBSET N : Drafts(x, N, A)
    BY <1>3, DraftEffect
  <2>2. PICK A \in SUBSET N : Drafts(x, N, A)
    BY <2>1
  <2>3. p \notin N
    BY DEF Undrafted
  <2>4. row'[p] = IF lock[p] = x THEN [row[p] EXCEPT !.status = "deleted"] ELSE row[p]
    BY <2>2, <2>3 DEF Drafts
  <2> QED
    BY <1>0, <2>4 DEF TypeOK
<1> QED
  BY <1>1, <1>2, <1>3, Kinds, QuietStep DEF Emit, Fail, Rollback, ExtractFails

-----------------------------------------------------------------------------
(* How a request comes to be deciding a proposal.                          *)
LEMMA Courses ==
  ASSUME IInv, [Next]_vars, NEW r \in Deciders, pc'[r] \in Deciding
  PROVE  \/ pc[r] \in Deciding /\ hand'[r] = hand[r] /\ will'[r] = will[r]
         \/ /\ r \in Reviewers
            /\ \E p \in Proposals, d \in Decisions :
                 Load(r, p, d) /\ hand'[r] = p /\ will'[r] = d
         \/ /\ r = Bulk
            /\ \E p \in todo[Bulk] \cap wasPending :
                 BulkNext(p) /\ hand'[r] = p /\ p \notin todo'[Bulk]
<1>0. TypeOK
  BY DEF IInv
<1> USE <1>0, RequestsAssumption, Actors DEF TypeOK, Deciding
<1> DEFINE Keeps == pc[r] \in Deciding /\ hand'[r] = hand[r] /\ will'[r] = will[r]
<1>1. ASSUME NEW q \in Reviewers, NEW p \in Proposals, NEW d \in Decisions, Load(q, p, d)
      PROVE  Keeps \/ (r = q /\ hand'[r] = p /\ will'[r] = d)
  BY <1>1 DEF Load, Take, Goto, Deciders
<1>2. ASSUME NEW q \in Deciders, Flush(q) \/ Emit(q) PROVE Keeps
  BY <1>2 DEF Flush, Emit, Goto
<1>3. ASSUME NEW S \in SUBSET Proposals, BulkLoad(S) PROVE Keeps
  BY <1>3 DEF BulkLoad, Goto
<1>4. CASE BulkBreaks \/ BulkAudit
  BY <1>4 DEF BulkBreaks, BulkAudit, BulkEnd, Goto
<1>5. ASSUME NEW p \in Proposals, BulkNext(p)
      PROVE  Keeps \/ (r = Bulk /\ p \in todo[Bulk] \cap wasPending /\ hand'[r] = p
                        /\ p \notin todo'[Bulk])
  <2>1. p \in todo[Bulk] /\ todo' = [todo EXCEPT ![Bulk] = @ \ {p}]
    BY <1>5 DEF BulkNext
  <2>2. p \notin todo'[Bulk]
    BY <2>1
  <2>3. UNCHANGED <<pc, hand, will>> \/ (p \in wasPending /\ Take(Bulk, p, "accepted"))
    BY <1>5 DEF BulkNext
  <2>4. CASE UNCHANGED <<pc, hand, will>>
    BY <2>4
  <2>5. CASE p \in wasPending /\ Take(Bulk, p, "accepted")
    BY <2>1, <2>2, <2>5 DEF Take, Goto
  <2> QED
    BY <2>3, <2>4, <2>5
<1>6. ASSUME NEW x \in Extractors, Extract(x) \/ DeleteProposal(x) PROVE Keeps
  <2>1. \E l : pc' = [pc EXCEPT ![x] = l]
    BY <1>6 DEF Extract, DeleteProposal, Goto
  <2>2. r # x /\ pc'[r] = pc[r]
    BY <2>1
  <2> QED
    BY <1>6, <2>2 DEF Extract, DeleteProposal
<1>7. ASSUME NEW q \in Deciders, Commit(q) \/ Fail(q) PROVE Keeps
  BY <1>7 DEF Commit, Fail, Proceed, Goto
<1>8. ASSUME NEW x \in Extractors, Draft(x) \/ ExtractFails(x) PROVE Keeps
  BY <1>8 DEF Draft, ExtractFails, Goto
<1>9. CASE UNCHANGED vars
  BY <1>9 DEF vars
<1>10. CASE Quiet
  BY <1>1, <1>2, <1>3, <1>4, <1>5, <1>6, <1>9, <1>10 DEF Quiet, BulkStep
<1> QED
  BY <1>2, <1>7, <1>8, <1>10, Kinds

(* Where the candidates of the bulk accept come from.                      *)
LEMMA Candidates ==
  ASSUME IInv, [Next]_vars
  PROVE  \/ \E S \in SUBSET Proposals : BulkLoad(S)
         \/ todo'[Bulk] \subseteq todo[Bulk] /\ todo'[Bulk] \cap wasPending' \subseteq wasPending
<1>0. TypeOK
  BY DEF IInv
<1> USE <1>0, RequestsAssumption, Actors DEF TypeOK
<1> DEFINE Fewer == todo'[Bulk] \subseteq todo[Bulk]
                    /\ todo'[Bulk] \cap wasPending' \subseteq wasPending
<1>1. ASSUME NEW q \in Reviewers, NEW p \in Proposals, NEW d \in Decisions, Load(q, p, d)
      PROVE  Fewer
  BY <1>1 DEF Load, bulk
<1>2. ASSUME NEW q \in Deciders, Flush(q) \/ Emit(q) PROVE Fewer
  BY <1>2 DEF Flush, Emit, bulk
<1>3. CASE BulkBreaks \/ BulkAudit
  BY <1>3 DEF BulkBreaks, BulkAudit, BulkEnd
<1>4. ASSUME NEW p \in Proposals, BulkNext(p) PROVE Fewer
  <2>1. todo' = [todo EXCEPT ![Bulk] = @ \ {p}] /\ wasPending' = wasPending
    BY <1>4 DEF BulkNext
  <2> QED
    BY <2>1
<1>5. ASSUME NEW x \in Extractors, Extract(x) \/ DeleteProposal(x) PROVE Fewer
  <2>1. \E T : todo' = [todo EXCEPT ![x] = T]
    BY <1>5 DEF Extract, DeleteProposal
  <2>2. todo'[Bulk] = todo[Bulk]
    BY <2>1
  <2> QED
    BY <1>5, <2>2 DEF Extract, DeleteProposal, bulk
<1>6. ASSUME NEW q \in Deciders, Commit(q) \/ Fail(q) PROVE Fewer
  BY <1>6 DEF Commit, Fail
<1>7. ASSUME NEW x \in Extractors, Draft(x) \/ ExtractFails(x) PROVE Fewer
  BY <1>7 DEF Draft, ExtractFails, bulk
<1>8. CASE UNCHANGED vars
  BY <1>8 DEF vars
<1>9. CASE Quiet
  BY <1>1, <1>2, <1>3, <1>4, <1>5, <1>8, <1>9 DEF Quiet, BulkStep
<1> QED
  BY <1>2, <1>6, <1>7, <1>9, Kinds

(* A decider makes a node or edge at its commit only.                      *)
LEMMA NodesGrow ==
  ASSUME IInv, [Next]_vars, NEW r \in Deciders, NEW p \in Proposals,
         <<r, p>> \notin nodes, <<r, p>> \in nodes'
  PROVE  Commit(r) /\ hand[r] = p
<1>1. ~ (UNCHANGED nodes)
  OBVIOUS
<1>2. ASSUME NEW q \in Deciders, Commit(q) PROVE q = r /\ hand[q] = p
  BY <1>2 DEF Commit
<1>3. ASSUME NEW x \in Extractors PROVE ~Draft(x)
  <2> SUFFICES ASSUME Draft(x) PROVE FALSE
    OBVIOUS
  <2>1. PICK N \in SUBSET Undrafted : \E A \in SUBSET N : Drafts(x, N, A)
    BY DraftEffect
  <2>2. PICK A \in SUBSET N : Drafts(x, N, A)
    BY <2>1
  <2>3. <<r, p>> \in {x} \X A
    BY <2>2 DEF Drafts
  <2> QED
    BY <2>3, Actors
<1> QED
  BY <1>1, <1>2, <1>3, Kinds, QuietStep DEF Emit, Fail, Rollback, ExtractFails

(* What is decided was read as a row, and rows do not vanish.              *)
LEMMA ExistStep ==
  ASSUME IInv, [Next]_vars
  PROVE  ExistInv'
<1>0. TypeOK /\ PlaceInv /\ ExistInv /\ TypeOK' /\ PlaceInv'
  BY TypeStep, PlaceStep DEF IInv
<1>1. ASSUME NEW r \in Deciders, pc'[r] \in Deciding PROVE row'[hand'[r]].status # "absent"
  <2>1. hand'[r] \in Proposals
    BY <1>0, <1>1 DEF PlaceInv
  <2>2. row[hand'[r]].status # "absent"
    BY <1>0, <1>1, Courses DEF ExistInv, Load, Exists
  <2> QED
    BY <2>1, <2>2, StaysDrafted
<1>2. ASSUME NEW p \in todo'[Bulk] PROVE row'[p].status # "absent"
  <2>1. p \in Proposals
    BY <1>0 DEF TypeOK
  <2>2. row[p].status # "absent"
    <3>1. CASE todo'[Bulk] \subseteq todo[Bulk]
      BY <1>0, <1>2, <3>1 DEF ExistInv
    <3>2. ASSUME NEW S \in SUBSET Proposals, BulkLoad(S) PROVE row[p].status # "absent"
      <4>1. todo'[Bulk] = S /\ \A q \in S : Exists(q)
        BY <1>0, <3>2 DEF BulkLoad, TypeOK
      <4> QED
        BY <1>2, <4>1 DEF Exists
    <3> QED
      BY <3>1, <3>2, Candidates
  <2> QED
    BY <2>1, <2>2, StaysDrafted
<1> QED
  BY <1>1, <1>2 DEF ExistInv

(* What is to be accepted was read as pending, and so has nothing yet;     *)
(* afterwards only the request itself could make it.                       *)
LEMMA FreshStep ==
  ASSUME IInv, [Next]_vars
  PROVE  FreshInv'
<1>0. /\ TypeOK /\ PlaceInv /\ FreshInv /\ LedgerTellsStatus /\ NodesAreExplained
      /\ TypeOK' /\ PlaceInv'
  BY TypeStep, PlaceStep DEF IInv
<1>1. ASSUME NEW q \in Pending PROVE q \in Proposals /\ \A r \in Requests : <<r, q>> \notin nodes
  BY <1>0, Undecided DEF Pending
<1>2. ASSUME NEW r \in Deciders, pc'[r] \in Deciding, will'[r] = "accepted"
      PROVE  <<r, hand'[r]>> \notin nodes'
  <2>1. ~Commit(r)
    BY <1>0, <1>2, Actors DEF Commit, Proceed, Goto, Deciding, TypeOK
  <2>2. hand'[r] \in Proposals
    BY <1>0, <1>2 DEF PlaceInv
  <2>3. <<r, hand'[r]>> \notin nodes
    BY <1>0, <1>1, <1>2, Courses, Actors DEF FreshInv, Load
  <2> QED
    BY <2>1, <2>2, <2>3, NodesGrow
<1>3. ASSUME NEW p \in todo'[Bulk] \cap wasPending' PROVE <<Bulk, p>> \notin nodes'
  <2>1. p \in Proposals
    BY <1>0 DEF TypeOK
  <2>2. ASSUME NEW S \in SUBSET Proposals, BulkLoad(S) PROVE <<Bulk, p>> \notin nodes'
    <3>1. p \in Pending /\ nodes' = nodes
      BY <1>3, <2>2 DEF BulkLoad, db
    <3> QED
      BY <1>1, <3>1, Actors
  <2>3. CASE todo'[Bulk] \subseteq todo[Bulk] /\ todo'[Bulk] \cap wasPending' \subseteq wasPending
    <3>1. p \in todo[Bulk] /\ <<Bulk, p>> \notin nodes
      BY <1>0, <1>3, <2>3 DEF FreshInv
    <3>2. ~(Commit(Bulk) /\ hand[Bulk] = p)
      BY <1>0, <3>1 DEF FreshInv, Commit, Deciding
    <3> QED
      BY <2>1, <3>1, <3>2, NodesGrow, Actors
  <2> QED
    BY <2>2, <2>3, Candidates
<1>4. ASSUME pc'[Bulk] \in Deciding PROVE hand'[Bulk] \notin todo'[Bulk]
  <2>1. CASE pc[Bulk] \in Deciding /\ hand'[Bulk] = hand[Bulk]
    <3>1. \A S \in SUBSET Proposals : ~BulkLoad(S)
      BY <2>1 DEF BulkLoad, Deciding
    <3> QED
      BY <1>0, <2>1, <3>1, Candidates DEF FreshInv
  <2> QED
    BY <1>4, <2>1, Courses, Actors, RequestsAssumption
<1> QED
  BY <1>2, <1>3, <1>4 DEF FreshInv

-----------------------------------------------------------------------------
(* A commit changes nothing of a row but whether it counts, and that only  *)
(* of the rows of its own request.                                         *)
Landed(e, r) == [e EXCEPT !.committed = @ \/ e.by = r]

(* That is all it does.                                                    *)
LEMMA LandedRow ==
  ASSUME NEW e \in Events, NEW r \in Requests
  PROVE  /\ Landed(e, r).what = e.what /\ Landed(e, r).by = e.by /\ Landed(e, r).at = e.at
         /\ Landed(e, r).committed <=> e.committed \/ e.by = r
         /\ e.committed \/ e.by # r => Landed(e, r) = e
<1>1. e = [what |-> e.what, by |-> e.by, at |-> e.at, committed |-> e.committed]
  BY DEF Events
<1>2. e.committed \in BOOLEAN
  BY DEF Events
<1>3. Landed(e, r) = [what |-> e.what, by |-> e.by, at |-> e.at,
                      committed |-> e.committed \/ e.by = r]
  BY <1>1 DEF Landed
<1>4. CASE e.by = r
  <2>1. (e.committed \/ e.by = r) = TRUE
    BY <1>4
  <2>2. Landed(e, r) = [what |-> e.what, by |-> e.by, at |-> e.at, committed |-> TRUE]
    BY <1>3, <2>1
  <2>3. e.committed => e.committed = TRUE
    BY <1>2
  <2> QED
    BY <1>1, <1>4, <2>2, <2>3
<1>5. CASE e.by # r
  <2>1. (e.committed \/ e.by = r) = e.committed
    BY <1>2, <1>5
  <2>2. Landed(e, r) = e
    BY <1>1, <1>3, <2>1
  <2> QED
    BY <1>5, <2>2
<1> QED
  BY <1>4, <1>5

(* What a decider commits: the row it stamped, which is the latest of its  *)
(* proposal, and nothing about any other.                                  *)
LEMMA CommitEffect ==
  ASSUME IInv, NEW r \in Deciders, Commit(r), NEW p, p = hand[r]
  PROVE  /\ p \in Proposals /\ will[r] \in Decisions
         /\ row'[p] = Decided(r, row[p])
         /\ \A q \in Proposals \ {p} : row'[q] = row[q] /\ Committed(q)' = Committed(q)
         /\ nodes' = nodes \cup (IF will[r] = "accepted" THEN {<<r, p>>} ELSE {})
         /\ \E e : /\ e.by = r /\ e.what = will[r]
                   /\ Committed(p)' = Committed(p) \cup {e}
                   /\ e.committed /\ \A f \in Committed(p) : f.at <= e.at
                   /\ e.at \in Nat
<1>0. TypeOK /\ PlaceInv /\ LedgerInv
  BY DEF IInv
<1>1. p \in Proposals /\ will[r] \in Decisions /\ pc[r] = "commit"
  BY <1>0 DEF Commit, PlaceInv, Deciding
<1>2. PICK e \in events[p] : ~e.committed /\ e.by = r
  BY <1>0, <1>1 DEF LedgerInv
<1>3. IsOpen(e, p)
  BY <1>0, <1>1, <1>2 DEF LedgerInv
<1>4. \A q \in Proposals : events'[q] = {Landed(f, r) : f \in events[q]}
  BY DEF Commit, Landed
<1>5. \A q \in Proposals : \A f \in events[q] :
        f \in Events /\ (f.committed \/ f.by # r => Landed(f, r) = f)
  BY <1>0, LandedRow, Actors DEF TypeOK
<1>6. ASSUME NEW q \in Proposals \ {p} PROVE row'[q] = row[q] /\ Committed(q)' = Committed(q)
  <2>1. \A f \in events[q] : f.by = r => f.committed
    BY <1>0, <1>6 DEF LedgerInv, IsOpen
  <2>2. \A f \in events[q] : Landed(f, r) = f
    BY <1>5, <2>1
  <2>3. events'[q] = events[q]
    BY <1>4, <2>2
  <2> QED
    BY <2>3, <1>0 DEF Commit, Committed, TypeOK
<1>7. ASSUME NEW f \in events[p], f.by = r, ~f.committed PROVE f = e
  <2>1. IsOpen(f, p)
    BY <1>0, <1>1, <1>7 DEF LedgerInv
  <2>2. f.at <= e.at /\ e.at <= f.at
    BY <1>2, <1>3, <2>1 DEF IsOpen
  <2>3. f.at \in Nat /\ e.at \in Nat
    BY <1>1, <1>2, <1>5 DEF Events
  <2>4. f.at = e.at
    BY <2>2, <2>3
  <2> QED
    BY <1>0, <1>1, <1>2, <2>4 DEF LedgerInv
<1>8. events'[p] = (events[p] \ {e}) \cup {Landed(e, r)}
  <2>1. \A f \in events[p] : f # e => Landed(f, r) = f
    BY <1>1, <1>5, <1>7
  <2> QED
    BY <1>1, <1>2, <1>4, <2>1
<1>9. /\ Landed(e, r).by = r /\ Landed(e, r).what = will[r] /\ Landed(e, r).committed
      /\ Landed(e, r).at = e.at /\ e.at \in Nat
  <2>1. e \in Events /\ e.at \in Nat
    BY <1>1, <1>2, <1>5 DEF Events
  <2> QED
    BY <1>2, <1>3, <2>1, LandedRow, Actors DEF IsOpen
<1>10. Committed(p)' = Committed(p) \cup {Landed(e, r)}
  <2>1. Committed(p)' = {f \in events'[p] : f.committed}
    BY DEF Committed
  <2>2. Committed(p) = {f \in events[p] \ {e} : f.committed}
    BY <1>2 DEF Committed
  <2>3. Landed(e, r).committed
    BY <1>9
  <2> QED
    BY <1>8, <2>1, <2>2, <2>3, Zenon
<1>11. \A f \in Committed(p) : f.at <= Landed(e, r).at
  BY <1>3, <1>9 DEF IsOpen, Committed
<1>12. row'[p] = Decided(r, row[p])
  BY <1>0, <1>1 DEF Commit, TypeOK
<1> QED
  BY <1>1, <1>6, <1>9, <1>10, <1>11, <1>12 DEF Commit

(* A draft that is accepted at once gets the first row of its ledger.      *)
LEMMA DraftedRows ==
  ASSUME IInv, NEW x \in Extractors, NEW N \in SUBSET Undrafted, NEW A \in SUBSET N,
         Drafts(x, N, A)
  PROVE  /\ \A p \in N : p \in Proposals /\ events[p] = {}
         /\ \A p \in Proposals \ A : events'[p] = events[p]
         /\ \A p \in A : events'[p] = {Event("accepted", x, Now(p), TRUE)}
<1>0. TypeOK /\ ExistInv /\ LedgerInv /\ LedgerTellsStatus /\ NodesAreExplained
  BY DEF IInv
<1>1. ASSUME NEW p \in N PROVE p \in Proposals /\ events[p] = {}
  <2>1. p \in Proposals /\ row[p].status = "absent"
    BY DEF Undrafted
  <2>2. Committed(p) = {}
    BY <1>0, <2>1, Undecided
  <2>3. ASSUME NEW e \in events[p] PROVE e.committed
    BY <1>0, <2>1 DEF LedgerInv, IsOpen, ExistInv, Deciding
  <2> QED
    BY <2>1, <2>2, <2>3 DEF Committed
<1>2. \A p \in Proposals \ A : events'[p] = events[p]
  BY DEF Drafts
<1>3. ASSUME NEW p \in A PROVE events'[p] = {Event("accepted", x, Now(p), TRUE)}
  BY <1>1 DEF Drafts
<1> QED
  BY <1>1, <1>2, <1>3

(* The other steps commit no row.                                          *)
LEMMA SameRecord ==
  ASSUME IInv, \/ Quiet
               \/ \E r \in Deciders : Emit(r) \/ Fail(r)
               \/ \E x \in Extractors : ExtractFails(x)
  PROVE  UNCHANGED <<row, nodes>> /\ \A p \in Proposals : Committed(p)' = Committed(p)
<1>0. TypeOK /\ PlaceInv
  BY DEF IInv
<1>1. CASE Quiet
  BY <1>1, QuietStep DEF Committed
<1>2. ASSUME NEW r \in Deciders, Emit(r)
      PROVE  UNCHANGED <<row, nodes>> /\ \A p \in Proposals : Committed(p)' = Committed(p)
  <2>1. hand[r] \in Proposals
    BY <1>0, <1>2 DEF Emit, PlaceInv, Deciding
  <2>2. ~Event(will[r], r, Now(hand[r]), FALSE).committed
    BY DEF Event
  <2>3. \A p \in Proposals \ {hand[r]} : events'[p] = events[p]
    BY <1>0, <1>2 DEF Emit, TypeOK
  <2>4. events'[hand[r]] = events[hand[r]] \cup {Event(will[r], r, Now(hand[r]), FALSE)}
    BY <1>0, <1>2, <2>1 DEF Emit, TypeOK
  <2>5. \A p \in Proposals : Committed(p)' = Committed(p)
    BY <2>2, <2>3, <2>4 DEF Committed
  <2> QED
    BY <1>2, <2>5 DEF Emit
<1>3. ASSUME NEW r \in Requests, Rollback(r)
      PROVE  UNCHANGED <<row, nodes>> /\ \A p \in Proposals : Committed(p)' = Committed(p)
  BY <1>3 DEF Rollback, Committed
<1> QED
  BY <1>1, <1>2, <1>3, Actors DEF Fail, ExtractFails

-----------------------------------------------------------------------------
(* A decision replaces status and latest row in one commit; a draft that is *)
(* accepted at once has its row from the start; a deletion is allowed for. *)
LEMMA StatusStep ==
  ASSUME IInv, [Next]_vars
  PROVE  LedgerTellsStatus'
<1>0. TypeOK /\ LedgerTellsStatus
  BY DEF IInv
<1>1. ASSUME NEW p \in Proposals, row'[p] = row[p], Committed(p)' = Committed(p)
      PROVE  IF Committed(p)' = {} THEN row'[p].status \notin Decisions
             ELSE \E e \in Latest(p)' : row'[p].status \in {e.what, "deleted"}
  BY <1>0, <1>1 DEF LedgerTellsStatus, Latest
<1>2. CASE UNCHANGED row /\ \A p \in Proposals : Committed(p)' = Committed(p)
  BY <1>1, <1>2 DEF LedgerTellsStatus
<1>3. ASSUME NEW r \in Deciders, Commit(r) PROVE LedgerTellsStatus'
  <2>0. PICK p : p = hand[r]
    OBVIOUS
  <2>1. p \in Proposals /\ row'[p].status = will[r]
    BY <1>0, <1>3, <2>0, CommitEffect, DecidedType, Actors DEF TypeOK
  <2>2. PICK e : /\ e.what = will[r] /\ Committed(p)' = Committed(p) \cup {e}
                 /\ \A f \in Committed(p) : f.at <= e.at
                 /\ e.at \in Nat
    BY <1>3, <2>0, CommitEffect
  <2>3. e \in Latest(p)'
    BY <2>2 DEF Latest
  <2>4. \A q \in Proposals \ {p} : row'[q] = row[q] /\ Committed(q)' = Committed(q)
    BY <1>3, <2>0, CommitEffect
  <2>5. IF Committed(p)' = {} THEN row'[p].status \notin Decisions
        ELSE \E f \in Latest(p)' : row'[p].status \in {f.what, "deleted"}
    BY <2>1, <2>2, <2>3
  <2> QED
    BY <1>1, <2>1, <2>4, <2>5 DEF LedgerTellsStatus
<1>4. ASSUME NEW x \in Extractors, Draft(x) PROVE LedgerTellsStatus'
  <2>1. PICK N \in SUBSET Undrafted : \E A \in SUBSET N : Drafts(x, N, A)
    BY <1>4, DraftEffect
  <2>2. PICK A \in SUBSET N : Drafts(x, N, A)
    BY <2>1
  <2>3. ASSUME NEW p \in A
        PROVE  \E e \in Latest(p)' : row'[p].status \in {e.what, "deleted"}
    <3>1. p \in Proposals /\ events'[p] = {Event("accepted", x, Now(p), TRUE)}
      BY <2>2, DraftedRows
    <3>2. Event("accepted", x, Now(p), TRUE) \in Latest(p)'
      <4>1. Now(p) \in Nat
        BY <1>0, <3>1, NowIsLater DEF IInv
      <4> QED
        BY <3>1, <4>1 DEF Latest, Committed, Event
    <3>3. row'[p].status \in {"accepted", "deleted"}
      BY <1>0, <2>2, <3>1 DEF Drafts, TypeOK
    <3> QED
      BY <3>2, <3>3 DEF Event
  <2>4. ASSUME NEW p \in Proposals \ A
        PROVE  IF Committed(p)' = {} THEN row'[p].status \notin Decisions
               ELSE \E e \in Latest(p)' : row'[p].status \in {e.what, "deleted"}
    <3>1. Committed(p)' = Committed(p)
      <4>1. events'[p] = events[p]
        BY <2>2, DraftedRows
      <4> QED
        BY <4>1 DEF Committed
    <3>2. CASE row'[p].status = "deleted"
      <4>1. Latest(p)' = Latest(p) /\ (Committed(p) # {} => Latest(p) # {})
        BY <1>0, <3>1 DEF Latest, LedgerTellsStatus
      <4> QED
        BY <3>1, <3>2, <4>1 DEF Decisions
    <3>3. CASE p \in N /\ row'[p].status = "pending"
      <4>1. Committed(p) = {}
        BY <2>2, <3>3, DraftedRows DEF Committed
      <4> QED
        BY <3>1, <3>3, <4>1 DEF Decisions
    <3>4. CASE row'[p] = row[p]
      BY <1>1, <3>1, <3>4
    <3> QED
      BY <1>0, <2>2, <3>2, <3>3, <3>4 DEF Drafts, TypeOK
  <2>5. \A p \in A : Committed(p)' # {}
    BY <2>3 DEF Latest
  <2> QED
    BY <2>3, <2>4, <2>5 DEF LedgerTellsStatus
<1> QED
  BY <1>2, <1>3, <1>4, Kinds, SameRecord

(* The part of NodesAreExplained about one proposal.                       *)
Explained(p) ==
    /\ \A r \in Requests :
         /\ <<r, p>> \in nodes <=> Accepts(r, p) # {}
         /\ \A e, f \in Accepts(r, p) : e = f
    /\ row[p].status = "accepted" => <<row[p].result, p>> \in nodes

(* Nothing about p has changed: neither has its explanation.               *)
LEMMA StaysExplained ==
  ASSUME NEW p, Explained(p), nodes \subseteq nodes',
         row'[p].status = "accepted" => row'[p] = row[p],
         \A s \in Requests : /\ Accepts(s, p)' = Accepts(s, p)
                             /\ <<s, p>> \in nodes' <=> <<s, p>> \in nodes
  PROVE  Explained(p)'
  BY DEF Explained

(* An accept commits its node and its row together, and no second time.    *)
LEMMA NodesStep ==
  ASSUME IInv, [Next]_vars
  PROVE  NodesAreExplained'
<1>0. TypeOK /\ PlaceInv /\ FreshInv /\ LedgerTellsStatus /\ NodesAreExplained
  BY DEF IInv
<1>4. \A p \in Proposals : Explained(p)
  BY <1>0 DEF NodesAreExplained, Explained
<1>5. (\A p \in Proposals : Explained(p)') => NodesAreExplained'
  BY Zenon DEF NodesAreExplained, Explained
<1>1. CASE UNCHANGED <<row, nodes>> /\ \A p \in Proposals : Committed(p)' = Committed(p)
  BY <1>0, <1>1 DEF NodesAreExplained, Accepts
<1>2. ASSUME NEW r \in Deciders, Commit(r) PROVE NodesAreExplained'
  <2>0. PICK p : p = hand[r]
    OBVIOUS
  <2>1. /\ p \in Proposals /\ will[r] \in Decisions
        /\ row'[p] = Decided(r, row[p])
        /\ \A q \in Proposals \ {p} : row'[q] = row[q] /\ Committed(q)' = Committed(q)
        /\ nodes' = nodes \cup (IF will[r] = "accepted" THEN {<<r, p>>} ELSE {})
    BY <1>2, <2>0, CommitEffect
  <2>2. PICK e : /\ e.by = r /\ e.what = will[r] /\ Committed(p)' = Committed(p) \cup {e}
    BY <1>2, <2>0, CommitEffect
  <2>3. row'[p].status = will[r] /\ (will[r] = "accepted" => row'[p].result = r)
    BY <1>0, <2>1, DecidedType, Actors DEF TypeOK
  <2>4. \A q \in Proposals \ {p} : \A s \in Requests :
          /\ Accepts(s, q)' = Accepts(s, q)
          /\ <<s, q>> \in nodes' <=> <<s, q>> \in nodes
    BY <2>1 DEF Accepts
  <2>5. \A s \in Requests : s # r \/ will[r] # "accepted" =>
          /\ Accepts(s, p)' = Accepts(s, p)
          /\ <<s, p>> \in nodes' <=> <<s, p>> \in nodes
    BY <2>1, <2>2 DEF Accepts
  <2>6. nodes \subseteq nodes' /\ \A q \in Proposals \ {p} : Explained(q)'
    BY <1>4, <2>1, <2>4, StaysExplained
  <2>7. CASE will[r] = "accepted"
    <3>1. <<r, p>> \notin nodes
      BY <1>0, <1>2, <2>0, <2>7 DEF FreshInv, Commit, Deciding
    <3>2. Accepts(r, p) = {}
      BY <1>0, <2>1, <3>1, Actors DEF NodesAreExplained
    <3>3. Accepts(r, p)' = {e}
      BY <2>2, <2>7, <3>2 DEF Accepts
    <3>4. <<r, p>> \in nodes'
      BY <2>1, <2>7
    <3>5. ASSUME NEW s \in Requests
          PROVE  /\ <<s, p>> \in nodes' <=> Accepts(s, p)' # {}
                 /\ \A f, g \in Accepts(s, p)' : f = g
      <4>1. CASE s = r
        BY <3>3, <3>4, <4>1
      <4>2. CASE s # r
        <5>1. Accepts(s, p)' = Accepts(s, p) /\ (<<s, p>> \in nodes' <=> <<s, p>> \in nodes)
          BY <2>5, <4>2
        <5>2. Explained(p)
          BY <1>4, <2>1
        <5> QED
          BY <5>1, <5>2 DEF Explained
      <4> QED
        BY <4>1, <4>2
    <3>6. Explained(p)'
      BY <2>3, <2>7, <3>4, <3>5 DEF Explained
    <3> QED
      BY <1>5, <2>6, <3>6
  <2>8. CASE will[r] # "accepted"
    <3>1. Explained(p)'
      BY <1>4, <2>1, <2>3, <2>5, <2>8, <2>6, StaysExplained
    <3> QED
      BY <1>5, <2>6, <3>1
  <2> QED
    BY <2>7, <2>8
<1>3. ASSUME NEW x \in Extractors, Draft(x) PROVE NodesAreExplained'
  <2>1. PICK N \in SUBSET Undrafted : \E A \in SUBSET N : Drafts(x, N, A)
    BY <1>3, DraftEffect
  <2>2. PICK A \in SUBSET N : Drafts(x, N, A)
    BY <2>1
  <2>3. nodes' = nodes \cup ({x} \X A)
    BY <2>2 DEF Drafts
  <2>4. ASSUME NEW p \in Proposals \ A, NEW s \in Requests
        PROVE  /\ Accepts(s, p)' = Accepts(s, p)
               /\ <<s, p>> \in nodes' <=> <<s, p>> \in nodes
    <3>1. Committed(p)' = Committed(p)
      <4>1. events'[p] = events[p]
        BY <2>2, DraftedRows, ZenonT(30)
      <4> QED
        BY <4>1 DEF Committed
    <3> QED
      BY <2>3, <3>1 DEF Accepts
  <2>5. ASSUME NEW p \in Proposals \ A PROVE Explained(p)'
    <3>1. row'[p].status = "accepted" => row'[p] = row[p]
      BY <1>0, <2>2, <2>5 DEF Drafts, TypeOK
    <3> QED
      BY <1>4, <2>3, <2>4, <3>1, StaysExplained
  <2>6. ASSUME NEW p \in A
        PROVE  Explained(p)'
    <3>1. p \in Proposals /\ row[p].status = "absent"
      BY DEF Undrafted
    <3>2. \A s \in Requests : <<s, p>> \notin nodes
      BY <1>0, <3>1, Undecided
    <3>3. events'[p] = {Event("accepted", x, Now(p), TRUE)}
      BY <2>2, DraftedRows
    <3>4. \A s \in Requests :
            Accepts(s, p)' = IF s = x THEN {Event("accepted", x, Now(p), TRUE)} ELSE {}
      BY <3>3 DEF Accepts, Committed, Event
    <3>5. \A s \in Requests : <<s, p>> \in nodes' <=> s = x
      BY <2>3, <3>2
    <3>6. row'[p].status = "accepted" => row'[p].result = x
      BY <1>0, <2>2, <3>1 DEF Drafts, TypeOK
    <3> QED
      BY <3>1, <3>4, <3>5, <3>6, Actors DEF Explained
  <2> QED
    BY <1>5, <2>5, <2>6
<1> QED
  BY <1>1, <1>2, <1>3, Kinds, SameRecord

-----------------------------------------------------------------------------
(* A request about to commit: nobody else moves it.                        *)
LEMMA QuietKeeps ==
  ASSUME TypeOK, Quiet, NEW r \in Deciders
  PROVE  /\ pc'[r] = "commit" <=> pc[r] = "commit"
         /\ pc[r] = "commit" => hand'[r] = hand[r] /\ will'[r] = will[r]
<1> USE RequestsAssumption, Actors DEF TypeOK
<1> DEFINE Keeps == /\ pc'[r] = "commit" <=> pc[r] = "commit"
                    /\ pc[r] = "commit" => hand'[r] = hand[r] /\ will'[r] = will[r]
<1>1. ASSUME NEW q \in Reviewers, NEW p \in Proposals, NEW d \in Decisions, Load(q, p, d)
      PROVE  Keeps
  BY <1>1 DEF Load, Take, Goto, Deciders
<1>2. ASSUME NEW q \in Deciders, Flush(q) PROVE Keeps
  BY <1>2 DEF Flush, Goto
<1>3. ASSUME NEW S \in SUBSET Proposals, BulkLoad(S) PROVE Keeps
  BY <1>3 DEF BulkLoad, Goto
<1>4. CASE BulkBreaks \/ BulkAudit
  BY <1>4 DEF BulkBreaks, BulkAudit, BulkEnd, Goto
<1>5. ASSUME NEW p \in Proposals, BulkNext(p) PROVE Keeps
  <2>1. pc[Bulk] = "next" /\ (UNCHANGED <<pc, hand, will>> \/ Take(Bulk, p, "accepted"))
    BY <1>5 DEF BulkNext
  <2> QED
    BY <2>1 DEF Take, Goto
<1>6. ASSUME NEW x \in Extractors, Extract(x) \/ DeleteProposal(x) PROVE Keeps
  <2>1. \E l : pc' = [pc EXCEPT ![x] = l]
    BY <1>6 DEF Extract, DeleteProposal, Goto
  <2>2. pc'[r] = pc[r]
    BY <2>1
  <2> QED
    BY <1>6, <2>2 DEF Extract, DeleteProposal
<1>7. CASE UNCHANGED vars
  BY <1>7 DEF vars
<1> QED
  BY <1>1, <1>2, <1>3, <1>4, <1>5, <1>6, <1>7 DEF Quiet, BulkStep

(* What a rollback leaves of an orderly ledger is orderly.                 *)
LEMMA RollbackStep ==
  ASSUME TypeOK, PlaceInv, LedgerInv, NEW r \in Requests, Rollback(r),
         \A s \in Deciders : /\ pc'[s] = "commit" => s # r
                             /\ s # r => /\ pc'[s] = pc[s]
                                         /\ hand'[s] = hand[s] /\ will'[s] = will[s]
  PROVE  LedgerInv'
<1>1. \A p \in Proposals : events'[p] = {e \in events[p] : e.committed \/ e.by # r}
  BY DEF Rollback
<1>2. ASSUME NEW p \in Proposals, NEW e \in events'[p], NEW f \in events'[p], e.at = f.at
      PROVE  e = f
  BY <1>1, <1>2 DEF LedgerInv
<1>3. ASSUME NEW p \in Proposals, NEW e \in events'[p], ~e.committed PROVE IsOpen(e, p)'
  <2>1. IsOpen(e, p) /\ e.by # r
    BY <1>1, <1>3 DEF LedgerInv
  <2> QED
    BY <1>1, <2>1 DEF IsOpen
<1>4. ASSUME NEW s \in Deciders, pc'[s] = "commit"
      PROVE  \E e \in events'[hand'[s]] : ~e.committed /\ e.by = s
  <2>1. s # r /\ pc[s] = "commit" /\ hand'[s] = hand[s]
    BY <1>4
  <2>2. hand[s] \in Proposals
    BY <2>1 DEF PlaceInv, Deciding
  <2>3. PICK e \in events[hand[s]] : ~e.committed /\ e.by = s
    BY <2>1 DEF LedgerInv
  <2>4. e \in events'[hand[s]]
    BY <1>1, <2>1, <2>2, <2>3
  <2> QED
    BY <2>1, <2>3, <2>4
<1> QED
  BY <1>2, <1>3, <1>4 DEF LedgerInv

(* The stamps: a row is stamped under the lock, so when it is, all others  *)
(* of its proposal are committed and earlier.                              *)
LEMMA LedgerStep ==
  ASSUME IInv, [Next]_vars
  PROVE  LedgerInv'
<1>0. /\ TypeOK /\ PlaceInv /\ LedgerInv /\ LedgerTellsStatus
      /\ TypeOK' /\ PlaceInv'
  BY TypeStep, PlaceStep DEF IInv
<1>1. CASE Quiet
  <2>1. events' = events
    BY <1>1, QuietStep
  <2>2. ASSUME NEW p \in Proposals, NEW e \in events[p], ~e.committed PROVE IsOpen(e, p)'
    <3>1. IsOpen(e, p)
      BY <1>0, <2>2 DEF LedgerInv
    <3> QED
      BY <1>0, <1>1, <2>1, <3>1, QuietKeeps DEF IsOpen
  <2>3. ASSUME NEW s \in Deciders, pc'[s] = "commit"
        PROVE  \E e \in events[hand'[s]] : ~e.committed /\ e.by = s
    BY <1>0, <1>1, <2>3, QuietKeeps DEF LedgerInv
  <2> QED
    BY <1>0, <2>1, <2>2, <2>3 DEF LedgerInv
<1>2. ASSUME NEW r \in Deciders, Emit(r) PROVE LedgerInv'
  <2>0. PICK p : p = hand[r]
    OBVIOUS
  <2>1. p \in Proposals /\ will[r] \in Decisions /\ lock[p] = r /\ pc[r] = "emit"
    BY <1>0, <1>2, <2>0 DEF Emit, PlaceInv, Deciding
  <2>2. PICK new : new = Event(will[r], r, Now(p), FALSE)
    OBVIOUS
  <2>3. /\ events'[p] = events[p] \cup {new}
        /\ \A q \in Proposals \ {p} : events'[q] = events[q]
    BY <1>0, <1>2, <2>0, <2>1, <2>2 DEF Emit, TypeOK
  <2>4. /\ new.by = r /\ new.what = will[r] /\ new.at = Now(p) /\ ~new.committed
        /\ Now(p) \in Nat /\ \A e \in events[p] : e.at \in Nat /\ e.at < new.at
    <3>1. \A e \in events[p] : e.at \in Nat
      BY <1>0, <2>1 DEF TypeOK, Events
    <3>2. Now(p) \in Nat /\ \A e \in events[p] : e.at < Now(p)
      BY <1>0, <2>1, NowIsLater
    <3> QED
      BY <2>2, <3>1, <3>2 DEF Event
  <2>5. /\ pc'[r] = "commit" /\ UNCHANGED <<hand, will>>
        /\ \A s \in Requests \ {r} : pc'[s] = pc[s]
    BY <1>0, <1>2, Actors DEF Emit, Goto, TypeOK
  <2>6. \A e \in events[p] : e.committed
    <3> SUFFICES ASSUME NEW e \in events[p], ~e.committed PROVE FALSE
      OBVIOUS
    <3>1. e.by \in Deciders /\ pc[e.by] = "commit" /\ hand[e.by] = p
      BY <1>0, <2>1 DEF LedgerInv, IsOpen
    <3>2. lock[p] = e.by
      BY <1>0, <3>1 DEF PlaceInv
    <3> QED
      BY <2>1, <3>1, <3>2
  <2>7. ASSUME NEW q \in Proposals, NEW e \in events'[q], NEW f \in events'[q], e.at = f.at
        PROVE  e = f
    <3>1. CASE q = p
      <4>1. CASE e = new \/ f = new
        BY <2>3, <2>4, <2>7, <3>1, <4>1
      <4>2. CASE e \in events[p] /\ f \in events[p]
        BY <1>0, <2>1, <2>7, <4>2 DEF LedgerInv
      <4> QED
        BY <2>3, <3>1, <4>1, <4>2
    <3>2. CASE q # p
      BY <1>0, <2>3, <2>7, <3>2 DEF LedgerInv
    <3> QED
      BY <3>1, <3>2
  <2>8. ASSUME NEW q \in Proposals, NEW e \in events'[q], ~e.committed PROVE IsOpen(e, q)'
    <3>1. CASE q = p
      <4>1. e = new
        BY <2>3, <2>6, <2>8, <3>1
      <4>2. \A f \in events'[q] : f.at <= e.at
        BY <2>3, <2>4, <3>1, <4>1
      <4> QED
        BY <2>0, <2>4, <2>5, <3>1, <4>1, <4>2 DEF IsOpen
    <3>2. CASE q # p
      <4>1. IsOpen(e, q) /\ events'[q] = events[q]
        BY <1>0, <2>3, <2>8, <3>2 DEF LedgerInv
      <4>2. e.by # r /\ e.by \in Requests
        BY <2>1, <4>1, Actors DEF IsOpen
      <4> QED
        BY <2>5, <4>1, <4>2 DEF IsOpen
    <3> QED
      BY <3>1, <3>2
  <2>9. ASSUME NEW s \in Deciders, pc'[s] = "commit"
        PROVE  \E e \in events'[hand'[s]] : ~e.committed /\ e.by = s
    <3>1. CASE s = r
      BY <2>0, <2>3, <2>4, <2>5, <3>1
    <3>2. CASE s # r
      <4>1. pc[s] = "commit" /\ hand'[s] = hand[s]
        BY <2>5, <2>9, <3>2, Actors
      <4>2. hand[s] \in Proposals
        BY <1>0, <4>1 DEF PlaceInv, Deciding
      <4>3. events[hand[s]] \subseteq events'[hand[s]]
        BY <2>3, <4>2
      <4> QED
        BY <1>0, <4>1, <4>3 DEF LedgerInv
    <3> QED
      BY <3>1, <3>2
  <2> QED
    BY <2>7, <2>8, <2>9 DEF LedgerInv
<1>3. ASSUME NEW r \in Deciders, Commit(r) PROVE LedgerInv'
  <2>1. \A q \in Proposals : events'[q] = {Landed(f, r) : f \in events[q]}
    BY <1>3 DEF Commit, Landed
  <2>2. \A q \in Proposals : events[q] \subseteq Events
    BY <1>0 DEF TypeOK
  <2>3. /\ pc'[r] # "commit"
        /\ \A s \in Requests \ {r} : pc'[s] = pc[s] /\ hand'[s] = hand[s] /\ will'[s] = will[s]
    BY <1>0, <1>3, Actors DEF Commit, Proceed, Goto, TypeOK
  <2>4. ASSUME NEW q \in Proposals, NEW e \in events'[q], NEW f \in events'[q], e.at = f.at
        PROVE  e = f
    <3>1. PICK g \in events[q], h \in events[q] : e = Landed(g, r) /\ f = Landed(h, r)
      BY <2>1
    <3>2. g.at = h.at
      BY <2>2, <2>4, <3>1, LandedRow, Actors
    <3> QED
      BY <1>0, <3>1, <3>2 DEF LedgerInv
  <2>5. ASSUME NEW q \in Proposals, NEW e \in events'[q], ~e.committed PROVE IsOpen(e, q)'
    <3>1. PICK g \in events[q] : e = Landed(g, r)
      BY <2>1
    <3>2. g = e /\ g.by # r
      BY <2>2, <2>5, <3>1, LandedRow, Actors
    <3>3. IsOpen(e, q)
      BY <1>0, <2>5, <3>2 DEF LedgerInv
    <3>4. \A f \in events'[q] : f.at <= e.at
      <4> SUFFICES ASSUME NEW f \in events'[q] PROVE f.at <= e.at
        OBVIOUS
      <4>1. PICK h \in events[q] : f = Landed(h, r)
        BY <2>1
      <4>2. f.at = h.at
        BY <2>2, <4>1, LandedRow, Actors
      <4> QED
        BY <3>3, <4>2 DEF IsOpen
    <3> QED
      BY <2>3, <3>2, <3>3, <3>4, Actors DEF IsOpen
  <2>6. ASSUME NEW s \in Deciders, pc'[s] = "commit"
        PROVE  \E e \in events'[hand'[s]] : ~e.committed /\ e.by = s
    <3>1. s # r /\ pc[s] = "commit" /\ hand'[s] = hand[s]
      BY <2>3, <2>6, Actors
    <3>2. hand[s] \in Proposals
      BY <1>0, <3>1 DEF PlaceInv, Deciding
    <3>3. PICK e \in events[hand[s]] : ~e.committed /\ e.by = s
      BY <1>0, <3>1 DEF LedgerInv
    <3>4. Landed(e, r) = e
      BY <2>2, <3>1, <3>2, <3>3, LandedRow, Actors
    <3>5. e \in events'[hand[s]]
      BY <2>1, <3>2, <3>4
    <3> QED
      BY <3>1, <3>3, <3>5
  <2> QED
    BY <2>4, <2>5, <2>6 DEF LedgerInv
<1>4. ASSUME NEW r \in Deciders, Fail(r) PROVE LedgerInv'
  <2>1. Rollback(r) /\ Proceed(r)
    BY <1>4 DEF Fail
  <2>2. \A s \in Deciders :
          /\ pc'[s] = "commit" => s # r
          /\ s # r => pc'[s] = pc[s] /\ hand'[s] = hand[s] /\ will'[s] = will[s]
    BY <1>0, <2>1, Actors DEF Proceed, Goto, TypeOK
  <2> QED
    BY <1>0, <2>1, <2>2, RollbackStep, Actors
<1>5. ASSUME NEW x \in Extractors, Draft(x) PROVE LedgerInv'
  <2>1. PICK N \in SUBSET Undrafted : \E A \in SUBSET N : Drafts(x, N, A)
    BY <1>5, DraftEffect
  <2>2. PICK A \in SUBSET N : Drafts(x, N, A)
    BY <2>1
  <2>3. \A s \in Deciders : pc'[s] = pc[s] /\ hand'[s] = hand[s] /\ will'[s] = will[s]
    BY <1>0, <1>5, Actors DEF Draft, Goto, TypeOK
  <2>4. /\ \A p \in A : events[p] = {} /\ events'[p] = {Event("accepted", x, Now(p), TRUE)}
        /\ \A p \in Proposals \ A : events'[p] = events[p]
    BY <2>2, DraftedRows, ZenonT(30)
  <2>5. ASSUME NEW p \in Proposals, NEW e \in events'[p], NEW f \in events'[p], e.at = f.at
        PROVE  e = f
    <3>1. CASE p \in A
      <4>1. events'[p] = {Event("accepted", x, Now(p), TRUE)}
        BY <2>4, <3>1
      <4>2. /\ e = Event("accepted", x, Now(p), TRUE)
            /\ f = Event("accepted", x, Now(p), TRUE)
        BY <4>1, Zenon
      <4> QED
        BY <4>2, Zenon
    <3>2. CASE p \notin A
      <4>1. e \in events[p] /\ f \in events[p]
        BY <2>4, <2>5, <3>2
      <4> QED
        BY <1>0, <2>5, <4>1 DEF LedgerInv
    <3> QED
      BY <3>1, <3>2
  <2>6. ASSUME NEW p \in Proposals, NEW e \in events'[p], ~e.committed PROVE IsOpen(e, p)'
    <3>1. p \notin A
      BY <2>4, <2>6 DEF Event
    <3>2. events'[p] = events[p] /\ IsOpen(e, p)
      BY <1>0, <2>4, <2>6, <3>1 DEF LedgerInv
    <3> QED
      BY <2>3, <3>2 DEF IsOpen
  <2>7. ASSUME NEW s \in Deciders, pc'[s] = "commit"
        PROVE  \E e \in events'[hand'[s]] : ~e.committed /\ e.by = s
    <3>1. pc[s] = "commit" /\ hand'[s] = hand[s]
      BY <2>3, <2>7
    <3>2. hand[s] \in Proposals
      BY <1>0, <3>1 DEF PlaceInv, Deciding
    <3>3. PICK e \in events[hand[s]] : ~e.committed /\ e.by = s
      BY <1>0, <3>1 DEF LedgerInv
    <3>4. hand[s] \notin A
      BY <2>4, <3>3
    <3> QED
      BY <2>4, <3>1, <3>2, <3>3, <3>4
  <2> QED
    BY <2>5, <2>6, <2>7 DEF LedgerInv
<1>6. ASSUME NEW x \in Extractors, ExtractFails(x) PROVE LedgerInv'
  <2>1. Rollback(x) /\ UNCHANGED <<hand, will>> /\ Goto(x, "idle")
    BY <1>6 DEF ExtractFails
  <2>2. \A s \in Deciders :
          /\ s # x /\ pc'[s] = pc[s]
          /\ hand'[s] = hand[s] /\ will'[s] = will[s]
    BY <1>0, <2>1, Actors DEF Goto, TypeOK
  <2> QED
    BY <1>0, <2>1, <2>2, RollbackStep, Actors
<1> QED
  BY <1>1, <1>2, <1>3, <1>4, <1>5, <1>6, Kinds

-----------------------------------------------------------------------------
(* The conjuncts together are inductive.                                   *)
LEMMA NextInv == IInv /\ [Next]_vars => IInv'
  BY TypeStep, PlaceStep, ExistStep, LedgerStep, FreshStep, StatusStep, NodesStep DEF IInv

(* So they hold in every state of every behaviour.                         *)
LEMMA Invariance == Spec => []IInv
  BY InitInv, NextInv, PTL DEF Spec

(* Proposals, ledger rows and requests keep their types: a decision stores *)
(* a status, never a verb.                                                 *)
THEOREM TypeCorrect == Spec => []TypeOK
<1>1. IInv => TypeOK
  BY DEF IInv
<1> QED
  BY <1>1, Invariance, PTL

(* The latest committed ledger row of a proposal tells the status that     *)
(* matrix_proposals stores, however its decisions raced.                   *)
THEOREM LedgerIsTheRecord == Spec => []LedgerTellsStatus
<1>1. IInv => LedgerTellsStatus
  BY DEF IInv
<1> QED
  BY <1>1, Invariance, PTL

(* Every node and edge of the review loop has exactly one accept row, and  *)
(* every accept row its node or edge.                                      *)
THEOREM NodesFollowTheLedger == Spec => []NodesAreExplained
<1>1. IInv => NodesAreExplained
  BY DEF IInv
<1> QED
  BY <1>1, Invariance, PTL
=============================================================================
