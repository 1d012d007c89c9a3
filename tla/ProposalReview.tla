--------------------------- MODULE ProposalReview ---------------------------
(***************************************************************************)
(* The human review loop over matrix proposals                             *)
(* (api/routes/engagements_internal.py): extraction drafts proposals from  *)
(* one canonical event, reviewers accept, reject or audit-reject them one  *)
(* by one or in bulk, and accepting one commits a matrix node or edge.     *)
(*                                                                         *)
(* Every handler reads the proposal without a lock, checks its status in   *)
(* memory, and only then writes: the UPDATE (or DELETE) takes the row lock *)
(* and holds it to the commit, and tests nothing but the primary key.      *)
(* Sessions are created with expire_on_commit=False, so a commit keeps     *)
(* what was read; a rollback of an open transaction expires it.            *)
(***************************************************************************)
EXTENDS Naturals, FiniteSetsExt

CONSTANTS
    Proposals,  \* proposal ids the extractions may use, numbered by id
    Edges,      \* those that propose an edge; a bulk accept takes them last
    Invalid,    \* payloads refused before any statement (unknown node_type)
    Dangling,   \* edges refused after a SELECT (endpoint not found)
    Reviewers,  \* requests on one proposal
    Bulk,       \* the bulk-accept request
    Extractors, \* extraction requests for the event
    Nobody,     \* no request, no proposal
    MaxFaults   \* bound: statements that raise in a behaviour

Requests == Reviewers \cup {Bulk} \cup Extractors
Decisions == {"accepted", "rejected", "audit_rejected"}
Statuses == {"absent", "pending", "deleted"} \cup Decisions

ASSUME ProposalsAssumption ==
    /\ Proposals \subseteq Nat /\ Edges \subseteq Proposals
    /\ Invalid \subseteq Proposals /\ Dangling \subseteq Edges
ASSUME RequestsAssumption ==
    /\ Bulk \notin Reviewers \cup Extractors /\ Reviewers \cap Extractors = {}
    /\ Nobody \notin Requests \cup Proposals /\ MaxFaults \in Nat

VARIABLES
    row,        \* committed matrix_proposals rows: status, request that made
                \* the node or edge result_*_id points to
    lock,       \* holder of the row lock of a proposal
    nodes,      \* committed nodes and edges: <<request, proposal>>
    events,     \* ledger rows of a proposal
    pc,         \* where every request is
    hand,       \* the proposal a request decides
    will,       \* what it decides
    todo,       \* candidates of the bulk accept, rows an extraction deletes
    wasPending, \* candidates that were pending when the bulk accept read them
    inTx,       \* the bulk accept's session has a transaction open
    expired,    \* the objects of the bulk accept's session are expired
    audit,      \* the proposals_bulk_accepted row of the bulk accept
    faults      \* statements that may still raise

db == <<row, lock, nodes, events>>
bulk == <<wasPending, inTx, expired, audit>>
vars == <<row, lock, nodes, events, pc, hand, will, todo, wasPending,
          inTx, expired, audit, faults>>

Event(d, r, t, c) == [what |-> d, by |-> r, at |-> t, committed |-> c]
Events == [what : Decisions, by : Requests, at : Nat, committed : BOOLEAN]

TypeOK ==
    /\ row \in [Proposals -> [status : Statuses, result : Requests \cup {Nobody}]]
    /\ lock \in [Proposals -> Requests \cup {Nobody}]
    /\ nodes \subseteq Requests \X Proposals
    /\ events \in [Proposals -> SUBSET Events]
    /\ pc \in [Requests -> {"idle", "flush", "emit", "commit", "next", "delete", "llm"}]
    /\ hand \in [Requests -> Proposals \cup {Nobody}]
    /\ will \in [Requests -> Decisions \cup {Nobody}]
    /\ todo \in [{Bulk} \cup Extractors -> SUBSET Proposals]
    /\ wasPending \subseteq Proposals
    /\ inTx \in BOOLEAN /\ expired \in BOOLEAN
    /\ audit \in {"none", "landed", "lost"}
    /\ faults \in 0..MaxFaults

Init ==
    /\ row = [p \in Proposals |-> [status |-> "absent", result |-> Nobody]]
    /\ lock = [p \in Proposals |-> Nobody]
    /\ nodes = {}
    /\ events = [p \in Proposals |-> {}]
    /\ pc = [r \in Requests |-> "idle"]
    /\ hand = [r \in Requests |-> Nobody]
    /\ will = [r \in Requests |-> Nobody]
    /\ todo = [r \in {Bulk} \cup Extractors |-> {}]
    /\ wasPending = {} /\ inTx = FALSE /\ expired = FALSE
    /\ audit = "none"
    /\ faults = MaxFaults

-----------------------------------------------------------------------------
Goto(r, l) == pc' = [pc EXCEPT ![r] = l]
Exists(p) == row[p].status \notin {"absent", "deleted"}
Pending == {p \in Proposals : row[p].status = "pending"}

(* occurred_at, of which only the order among the rows of a proposal matters. *)
Now(p) == 1 + Max({0} \cup {e.at : e \in events[p]})

Unlocked(r) == lock' = [p \in Proposals |-> IF lock[p] = r THEN Nobody ELSE lock[p]]

(* A definition whose comment starts with "bug:" is a plausible mistake the *)
(* properties are tested against; the specification uses none of them.      *)

(* bug: the session goes on to the next proposal without a rollback. *)
RollbackKeepingEvents(r) ==
    /\ Unlocked(r)
    /\ UNCHANGED <<row, nodes, events>>

Rollback(r) ==
    /\ events' = [p \in Proposals |-> {e \in events[p] : e.committed \/ e.by # r}]
    /\ Unlocked(r)
    /\ UNCHANGED <<row, nodes>>

(* After a decision or a failure a single request answers; the bulk accept *)
(* goes on with its next candidate.                                        *)
Proceed(r) ==
    /\ Goto(r, IF r = Bulk THEN "next" ELSE "idle")
    /\ hand' = [hand EXCEPT ![r] = Nobody]
    /\ will' = [will EXCEPT ![r] = Nobody]

-----------------------------------------------------------------------------
(* Deciding one proposal *)

Take(r, p, d) ==
    /\ hand' = [hand EXCEPT ![r] = p]
    /\ will' = [will EXCEPT ![r] = d]
    /\ Goto(r, "flush")

(* _require_proposal and the checks of the handler, on what was read.  An  *)
(* accept has also inserted its node, which nobody else sees yet.          *)
Load(r, p, d) ==
    /\ pc[r] = "idle" /\ Exists(p)
    /\ \/ d = "accepted" /\ p \in Pending /\ p \notin Invalid \cup Dangling
       \/ d = "rejected" /\ p \in Pending
       \/ d = "audit_rejected" /\ row[p].status # "audit_rejected"
    /\ Take(r, p, d)
    /\ UNCHANGED <<db, todo, bulk, faults>>

(* bug: no flush before the ledger row is stamped; the UPDATE reaches the *)
(* database with the commit.                                              *)
FlushLate(r) ==
    /\ pc[r] = "flush"
    /\ row[hand[r]].status # "deleted"
    /\ Goto(r, "emit")
    /\ UNCHANGED <<db, hand, will, todo, bulk, faults>>

(* The UPDATE waits for the row lock. *)
Flush(r) ==
    /\ pc[r] = "flush"
    /\ lock[hand[r]] = Nobody /\ row[hand[r]].status # "deleted"
    /\ lock' = [lock EXCEPT ![hand[r]] = r]
    /\ Goto(r, "emit")
    /\ UNCHANGED <<row, nodes, events, hand, will, todo, bulk, faults>>

(* emit_ledger_event stamps and inserts the row about the decision. *)
Emit(r) ==
    /\ pc[r] = "emit"
    /\ events' = [events EXCEPT ![hand[r]] =
                    @ \cup {Event(will[r], r, Now(hand[r]), FALSE)}]
    /\ Goto(r, "commit")
    /\ UNCHANGED <<row, lock, nodes, hand, will, todo, bulk, faults>>

(* bug: the verb is stored instead of the status. *)
DecidedByVerb(r, t) == [t EXCEPT !.status = "accept"]

(* The UPDATE writes the columns the handler changed, whatever is there. *)
Decided(r, t) ==
    [t EXCEPT !.status = will[r],
              !.result = IF will[r] = "accepted" THEN r ELSE @]

(* bug: the bulk accept keeps its row locks while candidates are left. *)
CommitKeepingLock(r) ==
    /\ pc[r] = "commit"
    /\ row' = [row EXCEPT ![hand[r]] = Decided(r, @)]
    /\ nodes' = nodes \cup IF will[r] = "accepted" THEN {<<r, hand[r]>>} ELSE {}
    /\ events' = [p \in Proposals |->
                    {[e EXCEPT !.committed = @ \/ e.by = r] : e \in events[p]}]
    /\ IF r = Bulk /\ todo[Bulk] # {} THEN UNCHANGED lock ELSE Unlocked(r)
    /\ Proceed(r)
    /\ inTx' = (inTx /\ r # Bulk)
    /\ UNCHANGED <<todo, wasPending, expired, audit, faults>>

Commit(r) ==
    /\ pc[r] = "commit"
    /\ row' = [row EXCEPT ![hand[r]] = Decided(r, @)]
    /\ nodes' = nodes \cup IF will[r] = "accepted" THEN {<<r, hand[r]>>} ELSE {}
    /\ events' = [p \in Proposals |->
                    {[e EXCEPT !.committed = @ \/ e.by = r] : e \in events[p]}]
    /\ Unlocked(r)
    /\ Proceed(r)
    /\ inTx' = (inTx /\ r # Bulk)
    /\ UNCHANGED <<todo, wasPending, expired, audit, faults>>

(* The request fails: its row was deleted under it (StaleDataError), or a *)
(* statement raises.  Its transaction was open, so a bulk accept's        *)
(* rollback expires every object it has read.                             *)
Fail(r) ==
    /\ \/ pc[r] = "flush" /\ row[hand[r]].status = "deleted" /\ UNCHANGED faults
       \/ pc[r] \in {"flush", "emit", "commit"} /\ faults > 0 /\ faults' = faults - 1
    /\ Rollback(r)
    /\ Proceed(r)
    /\ inTx' = (inTx /\ r # Bulk)
    /\ expired' = (expired \/ r = Bulk)
    /\ UNCHANGED <<todo, wasPending, audit>>

-----------------------------------------------------------------------------
(* bulk_accept_matrix_proposals *)

(* The candidates are read once, by id or by a filter (bound: one bulk *)
(* accept in a behaviour).                                             *)
BulkLoad(S) ==
    /\ pc[Bulk] = "idle" /\ audit = "none"
    /\ \A p \in S : Exists(p)
    /\ todo' = [todo EXCEPT ![Bulk] = S]
    /\ wasPending' = S \cap Pending
    /\ inTx' = TRUE
    /\ Goto(Bulk, "next")
    /\ UNCHANGED <<db, hand, will, expired, audit, faults>>

(* _accept_one_proposal on the next candidate.  A refusal rolls back, which *)
(* expires the objects only when a transaction is open.                     *)
BulkNext(p) ==
    /\ pc[Bulk] = "next" /\ ~expired
    /\ p \in todo[Bulk] /\ (p \in Edges => todo[Bulk] \subseteq Edges)
    /\ todo' = [todo EXCEPT ![Bulk] = @ \ {p}]
    /\ LET refused == p \notin wasPending \/ p \in Invalid
       IN \/ /\ refused \/ p \in Dangling
             /\ expired' = (inTx \/ ~refused)
             /\ inTx' = FALSE
             /\ UNCHANGED <<pc, hand, will>>
          \/ /\ ~refused /\ p \notin Dangling
             /\ inTx' = TRUE
             /\ Take(Bulk, p, "accepted")
             /\ UNCHANGED expired
    /\ UNCHANGED <<db, wasPending, audit, faults>>

BulkEnd(a) ==
    /\ audit' = a
    /\ todo' = [todo EXCEPT ![Bulk] = {}]
    /\ wasPending' = {} /\ inTx' = FALSE /\ expired' = FALSE
    /\ Goto(Bulk, "idle")
    /\ UNCHANGED <<db, hand, will, faults>>

(* proposal.id of an expired object needs a query outside the greenlet of *)
(* the async session: MissingGreenlet leaves the handler.                 *)
BulkBreaks ==
    /\ pc[Bulk] = "next" /\ expired /\ todo[Bulk] # {}
    /\ BulkEnd("lost")

BulkAudit ==
    /\ pc[Bulk] = "next" /\ todo[Bulk] = {}
    /\ BulkEnd("landed")

-----------------------------------------------------------------------------
(* extract_engagement_proposals *)

(* Proposals of the event exist: only force=true goes on, to delete those *)
(* it read as pending.                                                    *)
Extract(x) ==
    /\ pc[x] = "idle"
    /\ todo' = [todo EXCEPT ![x] = Pending]
    /\ Goto(x, IF Pending = {} THEN "llm" ELSE "delete")
    /\ UNCHANGED <<db, hand, will, bulk, faults>>

(* DELETE ... WHERE id = p waits for the lock and deletes what it finds; *)
(* locking a row that is gone already changes nothing.                   *)
DeleteProposal(x) ==
    /\ pc[x] = "delete"
    /\ \E p \in todo[x] :
         /\ \A q \in todo[x] : p <= q
         /\ lock[p] = Nobody
         /\ lock' = [lock EXCEPT ![p] = x]
         /\ todo' = [todo EXCEPT ![x] = @ \ {p}]
         /\ Goto(x, IF todo[x] = {p} THEN "llm" ELSE "delete")
    /\ UNCHANGED <<row, nodes, events, hand, will, bulk, faults>>

(* The LLM's drafts (none if it fails) become rows, those above the        *)
(* tenant's confidence threshold are accepted at once unless their payload *)
(* is refused, and everything commits together.                            *)
Draft(x) ==
    /\ pc[x] = "llm"
    /\ \E N \in SUBSET {p \in Proposals : row[p].status = "absent"} :
       \E A \in SUBSET (N \ (Invalid \cup Dangling)) :
         /\ row' = [p \in Proposals |->
                      CASE lock[p] = x -> [row[p] EXCEPT !.status = "deleted"]
                        [] p \in A -> [status |-> "accepted", result |-> x]
                        [] p \in N \ A -> [status |-> "pending", result |-> Nobody]
                        [] OTHER -> row[p]]
         /\ nodes' = nodes \cup ({x} \X A)
         /\ events' = [p \in Proposals |-> events[p] \cup
                         IF p \in A THEN {Event("accepted", x, Now(p), TRUE)} ELSE {}]
    /\ Unlocked(x)
    /\ Goto(x, "idle")
    /\ UNCHANGED <<hand, will, todo, bulk, faults>>

ExtractFails(x) ==
    /\ pc[x] \in {"delete", "llm"} /\ faults > 0
    /\ faults' = faults - 1
    /\ Rollback(x)
    /\ todo' = [todo EXCEPT ![x] = {}]
    /\ Goto(x, "idle")
    /\ UNCHANGED <<hand, will, bulk>>

-----------------------------------------------------------------------------
Decide(r) == Flush(r) \/ Emit(r) \/ Commit(r) \/ Fail(r)
BulkStep == BulkBreaks \/ BulkAudit \/ \E p \in Proposals : BulkNext(p)
ExtractStep(x) == DeleteProposal(x) \/ Draft(x) \/ ExtractFails(x)

Next ==
    \/ \E r \in Reviewers, p \in Proposals, d \in Decisions : Load(r, p, d)
    \/ \E r \in Reviewers \cup {Bulk} : Decide(r)
    \/ \E S \in SUBSET Proposals : BulkLoad(S)
    \/ BulkStep
    \/ \E x \in Extractors : Extract(x) \/ ExtractStep(x)

Spec == Init /\ [][Next]_vars

(* A request that has started runs on: its statements answer, and the LLM *)
(* client has a timeout.  No statement has to raise, so nothing frees     *)
(* requests that wait for each other.                                     *)
Fairness ==
    /\ \A r \in Reviewers \cup {Bulk} : WF_vars(Decide(r) /\ UNCHANGED faults)
    /\ WF_vars(BulkStep)
    /\ \A x \in Extractors : WF_vars(ExtractStep(x) /\ UNCHANGED faults)

FairSpec == Spec /\ Fairness

-----------------------------------------------------------------------------
(* Properties *)

Committed(p) == {e \in events[p] : e.committed}
Latest(p) == {e \in Committed(p) : \A f \in Committed(p) : f.at <= e.at}
Accepts(r, p) == {e \in Committed(p) : e.by = r /\ e.what = "accepted"}

(* The ledger is the record of what happened: however decisions race, the *)
(* status of a proposal is the one its latest ledger row tells.  The row  *)
(* is stamped after the flush that takes the lock, so the order of the    *)
(* stamps is the order of the updates.                                    *)
LedgerTellsStatus ==
    \A p \in Proposals :
        IF Committed(p) = {}
        THEN row[p].status \notin Decisions
        ELSE \E e \in Latest(p) : row[p].status \in {e.what, "deleted"}

(* Lockstep: a node or edge and the ledger row of the accept that made it *)
(* are committed together or not at all, one for one, even for accepts    *)
(* that raced; an accepted proposal points to its own.                    *)
NodesAreExplained ==
    \A p \in Proposals :
        /\ \A r \in Requests :
             /\ <<r, p>> \in nodes <=> Accepts(r, p) # {}
             /\ \A e, f \in Accepts(r, p) : e = f
        /\ row[p].status = "accepted" => <<row[p].result, p>> \in nodes

(* Nobody waits for ever: a decision or an extraction that waits for a row *)
(* lock, even one held during an LLM call, ends.  An extraction collects   *)
(* its locks in the order of the ids, a bulk accept takes nodes before     *)
(* edges: they never wait for each other, for the latter commits, and lets *)
(* its lock go, before it takes the next one.                              *)
RequestsFinish == \A r \in Requests : pc[r] # "idle" ~> pc[r] = "idle"

(* test_matrix_proposal_double_decision_422: the second decision on a     *)
(* proposal is refused.                                                   *)
DecidedOnce ==
    \A p \in Proposals : \A e, f \in Committed(p) :
        e.what # "audit_rejected" /\ f.what # "audit_rejected" => e = f
=============================================================================
