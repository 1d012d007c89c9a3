----------------------------- MODULE SlackIntake -----------------------------
(***************************************************************************)
(* Channel-scoped Slack intake (services/slack_event_ingest.py,            *)
(* services/slack_snapshot_flush.py, api/routes/slack_intake_internal.py,  *)
(* infra/canonical_idempotent_write.py, webhooks/dispatcher.py).           *)
(*                                                                         *)
(* An event stages a message of a mapped channel. A flush reads mappings   *)
(* and staged rows without a lock, deletes the rows of unmapped channels   *)
(* and writes one snapshot per unit (a thread, or a day of a channel) with *)
(* something new in it, deduplicated by the set of its messages. All of it *)
(* is one transaction, except that the extraction chained to a snapshot    *)
(* commits it halfway as soon as a webhook of the tenant is subscribed.    *)
(***************************************************************************)
EXTENDS Naturals, FiniteSetsExt

CONSTANTS
    Messages,      \* (channel, ts) of the messages
    Units,         \* units, numbered in the order the flush takes them
    UnitOf,        \* the unit of a message
    Channels,
    ChannelOf,     \* the channel of a unit
    Start,         \* channels mapped at first
    Flushes,       \* callers of the flush endpoint
    MaxDeliveries, \* bound: deliveries of events, Slack's redeliveries included
    MaxChanges,    \* bound: mappings created or revoked
    MaxFaults      \* bound: statements that raise, flushes that die

ASSUME IntakeAssumption ==
    /\ Units \subseteq Nat /\ UnitOf \in [Messages -> Units]
    /\ ChannelOf \in [Units -> Channels] /\ Start \subseteq Channels
    /\ IsFiniteSet(Flushes)
    /\ MaxDeliveries \in Nat /\ MaxChanges \in Nat /\ MaxFaults \in Nat

VARIABLES
    mapped,     \* channels with an active mapping, committed
    present,    \* messages with a committed staging row
    born,       \* how often a message was staged: the identity of its row
    flushed,    \* rows with flushed_at set, committed
    copies,     \* committed slack.thread events of each set of messages
    held,       \* events of a message that passed the mapping check
    pc,         \* where a flush is
    maps,       \* the mapped channels as a flush read them
    seen,       \* the rows as a flush read them (0: no row)
    fresh,      \* those it read as not flushed
    todo,       \* units it has still to take
    dirty,      \* rows marked or deleted in the session, not in the database
    upd, del,   \* rows its transaction has updated, deleted
    draft,      \* snapshots its transaction has inserted
    new,        \* the snapshot that waits for its extraction, or {}
    deliveries, changes, faults

rows == <<present, born, flushed>>
db == <<mapped, present, born, flushed, copies>>
view == <<maps, seen, fresh>>
tx == <<upd, del, draft>>
bounds == <<deliveries, changes, faults>>
vars == <<mapped, present, born, flushed, copies, held, pc, maps,
          seen, fresh, todo, dirty, upd, del, draft, new, deliveries, changes, faults>>

Channel(m) == ChannelOf[UnitOf[m]]
Fingerprints == {S \in SUBSET Messages : \A m, n \in S : UnitOf[m] = UnitOf[n]}

TypeOK ==
    /\ mapped \subseteq Channels
    /\ present \subseteq Messages /\ flushed \subseteq present
    /\ born \in [Messages -> 0..MaxDeliveries]
    /\ copies \in [Fingerprints -> 0..Cardinality(Flushes)]
    /\ held \in [Messages -> 0..MaxDeliveries]
    /\ pc \in [Flushes -> {"idle", "rows", "sync", "insert", "extract", "commit",
                           "closed", "broken"}]
    /\ maps \in [Flushes -> SUBSET Channels]
    /\ seen \in [Flushes -> [Messages -> 0..MaxDeliveries]]
    /\ {fresh, dirty, upd, del} \subseteq [Flushes -> SUBSET Messages]
    /\ todo \in [Flushes -> SUBSET Units]
    /\ draft \in [Flushes -> SUBSET Fingerprints]
    /\ new \in [Flushes -> Fingerprints]
    /\ deliveries \in 0..MaxDeliveries /\ changes \in 0..MaxChanges
    /\ faults \in 0..MaxFaults

Nothing == [w \in Flushes |-> {}]

Init ==
    /\ mapped = Start
    /\ present = {} /\ flushed = {}
    /\ born = [m \in Messages |-> 0] /\ held = [m \in Messages |-> 0]
    /\ copies = [k \in Fingerprints |-> 0]
    /\ pc = [w \in Flushes |-> "idle"]
    /\ seen = [w \in Flushes |-> [m \in Messages |-> 0]]
    /\ maps = Nothing /\ fresh = Nothing /\ todo = Nothing /\ dirty = Nothing
    /\ upd = Nothing /\ del = Nothing /\ draft = Nothing /\ new = Nothing
    /\ deliveries = MaxDeliveries /\ changes = MaxChanges /\ faults = MaxFaults

-----------------------------------------------------------------------------
(* Transactions *)

Goto(w, l) == pc' = [pc EXCEPT ![w] = l]

Locked(m) == \E w \in Flushes : m \in upd[w] \cup del[w]

\* The row a flush read is still there.
Same(w, m) == m \in present /\ born[m] = seen[w][m]

\* The end of a call: what the session held is gone.
Close(w) ==
    /\ Goto(w, "idle")
    /\ maps' = [maps EXCEPT ![w] = {}]
    /\ seen' = [seen EXCEPT ![w] = [m \in Messages |-> 0]]
    /\ fresh' = [fresh EXCEPT ![w] = {}] /\ todo' = [todo EXCEPT ![w] = {}]
    /\ dirty' = [dirty EXCEPT ![w] = {}] /\ new' = [new EXCEPT ![w] = {}]

\* The transaction ends: its locks are free again.
Forget(w) ==
    /\ upd' = [upd EXCEPT ![w] = {}] /\ del' = [del EXCEPT ![w] = {}]
    /\ draft' = [draft EXCEPT ![w] = {}]

CommitDraft(w) ==
    /\ copies' = [k \in Fingerprints |-> copies[k] + IF k \in draft[w] THEN 1 ELSE 0]
    /\ present' = present \ del[w]
    /\ flushed' = (flushed \cup upd[w]) \ del[w]
    /\ Forget(w)
    /\ UNCHANGED <<mapped, born>>

-----------------------------------------------------------------------------
(* Events and mappings *)

\* A message of a channel without an active mapping is dropped.
CheckMapping(m) ==
    /\ deliveries > 0 /\ deliveries' = deliveries - 1
    /\ held' = IF Channel(m) \in mapped THEN [held EXCEPT ![m] = @ + 1] ELSE held
    /\ UNCHANGED <<db, pc, view, todo, dirty, tx, new, changes, faults>>

\* ON CONFLICT DO NOTHING: a row of the message that another transaction holds
\* is waited for, one that is there is kept.
StageMessage(m) ==
    /\ held[m] > 0 /\ held' = [held EXCEPT ![m] = @ - 1]
    /\ ~Locked(m)
    /\ present' = present \cup {m}
    /\ born' = IF m \in present THEN born ELSE [born EXCEPT ![m] = @ + 1]
    /\ UNCHANGED <<mapped, flushed, copies, pc, view, todo, dirty, tx, new, bounds>>

\* The partial unique index allows one active mapping of a channel.
CreateMapping(c) ==
    /\ changes > 0 /\ changes' = changes - 1
    /\ c \notin mapped /\ mapped' = mapped \cup {c}
    /\ UNCHANGED <<rows, copies, held, pc, view, todo, dirty, tx, new,
                   deliveries, faults>>

\* bug: the rows are deleted without a look at the locks on them.
RevokeUnlocked(c) ==
    /\ changes > 0 /\ changes' = changes - 1
    /\ c \in mapped /\ mapped' = mapped \ {c}
    /\ LET gone == {m \in present \ flushed : Channel(m) = c} IN
          /\ present' = present \ gone
    /\ UNCHANGED <<born, flushed, copies, held, pc, view, todo, dirty, tx, new,
                   deliveries, faults>>

\* The DELETE waits for the rows a flush has written.
RevokeMapping(c) ==
    /\ changes > 0 /\ changes' = changes - 1
    /\ c \in mapped /\ mapped' = mapped \ {c}
    /\ LET gone == {m \in present \ flushed : Channel(m) = c} IN
          /\ \A m \in gone : ~Locked(m)
          /\ present' = present \ gone
    /\ UNCHANGED <<born, flushed, copies, held, pc, view, todo, dirty, tx, new,
                   deliveries, faults>>

-----------------------------------------------------------------------------
(* The flush *)

Unflushed == present \ flushed

ReadMappings(w) ==
    /\ pc[w] = "idle" /\ Unflushed # {}
    /\ maps' = [maps EXCEPT ![w] = mapped]
    /\ Goto(w, "rows")
    /\ UNCHANGED <<db, held, seen, fresh, todo, dirty, tx, new, bounds>>

\* bug: only the rows of mapped channels are read.
ReadStagedOfMapped(w) ==
    /\ pc[w] = "rows"
    /\ LET mine == {m \in present : Channel(m) \in maps[w]} IN
          /\ seen' = [seen EXCEPT ![w] =
                 [m \in Messages |-> IF m \in mine THEN born[m] ELSE 0]]
          /\ fresh' = [fresh EXCEPT ![w] = mine \ flushed]
          /\ todo' = [todo EXCEPT ![w] = {UnitOf[m] : m \in mine \ flushed}]
    /\ Goto(w, "sync")
    /\ UNCHANGED <<db, held, maps, dirty, tx, new, bounds>>

\* The staged rows are a statement of their own, later than the mappings. Those
\* of unmapped channels are marked for deletion.
ReadStaged(w) ==
    /\ pc[w] = "rows"
    /\ seen' = [seen EXCEPT ![w] =
           [m \in Messages |-> IF m \in present THEN born[m] ELSE 0]]
    /\ fresh' = [fresh EXCEPT ![w] = Unflushed]
    /\ dirty' = [dirty EXCEPT ![w] = {m \in Unflushed : Channel(m) \notin maps[w]}]
    /\ todo' = [todo EXCEPT ![w] =
           {UnitOf[m] : m \in {n \in Unflushed : Channel(n) \in maps[w]}}]
    /\ Goto(w, "sync")
    /\ UNCHANGED <<db, held, maps, tx, new, bounds>>

Onward(w) == IF todo[w] # {} THEN "insert" ELSE "commit"

\* The session writes its pending rows before its next statement, by primary
\* key, and waits for those other flushes have written. One UPDATE of a row
\* that is gone raises; in a batch the driver need not notice.
Sync(w) ==
    /\ pc[w] = "sync"
    /\ LET there == {m \in dirty[w] : Same(w, m)}
           marks == {m \in dirty[w] : Channel(m) \in maps[w]}
           stale == marks \ there
       IN  /\ \A v \in Flushes \ {w} : there \cap (upd[v] \cup del[v]) = {}
           /\ \/ /\ stale # {}
                 /\ Goto(w, "broken")
                 /\ UNCHANGED <<upd, del>>
              \/ /\ stale = {} \/ Cardinality(marks) > 1
                 /\ upd' = [upd EXCEPT ![w] = @ \cup (there \cap marks)]
                 /\ del' = [del EXCEPT ![w] = @ \cup (there \ marks)]
                 /\ Goto(w, IF new[w] # {} THEN "extract" ELSE Onward(w))
    /\ dirty' = [dirty EXCEPT ![w] = {}]
    /\ UNCHANGED <<db, held, view, todo, draft, new, bounds>>

RowsOf(w, u) == {m \in Messages : UnitOf[m] = u /\ seen[w][m] # 0}
NextUnit(w) == Min(todo[w])
Key(w) == RowsOf(w, NextUnit(w))

\* The rows of the unit are marked as flushed, whether or not the snapshot was
\* there before.
TakeUnit(w, isNew) ==
    /\ draft' = IF isNew THEN [draft EXCEPT ![w] = @ \cup {Key(w)}] ELSE draft
    /\ new' = [new EXCEPT ![w] = IF isNew THEN Key(w) ELSE {}]
    /\ dirty' = [dirty EXCEPT ![w] = Key(w) \cap fresh[w]]
    /\ todo' = [todo EXCEPT ![w] = @ \ {NextUnit(w)}]
    /\ Goto(w, "sync")
    /\ UNCHANGED <<db, held, view, upd, del, bounds>>

\* bug: the key names the unit, not the set of its messages.
InsertByUnit(w) ==
    /\ pc[w] = "insert"
    /\ \A v \in Flushes \ {w} : Key(w) \notin draft[v]
    /\ TakeUnit(w, \A k \in Fingerprints :
                      copies[k] > 0 => \A m \in k : UnitOf[m] # NextUnit(w))

\* bug: a SELECT instead of the unique index.
InsertAfterSelect(w) ==
    /\ pc[w] = "insert"
    /\ TakeUnit(w, copies[Key(w)] = 0)

\* ON CONFLICT DO NOTHING on the dedup key, which waits for an uncommitted row
\* of the same key.
InsertSnapshot(w) ==
    /\ pc[w] = "insert"
    /\ \A v \in Flushes \ {w} : Key(w) \notin draft[v]
    /\ TakeUnit(w, copies[Key(w)] = 0)

\* The extraction of a snapshot, its errors swallowed: nothing is said, or no
\* webhook listens; or the dispatch commits, and the session takes no further
\* statement; or a statement fails, and the transaction is aborted.
Extract(w) ==
    /\ pc[w] = "extract"
    /\ new' = [new EXCEPT ![w] = {}]
    /\ \/ /\ Goto(w, Onward(w))
          /\ UNCHANGED <<db, tx, faults>>
       \/ /\ CommitDraft(w)
          /\ Goto(w, "closed")
          /\ UNCHANGED faults
       \/ /\ faults > 0 /\ faults' = faults - 1
          /\ Goto(w, "broken")
          /\ UNCHANGED <<db, tx>>
    /\ UNCHANGED <<held, view, todo, dirty, deliveries, changes>>

CommitFlush(w) ==
    /\ pc[w] = "commit"
    /\ CommitDraft(w) /\ Close(w)
    /\ UNCHANGED <<held, bounds>>

\* The next statement, or the last commit, raises: the request fails.
EndFailed(w) ==
    /\ pc[w] \in {"closed", "broken"}
    /\ Forget(w) /\ Close(w)
    /\ UNCHANGED <<db, held, bounds>>

Crash(w) ==
    /\ pc[w] # "idle" /\ faults > 0 /\ faults' = faults - 1
    /\ Forget(w) /\ Close(w)
    /\ UNCHANGED <<db, held, deliveries, changes>>

WaitsFor(w, v) ==
    \/ pc[w] = "sync" /\ \E m \in dirty[w] : Same(w, m) /\ m \in upd[v] \cup del[v]
    \/ pc[w] = "insert" /\ Key(w) \in draft[v]

\* Postgres aborts one of two transactions that wait for each other.
BreakDeadlock(w) ==
    /\ \E v \in Flushes \ {w} : WaitsFor(w, v) /\ WaitsFor(v, w)
    /\ Goto(w, "broken")
    /\ Forget(w)
    /\ UNCHANGED <<db, held, view, todo, dirty, new, bounds>>

Step(w) ==
    ReadMappings(w) \/ ReadStaged(w) \/ Sync(w) \/ InsertSnapshot(w) \/ Extract(w)
    \/ CommitFlush(w) \/ EndFailed(w) \/ BreakDeadlock(w)

Next ==
    \/ \E w \in Flushes : Step(w) \/ Crash(w)
    \/ \E m \in Messages : CheckMapping(m) \/ StageMessage(m)
    \/ \E c \in Channels : CreateMapping(c) \/ RevokeMapping(c)

Spec == Init /\ [][Next]_vars

\* A scheduler calls the flush again and again, and its statements return. Who
\* waits for a lock is in the database's queue for it: a flush that starts over
\* cannot overtake it for ever.
Fairness ==
    \A w \in Flushes :
       WF_vars(Step(w)) /\ SF_vars(Sync(w)) /\ SF_vars(InsertSnapshot(w))
FairSpec == Spec /\ Fairness

-----------------------------------------------------------------------------
(* Properties *)

\* A row is marked as flushed only together with a snapshot that holds the
\* message, across concurrent flushes, a commit halfway and a dead flush: what
\* a flush takes from the staging table is in the canonical memory.
FlushedIsCanonical ==
    \A m \in flushed : \E k \in Fingerprints : m \in k /\ copies[k] > 0

\* Concurrent flushes of the same messages write one snapshot (FR18: at most
\* once under redelivery).
SnapshotsAreUnique == \A k \in Fingerprints : copies[k] <= 1

\* Every staged message is flushed or discarded in the end, and for good, though
\* a flush may fail after its first snapshot, or lose a deadlock to another.
StagingDrains == <>[](Unflushed = {})
=============================================================================
