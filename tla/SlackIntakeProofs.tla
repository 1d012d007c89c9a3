--------------------------- MODULE SlackIntakeProofs ---------------------------
(***************************************************************************)
(* Safety of the Slack flush for every set of messages, every partition    *)
(* into units, any number of concurrent flushes, deliveries and faults.    *)
(*                                                                         *)
(* A flush works on a copy of the staging table it read without a lock.    *)
(* What holds the table together nevertheless are the rows its transaction *)
(* has written: no two transactions write the same row, so no row one of   *)
(* them has marked is gone when it commits (LockInv); no two insert the    *)
(* same snapshot, and none inserts one that is there (UniqueInv); and a    *)
(* row is marked only after the snapshot with its message (CoveredInv).    *)
(***************************************************************************)
EXTENDS SlackIntake, FiniteSetTheorems, TLAPS

Places == {"idle", "rows", "sync", "insert", "extract", "commit", "closed", "broken"}

(* The types, with counters that may be any number. *)
Typed ==
    /\ mapped \subseteq Channels
    /\ present \subseteq Messages /\ flushed \subseteq present
    /\ born \in [Messages -> Nat] /\ held \in [Messages -> Nat]
    /\ copies \in [Fingerprints -> Nat]
    /\ pc \in [Flushes -> Places]
    /\ maps \in [Flushes -> SUBSET Channels]
    /\ seen \in [Flushes -> [Messages -> 0..MaxDeliveries]]
    /\ fresh \in [Flushes -> SUBSET Messages]
    /\ dirty \in [Flushes -> SUBSET Messages]
    /\ upd \in [Flushes -> SUBSET Messages]
    /\ del \in [Flushes -> SUBSET Messages]
    /\ todo \in [Flushes -> SUBSET Units]
    /\ draft \in [Flushes -> SUBSET Fingerprints]
    /\ new \in [Flushes -> Fingerprints]
    /\ deliveries \in 0..MaxDeliveries /\ changes \in 0..MaxChanges
    /\ faults \in 0..MaxFaults

(* A delivery is still to come, on its way to the table, or has made a row *)
(* at most once.                                                           *)
BoundInv == \A m \in Messages : born[m] + held[m] + deliveries <= MaxDeliveries

(* A row a transaction has written is there, and no other transaction has  *)
(* written it.                                                             *)
LockInv ==
    \A w \in Flushes :
        /\ upd[w] \subseteq present
        /\ \A v \in Flushes \ {w} : (upd[w] \cup del[w]) \cap (upd[v] \cup del[v]) = {}

(* A snapshot is committed, or in one transaction, or neither. *)
UniqueInv ==
    /\ \A k \in Fingerprints : copies[k] <= 1 /\ (copies[k] > 0 => Flushes # {})
    /\ \A w \in Flushes : \A k \in draft[w] :
          copies[k] = 0 /\ \A v \in Flushes \ {w} : k \notin draft[v]

Stored(m) == \E k \in Fingerprints : m \in k /\ copies[k] > 0
Covered(w, m) == \E k \in Fingerprints : m \in k /\ (copies[k] > 0 \/ k \in draft[w])

(* What is marked, by a commit, in a transaction or only in the session of *)
(* a flush, is in a snapshot that is there or is committed along with it.  *)
CoveredInv ==
    /\ \A m \in flushed : Stored(m)
    /\ \A w \in Flushes :
          /\ \A m \in upd[w] : Covered(w, m)
          /\ pc[w] = "sync" =>
                \A m \in dirty[w] : Channel(m) \in maps[w] => Covered(w, m)

-----------------------------------------------------------------------------
(* The messages of a unit make a fingerprint. *)
LEMMA KeyIsFingerprint == ASSUME NEW w PROVE Key(w) \in Fingerprints
  BY DEF Key, RowsOf, Fingerprints

LEMMA NoKey == {} \in Fingerprints
  BY DEF Fingerprints

LEMMA InitInv == Init => Typed /\ BoundInv /\ LockInv /\ UniqueInv /\ CoveredInv
<1> SUFFICES ASSUME Init PROVE Typed /\ BoundInv /\ LockInv /\ UniqueInv /\ CoveredInv
  OBVIOUS
<1>1. Typed
  BY IntakeAssumption, NoKey DEF Init, Typed, Nothing, Places
<1>2. BoundInv
  BY IntakeAssumption DEF Init, BoundInv
<1>3. LockInv /\ UniqueInv /\ CoveredInv
  BY DEF Init, LockInv, UniqueInv, CoveredInv, Nothing
<1> QED
  BY <1>1, <1>2, <1>3

(* What a step does to the tables and to what transactions hold. *)
LEMMA Writes ==
  ASSUME [Next]_vars
  PROVE  \/ UNCHANGED <<rows, copies, tx>>
         \/ \E w \in Flushes :
               \/ Sync(w) \/ InsertSnapshot(w) \/ CommitDraft(w)
               \/ Forget(w) /\ UNCHANGED <<rows, copies>>
         \/ \E m \in Messages : StageMessage(m)
         \/ \E c \in Channels : RevokeMapping(c)
<1>1. ASSUME NEW w \in Flushes, Step(w) \/ Crash(w)
      PROVE  \/ UNCHANGED <<rows, copies, tx>>
             \/ Sync(w) \/ InsertSnapshot(w) \/ CommitDraft(w)
             \/ Forget(w) /\ UNCHANGED <<rows, copies>>
  <2>1. CASE ReadMappings(w)
    BY <2>1 DEF ReadMappings, db, rows, tx
  <2>2. CASE ReadStaged(w)
    BY <2>2 DEF ReadStaged, db, rows, tx
  <2>3. CASE Extract(w)
    BY <2>3 DEF Extract, db, rows, tx
  <2>4. CASE CommitFlush(w)
    BY <2>4 DEF CommitFlush
  <2>5. CASE EndFailed(w)
    BY <2>5 DEF EndFailed, db, rows
  <2>6. CASE BreakDeadlock(w)
    BY <2>6 DEF BreakDeadlock, db, rows
  <2>7. CASE Crash(w)
    BY <2>7 DEF Crash, db, rows
  <2> QED
    BY <1>1, <2>1, <2>2, <2>3, <2>4, <2>5, <2>6, <2>7 DEF Step
<1>2. ASSUME NEW m \in Messages, CheckMapping(m) PROVE UNCHANGED <<rows, copies, tx>>
  BY <1>2 DEF CheckMapping, db, rows, tx
<1>3. ASSUME NEW c \in Channels, CreateMapping(c) PROVE UNCHANGED <<rows, copies, tx>>
  BY <1>3 DEF CreateMapping, rows, tx
<1>4. CASE UNCHANGED vars
  BY <1>4 DEF vars, rows, tx
<1> QED
  BY <1>1, <1>2, <1>3, <1>4 DEF Next

(* A commit. *)
LEMMA CommitDoes ==
  ASSUME Typed, NEW w \in Flushes, CommitDraft(w)
  PROVE  /\ present' = present \ del[w] /\ flushed' = (flushed \cup upd[w]) \ del[w]
         /\ UNCHANGED born
         /\ copies' \in [Fingerprints -> Nat]
         /\ \A k \in Fingerprints :
               /\ k \in draft[w] => copies'[k] = copies[k] + 1
               /\ k \notin draft[w] => copies'[k] = copies[k]
         /\ upd' = [upd EXCEPT ![w] = {}] /\ del' = [del EXCEPT ![w] = {}]
         /\ draft' = [draft EXCEPT ![w] = {}]
  BY DEF CommitDraft, Forget, Typed

(* What the next statement of a session writes. *)
LEMMA SyncDoes ==
  ASSUME Typed, NEW w \in Flushes, Sync(w)
  PROVE  /\ UNCHANGED <<mapped, present, born, flushed, copies, draft, maps>>
         /\ \E U \in SUBSET present, D \in SUBSET present :
               /\ U \subseteq {m \in dirty[w] : Channel(m) \in maps[w]}
               /\ \A v \in Flushes \ {w} : (U \cup D) \cap (upd[v] \cup del[v]) = {}
               /\ upd' = [upd EXCEPT ![w] = @ \cup U]
               /\ del' = [del EXCEPT ![w] = @ \cup D]
<1> DEFINE there == {m \in dirty[w] : Same(w, m)}
           marks == {m \in dirty[w] : Channel(m) \in maps[w]}
<1>1. there \subseteq present
  BY DEF Same
<1>2. UNCHANGED <<mapped, present, born, flushed, copies, draft, maps>>
  BY DEF Sync, db, view
<1>3. \A v \in Flushes \ {w} : there \cap (upd[v] \cup del[v]) = {}
  BY DEF Sync
<1>4. CASE UNCHANGED <<upd, del>>
  <2>1. upd' = [upd EXCEPT ![w] = @ \cup {}] /\ del' = [del EXCEPT ![w] = @ \cup {}]
    BY <1>4 DEF Typed
  <2> QED
    BY <1>2, <2>1
<1>5. CASE /\ upd' = [upd EXCEPT ![w] = @ \cup (there \cap marks)]
           /\ del' = [del EXCEPT ![w] = @ \cup (there \ marks)]
  <2>1. PICK U \in SUBSET present : U = there \cap marks
    BY <1>1
  <2>2. PICK D \in SUBSET present : D = there \ marks
    BY <1>1
  <2>3. U \subseteq marks /\ U \cup D \subseteq there
    BY <2>1, <2>2
  <2>4. upd' = [upd EXCEPT ![w] = @ \cup U] /\ del' = [del EXCEPT ![w] = @ \cup D]
    BY <1>5, <2>1, <2>2
  <2>5. \A v \in Flushes \ {w} : (U \cup D) \cap (upd[v] \cup del[v]) = {}
    BY <1>3, <2>3
  <2> QED
    BY <1>2, <2>3, <2>4, <2>5
<1> QED
  BY <1>4, <1>5 DEF Sync

(* A unit is taken. *)
LEMMA InsertDoes ==
  ASSUME Typed, NEW w \in Flushes, InsertSnapshot(w)
  PROVE  /\ UNCHANGED <<mapped, present, born, flushed, copies, upd, del, maps>>
         /\ \/ UNCHANGED draft /\ copies[Key(w)] > 0
            \/ /\ draft' = [draft EXCEPT ![w] = @ \cup {Key(w)}]
               /\ copies[Key(w)] = 0
               /\ \A v \in Flushes \ {w} : Key(w) \notin draft[v]
         /\ dirty' = [dirty EXCEPT ![w] = Key(w) \cap fresh[w]]
         /\ pc' = [pc EXCEPT ![w] = "sync"]
<1>1. copies[Key(w)] \in Nat
  BY KeyIsFingerprint DEF Typed
<1> QED
  BY <1>1 DEF InsertSnapshot, TakeUnit, Goto, db, view

-----------------------------------------------------------------------------
(* No row is written twice at the same time: Sync and the DELETE of a       *)
(* revoked mapping wait.                                                   *)
LEMMA LockStep ==
  ASSUME Typed, LockInv, [Next]_vars
  PROVE  LockInv'
<1>1. CASE UNCHANGED <<rows, copies, tx>>
  BY <1>1 DEF LockInv, rows, tx
<1>2. ASSUME NEW w \in Flushes, Sync(w) PROVE LockInv'
  <2>1. PICK U \in SUBSET present, D \in SUBSET present :
           /\ \A v \in Flushes \ {w} : (U \cup D) \cap (upd[v] \cup del[v]) = {}
           /\ upd' = [upd EXCEPT ![w] = @ \cup U]
           /\ del' = [del EXCEPT ![w] = @ \cup D]
    BY <1>2, SyncDoes
  <2>2. present' = present
    BY <1>2, SyncDoes
  <2>3. /\ upd'[w] = upd[w] \cup U /\ del'[w] = del[w] \cup D
        /\ \A v \in Flushes \ {w} : upd'[v] = upd[v] /\ del'[v] = del[v]
    BY <2>1 DEF Typed
  <2> QED
    BY <2>1, <2>2, <2>3 DEF LockInv
<1>3. ASSUME NEW w \in Flushes, InsertSnapshot(w) PROVE LockInv'
  BY <1>3, InsertDoes DEF LockInv
<1>4. ASSUME NEW w \in Flushes, CommitDraft(w) PROVE LockInv'
  <2>1. /\ upd'[w] = {} /\ del'[w] = {}
        /\ \A v \in Flushes \ {w} : upd'[v] = upd[v] /\ del'[v] = del[v]
    BY <1>4, CommitDoes DEF Typed
  <2>2. present' = present \ del[w]
    BY <1>4, CommitDoes
  <2> QED
    BY <2>1, <2>2 DEF LockInv
<1>5. ASSUME NEW w \in Flushes, Forget(w), UNCHANGED <<rows, copies>> PROVE LockInv'
  <2>1. /\ upd'[w] = {} /\ del'[w] = {}
        /\ \A v \in Flushes \ {w} : upd'[v] = upd[v] /\ del'[v] = del[v]
    BY <1>5 DEF Forget, Typed
  <2> QED
    BY <1>5, <2>1 DEF LockInv, rows
<1>6. ASSUME NEW m \in Messages, StageMessage(m) PROVE LockInv'
  BY <1>6 DEF StageMessage, LockInv, tx
<1>7. ASSUME NEW c \in Channels, RevokeMapping(c) PROVE LockInv'
  BY <1>7 DEF RevokeMapping, LockInv, Locked, tx
<1> QED
  BY <1>1, <1>2, <1>3, <1>4, <1>5, <1>6, <1>7, Writes

(* The dedup key is unique: an insert waits for one that is not committed, *)
(* and inserts nothing when the snapshot is there.                         *)
LEMMA UniqueStep ==
  ASSUME Typed, UniqueInv, [Next]_vars
  PROVE  UniqueInv'
<1>1. CASE UNCHANGED <<copies, draft>>
  BY <1>1 DEF UniqueInv
<1>2. ASSUME NEW w \in Flushes, InsertSnapshot(w) PROVE UniqueInv'
  <2>1. CASE UNCHANGED <<copies, draft>>
    BY <2>1 DEF UniqueInv
  <2>2. CASE /\ draft' = [draft EXCEPT ![w] = @ \cup {Key(w)}]
             /\ copies[Key(w)] = 0
             /\ \A v \in Flushes \ {w} : Key(w) \notin draft[v]
    <3>1. PICK K : K = Key(w)
      OBVIOUS
    <3>2. /\ draft'[w] = draft[w] \cup {K}
          /\ \A v \in Flushes \ {w} : draft'[v] = draft[v]
      BY <2>2, <3>1 DEF Typed
    <3>3. UNCHANGED copies
      BY <1>2, InsertDoes
    <3>4. copies[K] = 0 /\ \A v \in Flushes \ {w} : K \notin draft[v]
      BY <2>2, <3>1
    <3> QED
      BY <3>2, <3>3, <3>4 DEF UniqueInv
  <2> QED
    BY <1>2, <2>1, <2>2, InsertDoes
<1>3. ASSUME NEW w \in Flushes, CommitDraft(w) PROVE UniqueInv'
  <2>1. draft'[w] = {} /\ \A v \in Flushes \ {w} : draft'[v] = draft[v]
    BY <1>3, CommitDoes DEF Typed
  <2>2. \A k \in Fingerprints : /\ k \in draft[w] => copies'[k] = copies[k] + 1
                                /\ k \notin draft[w] => copies'[k] = copies[k]
    BY <1>3, CommitDoes
  <2>3. ASSUME NEW k \in Fingerprints PROVE copies'[k] <= 1 /\ Flushes # {}
    <3>1. copies[k] \in Nat /\ copies[k] <= 1
      BY DEF UniqueInv, Typed
    <3>2. k \in draft[w] => copies[k] = 0
      BY DEF UniqueInv
    <3> QED
      BY <2>2, <3>1, <3>2
  <2>4. ASSUME NEW v \in Flushes, NEW k \in draft'[v]
        PROVE  copies'[k] = 0 /\ \A u \in Flushes \ {v} : k \notin draft'[u]
    <3>1. v # w /\ k \in draft[v] /\ k \notin draft[w] /\ k \in Fingerprints
      BY <2>1, <2>4 DEF UniqueInv, Typed
    <3> QED
      BY <2>1, <2>2, <3>1 DEF UniqueInv
  <2> QED
    BY <2>3, <2>4 DEF UniqueInv
<1>4. ASSUME NEW w \in Flushes, Forget(w), UNCHANGED copies PROVE UniqueInv'
  <2>1. draft'[w] = {} /\ \A v \in Flushes \ {w} : draft'[v] = draft[v]
    BY <1>4 DEF Forget, Typed
  <2> QED
    BY <1>4, <2>1 DEF UniqueInv
<1>5. ASSUME NEW w \in Flushes, Sync(w) PROVE UNCHANGED <<copies, draft>>
  BY <1>5, SyncDoes
<1>6. ASSUME NEW m \in Messages, StageMessage(m) PROVE UNCHANGED <<copies, draft>>
  BY <1>6 DEF StageMessage, tx
<1>7. ASSUME NEW c \in Channels, RevokeMapping(c) PROVE UNCHANGED <<copies, draft>>
  BY <1>7 DEF RevokeMapping, tx
<1> QED
  BY <1>1, <1>2, <1>3, <1>4, <1>5, <1>6, <1>7, Writes DEF tx

(* Snapshots are not lost. *)
LEMMA CopiesStay ==
  ASSUME Typed, [Next]_vars
  PROVE  \A k \in Fingerprints : copies[k] > 0 => copies'[k] > 0
<1>1. ASSUME NEW w \in Flushes, CommitDraft(w)
      PROVE  \A k \in Fingerprints : copies[k] > 0 => copies'[k] > 0
  <2>1. ASSUME NEW k \in Fingerprints PROVE copies'[k] = copies[k] + 1 \/ copies'[k] = copies[k]
    BY <1>1, CommitDoes
  <2>2. \A k \in Fingerprints : copies[k] \in Nat
    BY DEF Typed
  <2> QED
    BY <2>1, <2>2
<1>2. CASE UNCHANGED copies
  BY <1>2
<1>3. ASSUME NEW w \in Flushes, Sync(w) \/ InsertSnapshot(w) PROVE UNCHANGED copies
  BY <1>3, SyncDoes, InsertDoes
<1> QED
  BY <1>1, <1>2, <1>3, Writes DEF StageMessage, RevokeMapping, tx

(* A step of one flush leaves what another has covered. *)
LEMMA CoveredStays ==
  ASSUME Typed, [Next]_vars, NEW w \in Flushes, NEW m \in Messages,
         Covered(w, m), draft[w] \subseteq draft'[w]
  PROVE  Covered(w, m)'
<1>1. PICK k \in Fingerprints : m \in k /\ (copies[k] > 0 \/ k \in draft[w])
  BY DEF Covered
<1> QED
  BY <1>1, CopiesStay DEF Covered

(* A mark follows its snapshot: a unit is marked in the session only after  *)
(* its snapshot was inserted or found, and written and committed after it. *)
LEMMA CoveredStep ==
  ASSUME Typed, CoveredInv, [Next]_vars
  PROVE  CoveredInv'
<1> DEFINE Marked(w) == pc[w] = "sync" =>
              \A m \in dirty[w] : Channel(m) \in maps[w] => Covered(w, m)
<1>1. \A m \in flushed : Stored(m)'
  BY CopiesStay DEF CoveredInv, Stored
<1>2. CASE UNCHANGED <<flushed, upd, draft, dirty, maps, pc>>
  <2>1. ASSUME NEW w \in Flushes, NEW m \in upd'[w] PROVE Covered(w, m)'
    BY <1>2, <2>1, CoveredStays DEF CoveredInv, Typed
  <2>2. ASSUME NEW w \in Flushes, pc'[w] = "sync", NEW m \in dirty'[w], Channel(m) \in maps'[w]
        PROVE  Covered(w, m)'
    BY <1>2, <2>2, CoveredStays DEF CoveredInv, Typed
  <2> QED
    BY <1>1, <1>2, <2>1, <2>2 DEF CoveredInv
<1>3. ASSUME NEW w \in Flushes, Step(w) \/ Crash(w) PROVE CoveredInv'
  <2>0. \A v \in Flushes \ {w} :
           /\ upd'[v] = upd[v] /\ draft'[v] = draft[v] /\ dirty'[v] = dirty[v]
           /\ maps'[v] = maps[v] /\ pc'[v] = pc[v]
    <3>1. CASE ReadMappings(w)
      BY <3>1 DEF ReadMappings, Typed, Goto, tx
    <3>2. CASE ReadStaged(w)
      BY <3>2 DEF ReadStaged, Typed, Goto, tx
    <3>3. CASE Sync(w)
      <4>1. \A v \in Flushes \ {w} : upd'[v] = upd[v]
        BY <3>3, SyncDoes DEF Typed
      <4>2. pc' = [pc EXCEPT ![w] = pc'[w]] /\ dirty' = [dirty EXCEPT ![w] = {}]
        BY <3>3 DEF Sync, Goto, Typed
      <4> QED
        BY <4>1, <4>2, <3>3, SyncDoes DEF Typed
    <3>4. CASE InsertSnapshot(w)
      BY <3>4, InsertDoes, SMTT(30) DEF Typed
    <3>5. CASE Extract(w)
      BY <3>5 DEF Extract, CommitDraft, Forget, Typed, Goto, tx, view
    <3>6. CASE CommitFlush(w)
      BY <3>6 DEF CommitFlush, CommitDraft, Forget, Close, Typed, Goto
    <3>7. CASE EndFailed(w)
      BY <3>7 DEF EndFailed, Forget, Close, Typed, Goto
    <3>8. CASE BreakDeadlock(w)
      BY <3>8 DEF BreakDeadlock, Forget, Typed, Goto, view
    <3>9. CASE Crash(w)
      BY <3>9 DEF Crash, Forget, Close, Typed, Goto
    <3> QED
      BY <1>3, <3>1, <3>2, <3>3, <3>4, <3>5, <3>6, <3>7, <3>8, <3>9 DEF Step
  <2>1. ASSUME NEW v \in Flushes \ {w} PROVE (\A m \in upd[v] : Covered(v, m))' /\ Marked(v)'
    <3>1. \A m \in upd[v] \cup dirty[v] : m \in Messages
      BY DEF Typed
    <3>2. ASSUME NEW m \in Messages, Covered(v, m) PROVE Covered(v, m)'
      BY <2>0, <3>2, CoveredStays
    <3> QED
      BY <2>0, <3>1, <3>2 DEF CoveredInv
  <2>2. \A m \in flushed' : Stored(m)'
    <3>1. CASE CommitDraft(w)
      <4>1. ASSUME NEW m \in upd[w] PROVE Stored(m)'
        <5>1. PICK k \in Fingerprints : m \in k /\ (copies[k] > 0 \/ k \in draft[w])
          BY DEF CoveredInv, Covered
        <5>2. copies'[k] > 0
          BY <3>1, <5>1, CopiesStay, CommitDoes DEF Typed
        <5> QED
          BY <5>1, <5>2 DEF Stored
      <4> QED
        BY <1>1, <3>1, <4>1, CommitDoes
    <3>2. CASE UNCHANGED flushed
      BY <1>1, <3>2
    <3>3. CommitDraft(w) \/ UNCHANGED flushed
      BY <1>3 DEF Step, ReadMappings, ReadStaged, Sync, InsertSnapshot, TakeUnit, Extract,
                  CommitFlush, EndFailed, BreakDeadlock, Crash, db
    <3> QED
      BY <3>1, <3>2, <3>3
  <2>3. (\A m \in upd[w] : Covered(w, m))' /\ Marked(w)'
    <3>0. ASSUME draft[w] \subseteq draft'[w], NEW m \in Messages, Covered(w, m)
          PROVE  Covered(w, m)'
      BY <3>0, CoveredStays
    <3>1. CASE Sync(w)
      <4>1. PICK U : /\ U \subseteq {m \in dirty[w] : Channel(m) \in maps[w]}
                     /\ upd' = [upd EXCEPT ![w] = @ \cup U]
        BY <3>1, SyncDoes
      <4>2. upd'[w] = upd[w] \cup U /\ dirty'[w] = {} /\ draft' = draft /\ pc[w] = "sync"
        BY <3>1, <4>1, SyncDoes DEF Sync, Typed
      <4>3. \A m \in upd[w] \cup U : m \in Messages /\ Covered(w, m)
        BY <4>1, <4>2 DEF CoveredInv, Typed
      <4> QED
        BY <3>0, <4>2, <4>3
    <3>2. CASE InsertSnapshot(w)
      <4>1. PICK K \in Fingerprints : K = Key(w)
        BY KeyIsFingerprint
      <4>2. draft[w] \subseteq draft'[w] /\ (copies'[K] > 0 \/ K \in draft'[w])
        BY <3>2, <4>1, InsertDoes DEF Typed
      <4>3. upd' = upd /\ dirty'[w] \subseteq K
        BY <3>2, <4>1, InsertDoes DEF Typed
      <4>4. \A m \in dirty'[w] : Covered(w, m)'
        BY <4>2, <4>3 DEF Covered
      <4>5. \A m \in upd[w] : m \in Messages /\ Covered(w, m)
        BY DEF CoveredInv, Typed
      <4> QED
        BY <3>0, <4>2, <4>3, <4>4, <4>5
    <3>3. CASE ReadStaged(w)
      <4>1. draft' = draft /\ upd' = upd /\ maps' = maps
        BY <3>3 DEF ReadStaged, tx
      <4>2. \A m \in dirty'[w] : Channel(m) \notin maps[w]
        BY <3>3 DEF ReadStaged, Typed
      <4>3. \A m \in upd[w] : m \in Messages /\ Covered(w, m)
        BY DEF CoveredInv, Typed
      <4> QED
        BY <3>0, <4>1, <4>2, <4>3
    <3>4. CASE UNCHANGED tx /\ pc'[w] # "sync"
      <4>1. \A m \in upd[w] : m \in Messages /\ Covered(w, m)
        BY DEF CoveredInv, Typed
      <4> QED
        BY <3>0, <3>4, <4>1 DEF tx
    <3>5. CASE Forget(w) /\ pc'[w] # "sync"
      BY <3>5 DEF Forget, Typed
    <3>6. CASE ReadMappings(w)
      BY <3>4, <3>6 DEF ReadMappings, Goto, Typed
    <3>7. CASE Extract(w)
      BY <3>4, <3>5, <3>7 DEF Extract, CommitDraft, Goto, Onward, Typed
    <3>8. CASE CommitFlush(w)
      BY <3>5, <3>8 DEF CommitFlush, CommitDraft, Close, Goto, Typed
    <3>9. CASE EndFailed(w) \/ Crash(w)
      BY <3>5, <3>9 DEF EndFailed, Crash, Close, Goto, Typed
    <3>10. CASE BreakDeadlock(w)
      BY <3>5, <3>10 DEF BreakDeadlock, Goto, Typed
    <3> QED
      BY <1>3, <3>1, <3>2, <3>3, <3>6, <3>7, <3>8, <3>9, <3>10 DEF Step
  <2> QED
    BY <2>1, <2>2, <2>3 DEF CoveredInv
<1>4. CASE \/ UNCHANGED vars
           \/ \E m \in Messages : CheckMapping(m) \/ StageMessage(m)
           \/ \E c \in Channels : CreateMapping(c) \/ RevokeMapping(c)
  BY <1>2, <1>4 DEF vars, CheckMapping, StageMessage, CreateMapping, RevokeMapping,
                    db, rows, tx, view
<1> QED
  BY <1>3, <1>4 DEF Next

-----------------------------------------------------------------------------
(* A delivery becomes an event on its way, and that a row or nothing. *)
LEMMA BoundStep ==
  ASSUME Typed, BoundInv, [Next]_vars
  PROVE  BoundInv'
<1>1. CASE UNCHANGED <<born, held, deliveries>>
  BY <1>1 DEF BoundInv
<1>2. ASSUME NEW m \in Messages, CheckMapping(m) PROVE BoundInv'
  <2>1. ASSUME NEW n \in Messages PROVE held'[n] \in Nat /\ held'[n] <= held[n] + 1
    BY <1>2 DEF CheckMapping, Typed
  <2>2. born' = born /\ deliveries \in Nat /\ deliveries > 0 /\ deliveries' = deliveries - 1
    BY <1>2, IntakeAssumption DEF CheckMapping, Typed, db
  <2>3. \A n \in Messages : born[n] \in Nat /\ held[n] \in Nat
    BY DEF Typed
  <2> QED
    BY <2>1, <2>2, <2>3, IntakeAssumption DEF BoundInv
<1>3. ASSUME NEW m \in Messages, StageMessage(m) PROVE BoundInv'
  <2>1. \A n \in Messages : born[n] \in Nat /\ held[n] \in Nat
    BY DEF Typed
  <2>2. /\ held[m] > 0 /\ held'[m] = held[m] - 1
        /\ \A n \in Messages \ {m} : held'[n] = held[n]
    BY <1>3 DEF StageMessage, Typed
  <2>3. /\ born'[m] = born[m] \/ born'[m] = born[m] + 1
        /\ \A n \in Messages \ {m} : born'[n] = born[n]
    BY <1>3 DEF StageMessage, Typed
  <2>4. deliveries' = deliveries /\ deliveries \in Nat
    BY <1>3, IntakeAssumption DEF StageMessage, bounds, Typed
  <2> QED
    BY <2>1, <2>2, <2>3, <2>4, IntakeAssumption DEF BoundInv
<1>4. ASSUME NEW w \in Flushes, Step(w) \/ Crash(w) PROVE UNCHANGED <<born, held, deliveries>>
  BY <1>4 DEF Step, ReadMappings, ReadStaged, Sync, InsertSnapshot, TakeUnit, Extract,
              CommitFlush, CommitDraft, EndFailed, BreakDeadlock, Crash, db, bounds
<1>5. ASSUME NEW c \in Channels, CreateMapping(c) \/ RevokeMapping(c)
      PROVE  UNCHANGED <<born, held, deliveries>>
  BY <1>5 DEF CreateMapping, RevokeMapping, rows
<1> QED
  BY <1>1, <1>2, <1>3, <1>4, <1>5 DEF Next, vars

(* The end of a call and of a transaction keep the types. *)
LEMMA Ends ==
  ASSUME Typed, NEW w \in Flushes
  PROVE  /\ Close(w) => /\ pc' \in [Flushes -> Places] /\ maps' \in [Flushes -> SUBSET Channels]
                        /\ seen' \in [Flushes -> [Messages -> 0..MaxDeliveries]]
                        /\ fresh' \in [Flushes -> SUBSET Messages]
                        /\ dirty' \in [Flushes -> SUBSET Messages]
                        /\ todo' \in [Flushes -> SUBSET Units]
                        /\ new' \in [Flushes -> Fingerprints]
         /\ Forget(w) => /\ upd' \in [Flushes -> SUBSET Messages]
                         /\ del' \in [Flushes -> SUBSET Messages]
                         /\ draft' \in [Flushes -> SUBSET Fingerprints]
<1>1. [m \in Messages |-> 0] \in [Messages -> 0..MaxDeliveries]
  BY IntakeAssumption
<1>2. ASSUME Close(w)
      PROVE  /\ pc' \in [Flushes -> Places] /\ maps' \in [Flushes -> SUBSET Channels]
             /\ seen' \in [Flushes -> [Messages -> 0..MaxDeliveries]]
             /\ fresh' \in [Flushes -> SUBSET Messages]
             /\ dirty' \in [Flushes -> SUBSET Messages]
             /\ todo' \in [Flushes -> SUBSET Units]
             /\ new' \in [Flushes -> Fingerprints]
  <2>1. pc' \in [Flushes -> Places]
    BY <1>2 DEF Close, Goto, Typed, Places
  <2>2. seen' \in [Flushes -> [Messages -> 0..MaxDeliveries]]
    BY <1>1, <1>2 DEF Close, Typed
  <2>3. new' \in [Flushes -> Fingerprints]
    BY <1>2, NoKey DEF Close, Typed
  <2>4. /\ maps' \in [Flushes -> SUBSET Channels] /\ fresh' \in [Flushes -> SUBSET Messages]
        /\ dirty' \in [Flushes -> SUBSET Messages] /\ todo' \in [Flushes -> SUBSET Units]
    BY <1>2 DEF Close, Typed
  <2> QED
    BY <2>1, <2>2, <2>3, <2>4
<1>3. Forget(w) => /\ upd' \in [Flushes -> SUBSET Messages]
                   /\ del' \in [Flushes -> SUBSET Messages]
                   /\ draft' \in [Flushes -> SUBSET Fingerprints]
  BY DEF Forget, Typed
<1> QED
  BY <1>2, <1>3

(* Every step keeps the types. *)
LEMMA TypeStep ==
  ASSUME Typed, BoundInv, LockInv, [Next]_vars
  PROVE  Typed'
<1>1. ASSUME NEW w \in Flushes, ReadMappings(w) PROVE Typed'
  <2>1. pc' \in [Flushes -> Places] /\ maps' \in [Flushes -> SUBSET Channels]
    BY <1>1 DEF ReadMappings, Goto, Typed, Places
  <2> QED
    BY <1>1, <2>1 DEF ReadMappings, Typed, db, tx, bounds
<1>2. ASSUME NEW w \in Flushes, ReadStaged(w) PROVE Typed'
  <2>1. \A m \in Messages : born[m] \in 0..MaxDeliveries
    BY IntakeAssumption DEF Typed, BoundInv
  <2>2. PICK R : R = [m \in Messages |-> IF m \in present THEN born[m] ELSE 0]
    OBVIOUS
  <2>3. R \in [Messages -> 0..MaxDeliveries]
    BY <2>1, <2>2, IntakeAssumption
  <2>4. seen' = [seen EXCEPT ![w] = R]
    BY <1>2, <2>2 DEF ReadStaged
  <2>5. seen' \in [Flushes -> [Messages -> 0..MaxDeliveries]]
    BY <2>3, <2>4 DEF Typed
  <2>6. fresh' \in [Flushes -> SUBSET Messages] /\ dirty' \in [Flushes -> SUBSET Messages]
    BY <1>2 DEF ReadStaged, Unflushed, Typed
  <2>7. PICK T \in SUBSET Units :
           T = {UnitOf[m] : m \in {n \in Unflushed : Channel(n) \in maps[w]}}
    <3>1. \A m \in Unflushed : UnitOf[m] \in Units
      BY IntakeAssumption DEF Unflushed, Typed
    <3>2. {UnitOf[m] : m \in {n \in Unflushed : Channel(n) \in maps[w]}} \subseteq Units
      BY <3>1
    <3> QED
      BY <3>2
  <2>8. todo' \in [Flushes -> SUBSET Units]
    BY <1>2, <2>7 DEF ReadStaged, Typed
  <2>9. pc' \in [Flushes -> Places]
    BY <1>2 DEF ReadStaged, Goto, Typed, Places
  <2> QED
    BY <1>2, <2>5, <2>6, <2>8, <2>9 DEF ReadStaged, Typed, db, tx, bounds
<1>3. ASSUME NEW w \in Flushes, Sync(w) PROVE Typed'
  <2>1. pc' \in [Flushes -> Places] /\ dirty' \in [Flushes -> SUBSET Messages]
    BY <1>3 DEF Sync, Goto, Onward, Typed, Places
  <2>2. PICK U \in SUBSET present, D \in SUBSET present :
           upd' = [upd EXCEPT ![w] = @ \cup U] /\ del' = [del EXCEPT ![w] = @ \cup D]
    BY <1>3, SyncDoes
  <2>3. upd' \in [Flushes -> SUBSET Messages] /\ del' \in [Flushes -> SUBSET Messages]
    BY <2>2 DEF Typed
  <2> QED
    BY <1>3, <2>1, <2>3 DEF Sync, Typed, db, view, bounds
<1>4. ASSUME NEW w \in Flushes, InsertSnapshot(w) PROVE Typed'
  <2>1. PICK K \in Fingerprints : K = Key(w)
    BY KeyIsFingerprint
  <2>2. draft' = draft \/ draft' = [draft EXCEPT ![w] = @ \cup {K}]
    BY <1>4, <2>1 DEF InsertSnapshot, TakeUnit
  <2>3. new' = [new EXCEPT ![w] = K] \/ new' = [new EXCEPT ![w] = {}]
    BY <1>4, <2>1 DEF InsertSnapshot, TakeUnit
  <2>4. draft' \in [Flushes -> SUBSET Fingerprints] /\ new' \in [Flushes -> Fingerprints]
    <3>0. draft[w] \cup {K} \in SUBSET Fingerprints
      BY <2>1 DEF Typed
    <3>1. draft' \in [Flushes -> SUBSET Fingerprints]
      <4>1. CASE draft' = draft
        BY <4>1 DEF Typed
      <4>2. CASE draft' = [draft EXCEPT ![w] = @ \cup {K}]
        <5>1. draft' = [draft EXCEPT ![w] = draft[w] \cup {K}]
          BY <4>2
        <5> QED
          BY <3>0, <5>1 DEF Typed
      <4> QED
        BY <2>2, <4>1, <4>2
    <3>2. new' \in [Flushes -> Fingerprints]
      BY <2>3, NoKey DEF Typed
    <3> QED
      BY <3>1, <3>2
  <2>5. dirty' = [dirty EXCEPT ![w] = K \cap fresh[w]]
    BY <1>4, <2>1 DEF InsertSnapshot, TakeUnit
  <2>6. dirty' \in [Flushes -> SUBSET Messages]
    BY <2>5 DEF Typed
  <2>7. todo' \in [Flushes -> SUBSET Units] /\ pc' \in [Flushes -> Places]
    BY <1>4 DEF InsertSnapshot, TakeUnit, Goto, Typed, Places
  <2> QED
    BY <1>4, <2>4, <2>6, <2>7 DEF InsertSnapshot, TakeUnit, Typed, db, view, bounds
<1>5. ASSUME NEW w \in Flushes, CommitDraft(w)
      PROVE  /\ present' \subseteq Messages /\ flushed' \subseteq present'
             /\ copies' \in [Fingerprints -> Nat]
             /\ upd' \in [Flushes -> SUBSET Messages] /\ del' \in [Flushes -> SUBSET Messages]
             /\ draft' \in [Flushes -> SUBSET Fingerprints]
             /\ UNCHANGED <<mapped, born>>
  <2>1. Forget(w) /\ UNCHANGED <<mapped, born>>
    BY <1>5 DEF CommitDraft
  <2>2. upd[w] \subseteq present
    BY DEF LockInv
  <2>3. present' \subseteq Messages /\ flushed' \subseteq present'
    BY <1>5, <2>2, CommitDoes DEF Typed
  <2> QED
    BY <1>5, <2>1, <2>3, CommitDoes, Ends
<1>6. ASSUME NEW w \in Flushes, Extract(w) PROVE Typed'
  <2>1. new' \in [Flushes -> Fingerprints] /\ pc' \in [Flushes -> Places]
    BY <1>6, NoKey DEF Extract, Goto, Onward, Typed, Places
  <2>2. faults' \in 0..MaxFaults
    BY <1>6, IntakeAssumption DEF Extract, Typed
  <2>3. CASE UNCHANGED <<db, tx>>
    BY <1>6, <2>1, <2>2, <2>3 DEF Extract, Typed, db, tx, view
  <2>4. CASE CommitDraft(w)
    BY <1>5, <1>6, <2>1, <2>2, <2>4 DEF Extract, Typed, view
  <2> QED
    BY <1>6, <2>3, <2>4 DEF Extract
<1>7. ASSUME NEW w \in Flushes, CommitFlush(w) PROVE Typed'
  BY <1>5, <1>7, Ends DEF CommitFlush, Typed, bounds
<1>8. ASSUME NEW w \in Flushes, EndFailed(w) PROVE Typed'
  BY <1>8, Ends DEF EndFailed, Typed, db, bounds
<1>9. ASSUME NEW w \in Flushes, Crash(w) PROVE Typed'
  <2>1. faults' \in 0..MaxFaults
    BY <1>9, IntakeAssumption DEF Crash, Typed
  <2> QED
    BY <1>9, <2>1, Ends DEF Crash, Typed, db
<1>10. ASSUME NEW w \in Flushes, BreakDeadlock(w) PROVE Typed'
  <2>1. pc' \in [Flushes -> Places]
    BY <1>10 DEF BreakDeadlock, Goto, Typed, Places
  <2> QED
    BY <1>10, <2>1, Ends DEF BreakDeadlock, Typed, db, view, bounds
<1>11. ASSUME NEW m \in Messages, CheckMapping(m) PROVE Typed'
  <2>1. held' \in [Messages -> Nat] /\ deliveries' \in 0..MaxDeliveries
    BY <1>11, IntakeAssumption DEF CheckMapping, Typed
  <2> QED
    BY <1>11, <2>1 DEF CheckMapping, Typed, db, view, tx
<1>12. ASSUME NEW m \in Messages, StageMessage(m) PROVE Typed'
  <2>1. held' \in [Messages -> Nat] /\ born' \in [Messages -> Nat]
    BY <1>12 DEF StageMessage, Typed
  <2> QED
    BY <1>12, <2>1 DEF StageMessage, Typed, view, tx, bounds
<1>13. ASSUME NEW c \in Channels, CreateMapping(c) \/ RevokeMapping(c) PROVE Typed'
  <2>1. changes' \in 0..MaxChanges /\ mapped' \subseteq Channels
    BY <1>13, IntakeAssumption DEF CreateMapping, RevokeMapping, Typed
  <2>2. present' \subseteq Messages /\ flushed' \subseteq present'
    BY <1>13 DEF CreateMapping, RevokeMapping, Typed, rows
  <2> QED
    BY <1>13, <2>1, <2>2 DEF CreateMapping, RevokeMapping, Typed, rows, view, tx
<1>14. CASE UNCHANGED vars
  BY <1>14 DEF vars, Typed
<1> QED
  BY <1>1, <1>2, <1>3, <1>4, <1>6, <1>7, <1>8, <1>9, <1>10, <1>11, <1>12, <1>13, <1>14
     DEF Next, Step

-----------------------------------------------------------------------------
LEMMA Invariance == Spec => [](Typed /\ BoundInv /\ LockInv /\ UniqueInv /\ CoveredInv)
  BY InitInv, TypeStep, BoundStep, LockStep, UniqueStep, CoveredStep, PTL DEF Spec

(* Every variable keeps its type: no more copies of a snapshot than there  *)
(* are flushes, no more rows of a message than deliveries of it, and no    *)
(* mark on a row that is gone.                                             *)
THEOREM TypeCorrect == Spec => []TypeOK
<1>1. Typed /\ BoundInv /\ UniqueInv => TypeOK
  <2> SUFFICES ASSUME Typed, BoundInv, UniqueInv PROVE TypeOK
    OBVIOUS
  <2>1. \A m \in Messages : born[m] \in 0..MaxDeliveries /\ held[m] \in 0..MaxDeliveries
    BY IntakeAssumption DEF Typed, BoundInv
  <2>2. ASSUME NEW k \in Fingerprints PROVE copies[k] \in 0..Cardinality(Flushes)
    <3>1. Cardinality(Flushes) \in Nat
      BY IntakeAssumption, FS_CardinalityType
    <3>2. copies[k] \in Nat /\ copies[k] <= 1 /\ (copies[k] > 0 => Flushes # {})
      BY DEF Typed, UniqueInv
    <3>3. Flushes # {} => Cardinality(Flushes) # 0
      BY IntakeAssumption, FS_EmptySet
    <3> QED
      BY <3>1, <3>2, <3>3
  <2> QED
    BY <2>1, <2>2 DEF Typed, TypeOK, Places
<1> QED
  BY <1>1, Invariance, PTL

(* slack_snapshot_flush.py marks a staged message only if a snapshot of the *)
(* canonical memory holds it, whatever other flushes, redeliveries, revoked *)
(* mappings, deadlocks and commits halfway do in between.                  *)
THEOREM MarkedIsCanonical == Spec => []FlushedIsCanonical
<1>1. CoveredInv => FlushedIsCanonical
  BY DEF CoveredInv, Stored, FlushedIsCanonical
<1> QED
  BY <1>1, Invariance, PTL

(* canonical_idempotent_write.py writes a set of messages at most once,    *)
(* from however many flushes at the same time (FR18).                      *)
THEOREM OneSnapshotEach == Spec => []SnapshotsAreUnique
<1>1. UniqueInv => SnapshotsAreUnique
  BY DEF UniqueInv, SnapshotsAreUnique
<1> QED
  BY <1>1, Invariance, PTL
=============================================================================
