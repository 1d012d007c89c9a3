---------------------------- MODULE MailSyncProofs ----------------------------
(***************************************************************************)
(* Safety of the mail sync for every number of messages, every partition   *)
(* into conversations, every set of callers and any number of faults.      *)
(*                                                                         *)
(* Syncs overwrite each other's cursor, forwards and backwards, so no      *)
(* order of the cursors helps.  What helps is that every cursor somebody   *)
(* may still commit is a good one (CoverInv): whatever a caller has read   *)
(* was committed, and what a sync puts in its place it has stored first,   *)
(* conversation by conversation; snapshots are only added.                 *)
(***************************************************************************)
EXTENDS MailSync, TLAPS

Places == {"idle", "token", "delta", "fetch", "write", "commit", "failed"}

(* No cursor is ahead of the inbox. *)
CursorInv ==
    /\ config.cursor <= arrived
    /\ \A p \in Callers : mine[p].cursor <= arrived /\ ahead[p] <= arrived

(* Every cursor that is committed or may be is covered by the snapshots; so *)
(* is the one of a delta, but for the conversations still to be fetched.   *)
CoverInv ==
    \A c \in Conversations :
        /\ Stored(c, config.cursor)
        /\ \A p \in Callers : Stored(c, mine[p].cursor)
        /\ \A p \in Callers : pc[p] = "fetch" /\ c \notin todo[p] => Stored(c, ahead[p])

-----------------------------------------------------------------------------
(* Up to cursor 0 there is nothing to store. *)
LEMMA NothingIsStored == \A c \in Conversations : Stored(c, 0)
  BY DEF Stored

LEMMA InitInv == Init => TypeOK /\ CursorInv /\ CoverInv
<1> SUFFICES ASSUME Init PROVE TypeOK /\ CursorInv /\ CoverInv
  OBVIOUS
<1>1. TypeOK
  BY SyncAssumption DEF Init, TypeOK, Configs, Read, Unread, Mail
<1>2. CursorInv /\ CoverInv
  BY NothingIsStored DEF Init, CursorInv, CoverInv, Unread
<1> QED
  BY <1>1, <1>2

(* What is stored stays stored: snapshots are only added, and what a page  *)
(* left out is remembered.                                                 *)
LEMMA StoredStays ==
  ASSUME NEW c \in Conversations, NEW n \in 0..MaxMail, Stored(c, n),
         snapshots \subseteq snapshots', missed \subseteq missed'
  PROVE  Stored(c, n)'
  BY DEF Stored

(* A fetch that goes on to the next thread.                                *)
ThreadFetched(s, c) ==
    FetchThread(s, c) /\ todo' = [todo EXCEPT ![s] = @ \ {c}] /\ UNCHANGED pc

(* One that does not ends the sync, and stores nothing.                    *)
ThreadFailed(s) ==
    /\ UNCHANGED <<todo, snapshots, missed, arrived, row, mine, ahead, visits>>
    /\ pc' = [pc EXCEPT ![s] = "failed"] /\ faults' = faults - 1 /\ faults > 0

LEMMA FetchCases ==
  ASSUME NEW s \in Syncs, NEW c \in Conversations, FetchThread(s, c)
  PROVE  ThreadFetched(s, c) \/ ThreadFailed(s)
  BY DEF FetchThread, ThreadFetched, ThreadFailed, Fault, Goto

(* A fetch adds a snapshot, or remembers what a failed page left out; up to *)
(* the last message the conversation is stored then.                       *)
LEMMA FetchStores ==
  ASSUME TypeOK, NEW s \in Syncs, NEW c \in Conversations, ThreadFetched(s, c)
  PROVE  /\ snapshots \subseteq snapshots' /\ missed \subseteq missed'
         /\ \A S \in snapshots' : S \in snapshots \/ S \subseteq Thread(c)
         /\ missed' \subseteq missed \cup Thread(c)
         /\ \A M \in SUBSET Thread(c) :
               M \cap missed' = {} => \E S \in snapshots' \cup {{}} : M \subseteq S
<1>1. CASE snapshots' = snapshots \cup {Thread(c)} /\ UNCHANGED missed
  BY <1>1
<1>2. ASSUME NEW n \in 0..arrived,
             LET got == {m \in Thread(c) : m <= n} IN
                /\ got # Thread(c)
                /\ snapshots' = IF got = {} THEN snapshots ELSE snapshots \cup {got}
                /\ missed' = missed \cup (Thread(c) \ got)
      PROVE  /\ snapshots \subseteq snapshots' /\ missed \subseteq missed'
             /\ \A S \in snapshots' : S \in snapshots \/ S \subseteq Thread(c)
             /\ missed' \subseteq missed \cup Thread(c)
                 /\ \A M \in SUBSET Thread(c) :
                   M \cap missed' = {} => \E S \in snapshots' \cup {{}} : M \subseteq S
  <2> DEFINE got == {m \in Thread(c) : m <= n}
  <2>1. /\ got \subseteq Thread(c) /\ got # Thread(c)
        /\ missed' = missed \cup (Thread(c) \ got)
        /\ snapshots' = IF got = {} THEN snapshots ELSE snapshots \cup {got}
    BY <1>2
  <2> HIDE DEF got
  <2>2. ASSUME NEW M \in SUBSET Thread(c), M \cap missed' = {}
        PROVE  \E S \in snapshots' \cup {{}} : M \subseteq S
    <3>1. M \subseteq got
      BY <2>1, <2>2
    <3> QED
      BY <2>1, <3>1
  <2> QED
    BY <2>1, <2>2
<1>3. ~Goto(s, "failed")
  BY DEF ThreadFetched, FetchThread, Goto, TypeOK, Callers
<1> QED
  BY <1>1, <1>2, <1>3 DEF ThreadFetched, FetchThread

(* Up to any message that is in the inbox, that is. *)
LEMMA FetchCovers ==
  ASSUME TypeOK, NEW s \in Syncs, NEW c \in Conversations, ThreadFetched(s, c),
         NEW n \in 0..MaxMail, n <= arrived
  PROVE  Stored(c, n)'
<1> DEFINE U == {m \in 1..n : ConversationOf[m] = c}
<1>0. \A m \in 1..n : m \in 1..arrived
  BY SyncAssumption DEF TypeOK
<1>a. U \subseteq Thread(c)
  BY <1>0 DEF Thread
<1>1. PICK M \in SUBSET Thread(c) : M = U
  BY <1>a
<1>2. M \cap missed' = {} => \E S \in snapshots' \cup {{}} : M \subseteq S
  BY FetchStores
<1> QED
  BY <1>1, <1>2 DEF Stored

(* The changes a caller makes to the row it has read. *)
LEMMA ReadStays ==
  ASSUME NEW r \in Read, NEW n \in 0..MaxMail, NEW b \in BOOLEAN
  PROVE  [r EXCEPT !.cursor = n] \in Read /\ [r EXCEPT !.tokens = b] \in Read
  BY DEF Read

(* Every step keeps the types. *)
LEMMA TypeStep ==
  ASSUME TypeOK, [Next]_vars
  PROVE  TypeOK'
<1> USE SyncAssumption DEF TypeOK, Configs, Read, Mail, Callers, Visitors
<1>1. CASE Receive
  BY <1>1 DEF Receive, row, local
<1>2. ASSUME NEW s \in Syncs, StartSync(s) PROVE TypeOK'
  BY <1>2 DEF StartSync, Goto, ReadRow, row
<1>3. ASSUME NEW s \in Syncs, EnsureToken(s) PROVE TypeOK'
  <2>1. pc' = [pc EXCEPT ![s] = "delta"] \/ pc' = [pc EXCEPT ![s] = "failed"]
    BY <1>3 DEF EnsureToken, Goto
  <2>2. pc' \in [Callers -> Places] /\ \A p \in Callers : pc'[p] = "commit" => pc[p] = "commit" /\ p # s
    BY <2>1 DEF Places
  <2>3. rowLock' = rowLock \/ (rowLock \in {Nobody, s} /\ rowLock' = s)
    BY <1>3 DEF EnsureToken, LockRow
  <2>4. \A p \in Callers : pc'[p] = "commit" => rowLock' = p
    BY <2>2, <2>3
  <2> QED
    BY <1>3, <2>2, <2>3, <2>4 DEF EnsureToken, Fault, local, Places
<1>4. ASSUME NEW s \in Syncs, ReadDelta(s) PROVE TypeOK'
  <2>1. mine[s].cursor \in 0..MaxMail
    OBVIOUS
  <2>2. {ConversationOf[m] : m \in (mine[s].cursor + 1)..arrived} \subseteq Conversations
    BY <2>1
  <2>3. ahead' \in [Callers -> 0..MaxMail] /\ todo' \in [Callers -> SUBSET Conversations]
    <3>1. PICK D \in SUBSET Conversations :
             D = {ConversationOf[m] : m \in (mine[s].cursor + 1)..arrived}
      BY <2>2
    <3>2. \/ ahead' = [ahead EXCEPT ![s] = arrived] /\ todo' = [todo EXCEPT ![s] = D]
          \/ UNCHANGED <<ahead, todo>>
      BY <1>4, <3>1 DEF ReadDelta
    <3>3. ahead' \in [Callers -> 0..MaxMail]
      BY <3>2
    <3>4. todo' \in [Callers -> SUBSET Conversations]
      BY <3>2
    <3> QED
      BY <3>3, <3>4
  <2>4. pc' = [pc EXCEPT ![s] = "fetch"] \/ pc' = [pc EXCEPT ![s] = "failed"]
    BY <1>4 DEF ReadDelta, Goto
  <2>5. pc' \in [Callers -> Places] /\ \A p \in Callers : pc'[p] = "commit" => pc[p] = "commit"
    BY <2>4 DEF Places
  <2> QED
    BY <1>4, <2>3, <2>5, SMTT(30) DEF ReadDelta, Fault, row, Places
<1>5. ASSUME NEW s \in Syncs, NEW c \in Conversations, FetchThread(s, c) PROVE TypeOK'
  <2>1. CASE ThreadFetched(s, c)
    <3>1. Thread(c) \subseteq 1..MaxMail
      BY DEF Thread
    <3>2. todo' \in [Callers -> SUBSET Conversations]
      BY <2>1 DEF ThreadFetched
    <3>3. snapshots' \subseteq SUBSET (1..MaxMail) /\ missed' \subseteq 1..MaxMail
      BY <2>1, <3>1, FetchStores
    <3> QED
      BY <2>1, <3>2, <3>3 DEF ThreadFetched, FetchThread, Fault, row
  <2>2. CASE ThreadFailed(s)
    BY <2>2 DEF ThreadFailed, row
  <2> QED
    BY <1>5, <2>1, <2>2, FetchCases
<1>6. ASSUME NEW s \in Syncs, WriteCursor(s) PROVE TypeOK'
  <2>1. ahead[s] \in 0..MaxMail
    BY <1>6 DEF WriteCursor
  <2>2. [mine[s] EXCEPT !.cursor = ahead[s]] \in [tokens : BOOLEAN, cursor : 0..MaxMail, on : BOOLEAN]
    <3>1. mine[s] \in Read
      OBVIOUS
    <3>2. [mine[s] EXCEPT !.cursor = ahead[s]] \in Read
      <4> HIDE DEF Read
      <4> QED
        BY <2>1, <3>1, ReadStays
    <3> QED
      BY <3>2
  <2>3. mine' \in [Callers -> [tokens : BOOLEAN, cursor : 0..MaxMail, on : BOOLEAN]]
    BY <1>6, <2>2 DEF WriteCursor
  <2>4. rowLock' = s /\ rowLock \in {Nobody, s} /\ pc' = [pc EXCEPT ![s] = "commit"]
    BY <1>6 DEF WriteCursor, LockRow, Goto
  <2> QED
    BY <1>6, <2>3, <2>4 DEF WriteCursor
<1>7. ASSUME NEW s \in Syncs, EndSync(s) PROVE TypeOK'
  BY <1>7 DEF EndSync, Goto, Close, CommitConfig, Unread
<1>8. ASSUME NEW p \in Visitors, Visit(p) PROVE TypeOK'
  BY <1>8 DEF Visit, Goto, ReadRow, row
<1>9. ASSUME NEW p \in Visitors, WriteTokens(p) PROVE TypeOK'
  <2>1. (p = Connect) \in BOOLEAN
    BY <1>9 DEF WriteTokens
  <2>2. [mine[p] EXCEPT !.tokens = (p = Connect)] \in [tokens : BOOLEAN, cursor : 0..MaxMail, on : BOOLEAN]
    <3>1. mine[p] \in Read
      OBVIOUS
    <3>2. [mine[p] EXCEPT !.tokens = (p = Connect)] \in Read
      <4> HIDE DEF Read
      <4> QED
        BY <2>1, <3>1, ReadStays
    <3> QED
      BY <3>2
  <2>3. mine' \in [Callers -> [tokens : BOOLEAN, cursor : 0..MaxMail, on : BOOLEAN]]
    BY <1>9, <2>2 DEF WriteTokens
  <2>4. rowLock' = p /\ rowLock \in {Nobody, p} /\ pc' = [pc EXCEPT ![p] = "commit"]
    BY <1>9 DEF WriteTokens, LockRow, Goto
  <2> QED
    BY <1>9, <2>3, <2>4 DEF WriteTokens
<1>10. ASSUME NEW p \in Visitors, EndVisit(p) PROVE TypeOK'
  BY <1>10 DEF EndVisit, Goto, Close, CommitConfig, Unread
<1>11. ASSUME NEW p \in Callers, Crash(p) PROVE TypeOK'
  BY <1>11 DEF Crash, Goto, Close, Fault, Unread
<1>12. CASE UNCHANGED vars
  BY <1>12 DEF vars
<1> QED
  BY <1>1, <1>2, <1>3, <1>4, <1>5, <1>6, <1>7, <1>8, <1>9, <1>10, <1>11, <1>12
     DEF Next, SyncStep, VisitStep

(* A cursor comes from a delta, and a delta ends at the last message. *)
LEMMA CursorStep ==
  ASSUME TypeOK, CursorInv, [Next]_vars
  PROVE  CursorInv'
<1> USE SyncAssumption DEF TypeOK, CursorInv, Configs, Read, Callers, Visitors
<1>1. CASE Receive
  BY <1>1 DEF Receive, row, local
<1>2. ASSUME NEW s \in Syncs, StartSync(s) PROVE CursorInv'
  BY <1>2 DEF StartSync, Goto, ReadRow, row
<1>3. ASSUME NEW s \in Syncs, EnsureToken(s) PROVE CursorInv'
  BY <1>3 DEF EnsureToken, Goto, LockRow, Fault, local
<1>4. ASSUME NEW s \in Syncs, ReadDelta(s) PROVE CursorInv'
  BY <1>4 DEF ReadDelta, Goto, Fault, row
<1>5. ASSUME NEW s \in Syncs, NEW c \in Conversations, FetchThread(s, c) PROVE CursorInv'
  BY <1>5 DEF FetchThread, Fault, row, Thread
<1>6. ASSUME NEW s \in Syncs, WriteCursor(s) PROVE CursorInv'
  BY <1>6 DEF WriteCursor, Goto, LockRow
<1>7. ASSUME NEW s \in Syncs, EndSync(s) PROVE CursorInv'
  BY <1>7 DEF EndSync, Goto, Close, CommitConfig, Unread
<1>8. ASSUME NEW p \in Visitors, Visit(p) PROVE CursorInv'
  BY <1>8 DEF Visit, Goto, ReadRow, row
<1>9. ASSUME NEW p \in Visitors, WriteTokens(p) PROVE CursorInv'
  BY <1>9 DEF WriteTokens, Goto, LockRow
<1>10. ASSUME NEW p \in Visitors, EndVisit(p) PROVE CursorInv'
  BY <1>10 DEF EndVisit, Goto, Close, CommitConfig, Unread
<1>11. ASSUME NEW p \in Callers, Crash(p) PROVE CursorInv'
  BY <1>11 DEF Crash, Goto, Close, Fault, Unread
<1>12. CASE UNCHANGED vars
  BY <1>12 DEF vars
<1> QED
  BY <1>1, <1>2, <1>3, <1>4, <1>5, <1>6, <1>7, <1>8, <1>9, <1>10, <1>11, <1>12
     DEF Next, SyncStep, VisitStep

(* A sync stores what lies between two cursors before it moves on. *)
LEMMA CoverStep ==
  ASSUME TypeOK, CursorInv, CoverInv, [Next]_vars
  PROVE  CoverInv'
<1> USE SyncAssumption, NothingIsStored, StoredStays DEF TypeOK, CursorInv, CoverInv, Configs, Read, Callers, Visitors
<1>1. CASE Receive
  BY <1>1 DEF Receive, row, local
<1>2. ASSUME NEW s \in Syncs, StartSync(s) PROVE CoverInv'
  BY <1>2 DEF StartSync, Goto, ReadRow, row
<1>3. ASSUME NEW s \in Syncs, EnsureToken(s) PROVE CoverInv'
  BY <1>3 DEF EnsureToken, Goto, LockRow, Fault, local
<1>4. ASSUME NEW s \in Syncs, ReadDelta(s) PROVE CoverInv'
  <2>1. CASE UNCHANGED <<ahead, todo>> /\ Goto(s, "failed")
    BY <1>4, <2>1 DEF ReadDelta, Goto, row, Stored
  <2>2. CASE /\ ahead' = [ahead EXCEPT ![s] = arrived]
             /\ todo' = [todo EXCEPT ![s] =
                    {ConversationOf[m] : m \in (mine[s].cursor + 1)..arrived}]
             /\ Goto(s, "fetch")
    <3>1. ASSUME NEW c \in Conversations, c \notin todo'[s] PROVE Stored(c, arrived)
      <4>1. \A m \in (mine[s].cursor + 1)..arrived : ConversationOf[m] # c
        BY <2>2, <3>1
      <4>2. mine[s].cursor <= arrived /\ mine[s].cursor \in 0..MaxMail /\ arrived \in 0..MaxMail
        OBVIOUS
      <4>3. {m \in 1..arrived : ConversationOf[m] = c} = {m \in 1..mine[s].cursor : ConversationOf[m] = c}
        BY <4>1, <4>2
      <4> QED
        BY <4>3 DEF Stored
    <3>2. ASSUME NEW c \in Conversations PROVE
             /\ Stored(c, config.cursor)' /\ \A p \in Callers : Stored(c, mine[p].cursor)'
             /\ \A p \in Callers : pc'[p] = "fetch" /\ c \notin todo'[p] => Stored(c, ahead[p])'
      <4>1. \A p \in Callers \ {s} : pc'[p] = pc[p] /\ todo'[p] = todo[p] /\ ahead'[p] = ahead[p]
        BY <2>2 DEF Goto
      <4>2. ahead'[s] = arrived
        BY <2>2
      <4> QED
        BY <1>4, <3>1, <4>1, <4>2, ZenonT(30) DEF ReadDelta, row, Stored
    <3> QED
      BY <3>2
  <2> QED
    BY <1>4, <2>1, <2>2 DEF ReadDelta
<1>5. ASSUME NEW s \in Syncs, NEW c \in Conversations, FetchThread(s, c) PROVE CoverInv'
  <2>a. CASE ThreadFailed(s)
    <3>1. \A p \in Callers : pc'[p] = "fetch" => pc[p] = "fetch"
      BY <2>a DEF ThreadFailed
    <3> QED
      BY <2>a, <3>1 DEF ThreadFailed, row, Stored
  <2>b. SUFFICES ASSUME ThreadFetched(s, c) PROVE CoverInv'
    BY <1>5, <2>a, FetchCases
  <2>1. snapshots \subseteq snapshots' /\ missed \subseteq missed'
    BY <2>b, FetchStores
  <2>2. UNCHANGED <<arrived, config, pc, mine, ahead>>
    BY <2>b DEF ThreadFetched, FetchThread, row
  <2>3. ASSUME NEW n \in 0..MaxMail, n <= arrived PROVE Stored(c, n)'
    <3> HIDE DEF TypeOK
    <3> QED
      BY <2>b, <2>3, FetchCovers
  <2>4. ASSUME NEW b \in Conversations PROVE
           /\ Stored(b, config.cursor)' /\ \A p \in Callers : Stored(b, mine[p].cursor)'
           /\ \A p \in Callers : pc'[p] = "fetch" /\ b \notin todo'[p] => Stored(b, ahead[p])'
    <3>1. Stored(b, config.cursor)' /\ \A p \in Callers : Stored(b, mine[p].cursor)'
      BY <2>1, <2>2, StoredStays
    <3>2. ASSUME NEW p \in Callers, pc'[p] = "fetch", b \notin todo'[p] PROVE Stored(b, ahead[p])'
      <4>1. CASE p = s /\ b = c
        BY <2>2, <2>3, <4>1
      <4>2. CASE ~(p = s /\ b = c)
        <5>1. b \notin todo[p]
          BY <2>b, <3>2, <4>2 DEF ThreadFetched
        <5> QED
          BY <2>1, <2>2, <3>2, <5>1, StoredStays
      <4> QED
        BY <4>1, <4>2
    <3> QED
      BY <3>1, <3>2
  <2> QED
    BY <2>4
<1>6. ASSUME NEW s \in Syncs, WriteCursor(s) PROVE CoverInv'
  BY <1>6 DEF WriteCursor, Goto, LockRow
<1>7. ASSUME NEW s \in Syncs, EndSync(s) PROVE CoverInv'
  BY <1>7 DEF EndSync, Goto, Close, CommitConfig, Unread
<1>8. ASSUME NEW p \in Visitors, Visit(p) PROVE CoverInv'
  BY <1>8 DEF Visit, Goto, ReadRow, row
<1>9. ASSUME NEW p \in Visitors, WriteTokens(p) PROVE CoverInv'
  BY <1>9 DEF WriteTokens, Goto, LockRow
<1>10. ASSUME NEW p \in Visitors, EndVisit(p) PROVE CoverInv'
  BY <1>10 DEF EndVisit, Goto, Close, CommitConfig, Unread
<1>11. ASSUME NEW p \in Callers, Crash(p) PROVE CoverInv'
  BY <1>11 DEF Crash, Goto, Close, Fault, Unread
<1>12. CASE UNCHANGED vars
  BY <1>12 DEF vars
<1> QED
  BY <1>1, <1>2, <1>3, <1>4, <1>5, <1>6, <1>7, <1>8, <1>9, <1>10, <1>11, <1>12
     DEF Next, SyncStep, VisitStep
-----------------------------------------------------------------------------
LEMMA Invariance == Spec => [](TypeOK /\ CursorInv /\ CoverInv)
  BY InitInv, TypeStep, CursorStep, CoverStep, PTL DEF Spec

(* Every variable keeps its type; who commits the config holds its row.    *)
THEOREM TypeCorrect == Spec => []TypeOK
  BY Invariance, PTL

(* m365_mail_sync.py never commits a delta cursor past a message it has    *)
(* not stored, though the callers of the row overwrite each other's config *)
(* and a sync that failed between two threads commits the config as well.  *)
THEOREM CursorIsCovered == Spec => []CursorCoversMail
<1>1. CoverInv => CursorCoversMail
  BY DEF CoverInv, CursorCoversMail
<1> QED
  BY <1>1, Invariance, PTL
=============================================================================
