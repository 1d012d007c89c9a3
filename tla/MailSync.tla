------------------------------- MODULE MailSync -------------------------------
(***************************************************************************)
(* The sync of a Microsoft 365 mailbox and what runs beside it on the same *)
(* row of integrations (services/m365_mail_sync.py,                        *)
(* api/routes/integrations_m365_mail.py, services/ingestion_runs.py,       *)
(* services/integration_kill_switch.py).                                   *)
(*                                                                         *)
(* A sync reads the row once, asks the delta of the inbox since the cursor *)
(* in it, writes a snapshot of every conversation the delta names, each in *)
(* a transaction of its own, and at the end writes the whole config back   *)
(* with the new cursor. The config it writes is the one it read: tokens    *)
(* and cursor of a write in between are overwritten.                       *)
(***************************************************************************)
EXTENDS Naturals, FiniteSetsExt

CONSTANTS
    MaxMail,       \* bound: messages that arrive, numbered in their order
    Conversations,
    ConversationOf,
    Syncs,         \* callers of the sync route
    Kill, Connect, \* the kill switch, the OAuth callback
    Nobody,
    MaxVisits,     \* bound: calls of the kill switch and the callback
    MaxFaults      \* bound: errors of Graph or of the token endpoint, crashes

Mail == 1..MaxMail
Visitors == {Kill, Connect}
Callers == Syncs \cup Visitors

ASSUME SyncAssumption ==
    /\ MaxMail \in Nat /\ MaxVisits \in Nat /\ MaxFaults \in Nat
    /\ ConversationOf \in [Mail -> Conversations]
    /\ Kill # Connect /\ Syncs \cap Visitors = {} /\ Nobody \notin Callers

VARIABLES
    arrived,   \* messages in the inbox
    enabled,   \* committed state of the row: active, or disabled
    config,    \* committed config: tokens there or not, and the delta cursor
    rowLock,   \* who has updated the row without a commit yet
    snapshots, \* committed email.thread events: the messages of each
    missed,    \* messages a failed page kept out of a snapshot
    pc,        \* where a caller is
    mine,      \* the row as a caller read it, with its own changes
    ahead,     \* the cursor that came with the delta
    todo,      \* conversations the delta named that are still to be fetched
    visits, faults

row == <<enabled, config, rowLock>>
local == <<mine, ahead, todo>>
vars == <<arrived, enabled, config, rowLock, snapshots, missed, pc, mine, ahead,
          todo, visits, faults>>

Configs == [tokens : BOOLEAN, cursor : 0..MaxMail]
Read == [tokens : BOOLEAN, cursor : 0..MaxMail, on : BOOLEAN]

TypeOK ==
    /\ arrived \in 0..MaxMail /\ enabled \in BOOLEAN
    /\ config \in Configs /\ rowLock \in Callers \cup {Nobody}
    /\ snapshots \subseteq SUBSET Mail /\ missed \subseteq Mail
    /\ pc \in [Callers -> {"idle", "token", "delta", "fetch", "write", "commit",
                           "failed"}]
    /\ mine \in [Callers -> Read]
    /\ ahead \in [Callers -> 0..MaxMail]
    /\ todo \in [Callers -> SUBSET Conversations]
    /\ visits \in 0..MaxVisits /\ faults \in 0..MaxFaults
    /\ \A p \in Callers : pc[p] = "commit" => rowLock = p

Unread == [tokens |-> FALSE, cursor |-> 0, on |-> FALSE]

\* Connected, or disabled and waiting for the owner to sign in again.
Init ==
    /\ arrived = 0 /\ enabled \in BOOLEAN
    /\ config = [tokens |-> enabled, cursor |-> 0]
    /\ rowLock = Nobody
    /\ snapshots = {} /\ missed = {}
    /\ pc = [p \in Callers |-> "idle"]
    /\ mine = [p \in Callers |-> Unread]
    /\ ahead = [p \in Callers |-> 0] /\ todo = [p \in Callers |-> {}]
    /\ visits = MaxVisits /\ faults = MaxFaults

-----------------------------------------------------------------------------
(* The row *)

Goto(p, l) == pc' = [pc EXCEPT ![p] = l]

\* The UPDATE of the row waits for another caller's.
LockRow(p) == rowLock \in {Nobody, p} /\ rowLock' = p

ReadRow(p) == mine' = [mine EXCEPT ![p] =
    [tokens |-> config.tokens, cursor |-> config.cursor, on |-> enabled]]

\* The end of a request.
Close(p) ==
    /\ Goto(p, "idle")
    /\ rowLock' = IF rowLock = p THEN Nobody ELSE rowLock
    /\ mine' = [mine EXCEPT ![p] = Unread]
    /\ ahead' = [ahead EXCEPT ![p] = 0]
    /\ todo' = [todo EXCEPT ![p] = {}]

\* The commit writes the config of a caller that has updated the row.
CommitConfig(p) == config' =
    IF rowLock = p THEN [tokens |-> mine[p].tokens, cursor |-> mine[p].cursor]
    ELSE config

Fault == faults > 0 /\ faults' = faults - 1

-----------------------------------------------------------------------------
(* The sync *)

Receive ==
    /\ arrived < MaxMail /\ arrived' = arrived + 1
    /\ UNCHANGED <<row, snapshots, missed, pc, local, visits, faults>>

Thread(c) == {m \in 1..arrived : ConversationOf[m] = c}

\* The route does not look at the state of the row; without tokens there is
\* nothing to do.
StartSync(s) ==
    /\ pc[s] = "idle" /\ config.tokens
    /\ ReadRow(s)
    /\ Goto(s, "token")
    /\ UNCHANGED <<arrived, row, snapshots, missed, ahead, todo, visits, faults>>

\* The access token is still good; or it is refreshed, and the config with the
\* new tokens is flushed, not committed; or the refresh fails.
EnsureToken(s) ==
    /\ pc[s] = "token"
    /\ \/ Goto(s, "delta") /\ UNCHANGED <<rowLock, faults>>
       \/ LockRow(s) /\ Goto(s, "delta") /\ UNCHANGED faults
       \/ Fault /\ Goto(s, "failed") /\ UNCHANGED rowLock
    /\ UNCHANGED <<arrived, enabled, config, snapshots, missed, local, visits>>

\* bug: the cursor is put into the config as soon as the delta gives it.
ReadDeltaAndCursor(s) ==
    /\ pc[s] = "delta" /\ LockRow(s)
    /\ ahead' = [ahead EXCEPT ![s] = arrived]
    /\ todo' = [todo EXCEPT ![s] =
           {ConversationOf[m] : m \in (mine[s].cursor + 1)..arrived}]
    /\ mine' = [mine EXCEPT ![s].cursor = arrived]
    /\ Goto(s, "fetch")
    /\ UNCHANGED <<arrived, enabled, config, snapshots, missed, visits, faults>>

ReadDelta(s) ==
    /\ pc[s] = "delta"
    /\ \/ /\ ahead' = [ahead EXCEPT ![s] = arrived]
          /\ todo' = [todo EXCEPT ![s] =
                 {ConversationOf[m] : m \in (mine[s].cursor + 1)..arrived}]
          /\ Goto(s, "fetch")
          /\ UNCHANGED faults
       \/ Fault /\ Goto(s, "failed") /\ UNCHANGED <<ahead, todo>>
    /\ UNCHANGED <<arrived, row, snapshots, missed, mine, visits>>

\* bug: the dedup key names the conversation, not its messages.
FetchThreadOnce(s, c) ==
    /\ pc[s] = "fetch" /\ c \in todo[s]
    /\ todo' = [todo EXCEPT ![s] = @ \ {c}]
    /\ snapshots' = IF \E S \in snapshots : \E m \in S : ConversationOf[m] = c
                    THEN snapshots ELSE snapshots \cup {Thread(c)}
    /\ UNCHANGED <<arrived, row, missed, pc, mine, ahead, visits, faults>>

\* The thread as it is now; or what its pages gave before one failed, without
\* a snapshot if that is nothing. A snapshot that is there is kept. Or an
\* exception (a timeout of Graph, a body that cannot be stored, the INSERT)
\* ends the sync before this thread is stored.
FetchThread(s, c) ==
    /\ pc[s] = "fetch" /\ c \in todo[s]
    /\ \/ /\ snapshots' = snapshots \cup {Thread(c)}
          /\ todo' = [todo EXCEPT ![s] = @ \ {c}]
          /\ UNCHANGED <<missed, pc, faults>>
       \/ /\ Fault
          /\ \E n \in 0..arrived :
                LET got == {m \in Thread(c) : m <= n} IN
                   /\ got # Thread(c)
                   /\ snapshots' = IF got = {} THEN snapshots ELSE snapshots \cup {got}
                   /\ missed' = missed \cup (Thread(c) \ got)
          /\ todo' = [todo EXCEPT ![s] = @ \ {c}]
          /\ UNCHANGED pc
       \/ Fault /\ Goto(s, "failed") /\ UNCHANGED <<todo, snapshots, missed>>
    /\ UNCHANGED <<arrived, row, mine, ahead, visits>>

\* bug: the row is not locked.
WriteCursorUnlocked(s) ==
    /\ pc[s] = "fetch" /\ todo[s] = {}
    /\ mine' = [mine EXCEPT ![s].cursor = ahead[s]]
    /\ Goto(s, "commit")
    /\ UNCHANGED <<arrived, row, snapshots, missed, ahead, todo, visits, faults>>

\* The whole config, as it was read, with the new cursor.
WriteCursor(s) ==
    /\ pc[s] = "fetch" /\ todo[s] = {} /\ LockRow(s)
    /\ mine' = [mine EXCEPT ![s].cursor = ahead[s]]
    /\ Goto(s, "commit")
    /\ UNCHANGED <<arrived, enabled, config, snapshots, missed, ahead, todo, visits, faults>>

\* The route commits the run, and with it the config; after an error too, with
\* the refreshed tokens and the old cursor.
EndSync(s) ==
    /\ pc[s] \in {"commit", "failed"}
    /\ CommitConfig(s) /\ Close(s)
    /\ UNCHANGED <<arrived, enabled, snapshots, missed, visits, faults>>

Crash(p) ==
    /\ pc[p] # "idle" /\ Fault /\ Close(p)
    /\ UNCHANGED <<arrived, enabled, config, snapshots, missed, visits>>

-----------------------------------------------------------------------------
(* The kill switch and the callback *)

\* Both read the row and go to the provider; the kill switch only if the row is
\* not disabled yet. The run of a sync under way is not committed, so the purge
\* of running ones finds none.
Visit(p) ==
    /\ pc[p] = "idle" /\ visits > 0 /\ visits' = visits - 1
    /\ p = Kill => enabled
    /\ ReadRow(p)
    /\ Goto(p, "write")
    /\ UNCHANGED <<arrived, row, snapshots, missed, ahead, todo, faults>>

\* _delete_secrets, or the tokens of the exchanged code.
WriteTokens(p) ==
    /\ pc[p] = "write" /\ LockRow(p)
    /\ mine' = [mine EXCEPT ![p].tokens = (p = Connect)]
    /\ Goto(p, "commit")
    /\ UNCHANGED <<arrived, enabled, config, snapshots, missed, ahead, todo, visits, faults>>

\* The kill switch sets the state to disabled, the callback to active; an
\* assignment that does not change what was read writes no column.
EndVisit(p) ==
    /\ pc[p] = "commit"
    /\ CommitConfig(p) /\ Close(p)
    /\ enabled' = (p = Connect /\ (enabled \/ ~mine[p].on))
    /\ UNCHANGED <<arrived, snapshots, missed, visits, faults>>

SyncStep(s) ==
    \/ StartSync(s) \/ EnsureToken(s) \/ ReadDelta(s)
    \/ \E c \in Conversations : FetchThread(s, c)
    \/ WriteCursor(s) \/ EndSync(s)

VisitStep(p) == WriteTokens(p) \/ EndVisit(p)

Next ==
    \/ Receive
    \/ \E s \in Syncs : SyncStep(s)
    \/ \E p \in Visitors : Visit(p) \/ VisitStep(p)
    \/ \E p \in Callers : Crash(p)

Spec == Init /\ [][Next]_vars

\* The sync is called again and again, and requests end; no error has to occur.
Fairness == /\ \A s \in Syncs : WF_vars(SyncStep(s) /\ UNCHANGED faults)
            /\ \A p \in Visitors : WF_vars(VisitStep(p))
FairSpec == Spec /\ Fairness

-----------------------------------------------------------------------------
(* Properties *)

Stored(c, n) ==
    LET thread == {m \in 1..n : ConversationOf[m] = c} IN
       thread \cap missed = {} => \E S \in snapshots \cup {{}} : thread \subseteq S

\* The committed cursor never passes a message that was not stored: of every
\* conversation, one snapshot holds all messages up to the cursor, however
\* syncs overlap, die, or fail between two threads and commit the row they
\* hold, unless Graph failed on a page of the thread.
CursorCoversMail == \A c \in Conversations : Stored(c, config.cursor)

\* All mail is stored in the end as long as the integration keeps its tokens.
MailArrives ==
    <>[](config.tokens => \A c \in Conversations : Stored(c, arrived))
=============================================================================
