# DeployAI control plane: specifications, model checks and proofs

DeployAI keeps the "canonical memory" of an engagement: events arrive from mail,
calendar, Slack, uploads and meetings, become ledger events and proposals, a human
reviews the proposals into a matrix of nodes and edges, and an agent ("Agent Kenny")
answers questions over all of it with tools and citations. The Python control plane
(`src/services/control-plane`) owns this state in Postgres; the rest of the repository
is a web application over it, libraries and scripts.

This directory specifies the parts of it whose correctness depends on the order in
which several actors act. Every definition is translated from the source; the `map` of
`PROJECT.json` gives the lines.

- [1 Inventory](#1-inventory)
- [2 Modules and how they correspond to the code](#2-modules-and-how-they-correspond-to-the-code)
- [3 Runs, bounds and fairness](#3-runs-bounds-and-fairness)
- [4 Proofs](#4-proofs)
- [5 Where the code and its documentation disagree](#5-where-the-code-and-its-documentation-disagree)
- [6 Not modelled](#6-not-modelled)
- [7 Plan](#7-plan)

## 1 Inventory

Paths are relative to `src/services/control-plane/src/control_plane/`. How far each part
is modelled, and why, is in `PROJECT.json` under `components`; the places where each can
go wrong are under `hazards`.

| part | state | operations | interacts with | hard behaviours | what makes it correct |
|---|---|---|---|---|---|
| **Embedding queue** `workers/embedder.py`, `cli/embedder.py`, alembic 0050 | `embedding_jobs` (status, attempts), the `embedding` column of four source tables | trigger enqueues; a tick claims, fetches, embeds, writes back, marks done or failed | every request that writes a source row (trigger), Voyage, the kill switch | replicas, row locks held across an HTTP call, crash in a tick, a bad row, lock cycles | a done job has the current text's vector; no job is stranded; retries are bounded; the queue drains |
| **Integration kill switch** `services/integration_kill_switch.py` | integration state, pending jobs | disable: purge jobs, revoke the OAuth grant, audit | embedding queue, provider | purge racing workers; HTTP call inside a transaction | nothing pending survives; one audit row per disable |
| **Circuit breaker** `infra/circuit_breaker.py`; callers `embeddings/voyage_client.py`, `mcp_client.py` | state, consecutive failures, opening time, probes in flight | acquire, record_success, record_failure | all calls of one process to one dependency | late answers, cancelled calls, half-open slots | sheds while down, recovers when up, bounded probes |
| **Matrix proposals** `api/routes/engagements_internal.py`, `domain/canonical_memory/matrix.py` | proposals, nodes, edges, ledger events | accept, reject, audit-reject, bulk accept, extract (with force), auto-accept | ledger, extractor LLM | unlocked check then write, partial failure of a batch, rollback expiring objects, row locks across an LLM call | status, node and ledger agree; every request ends |
| **Event ledger** `ledger/emitter.py`, `domain/ledger.py` | `ledger_events`, causal edges | emit in the caller's transaction, inline lint, dispatch synthesis | everything that decides something | side effects inside the business transaction | what the ledger says is what happened |
| **Agent turn graph** `agents/agent_kenny/graph.py`, `nodes/*.py` | AgentState: pending calls, counters, cap flags, text, citation report, revisions | retrieve, call the LLM, dispatch tools, cap, revise, review, persist | LLM, tools, reviewer | loops whose end depends on counters, cap in the middle of a batch, denied calls | the turn ends; well-formed history; cap; checked reply |
| **Turn runtime and approvals** `agents/agent_kenny/runtime.py`, `service.py`, `approvals.py`, `api/routes/oracle_internal.py` | checkpoints per thread (autocommit), ledger rows, turn and budget row (request session) | chat, interrupt, resume, deny, timeout | turn graph, ledger, budget | two stores that commit at different times, concurrent resumes, crash between | what a client saw is committed; an executed write has its granted row; the budget holds |
| **Outbound MCP guards** `mcp_client.py`, `mcp_kill_switch.py`, `mcp_rate_limit.py`, `mcp_loader.py` | kill-switch cache, sliding window, counters per turn | open a turn, discover tools, `call_tool`'s chain of guards, audit | circuit breaker, ledger | a cached answer filled by concurrent reads, timeouts in the middle of a call | the switch holds after the cache's age; every attempt has its row |
| **Synthesizer, drain** `workers/synthesizer.py`, `api/routes/synthesis_internal.py`, `intelligence/budget.py` | synthesis jobs, insights, briefs in node attributes, budget row of the day | enqueue, drain, charge, upsert | ledger, LLM | unlocked pick by concurrent drains, budget row locked across an LLM call, check-then-insert | no job is lost or half settled; the queue drains |
| **Slack intake and flush** `services/slack_event_ingest.py`, `services/slack_snapshot_flush.py`, `api/routes/slack_intake_internal.py` | channel mappings, staged messages | stage, map, revoke, flush a window into snapshots | canonical write, extraction, webhooks | redelivery, concurrent flushes, a commit in the middle of a flush | what is marked flushed is in canonical memory; one snapshot per set of messages |
| **Mail, calendar, transcript sync** `services/m365_mail_sync.py`, `services/*_sync.py` | delta cursor and tokens in one JSON config, ingestion runs | refresh token, delta, store threads, write config back | providers, canonical write, kill switch | partial failures, overlapping syncs, whole-config write-back | the cursor never passes a message that was not stored |
| **Canonical idempotent write** `infra/canonical_idempotent_write.py` | unique index on the dedup key | insert or ignore | all intakes | races decided by the index | one event per key |
| **Review inbox, escalations** `services/review_inbox.py` | items | claim, decide | proposals | unlocked check | decided once |
| **Sessions, sign-in** `auth/*.py` | refresh tokens in Redis | issue, rotate, revoke all | Redis | concurrent rotation | a revoked family stays revoked |
| **Break-glass** `services/break_glass.py` | requests | approve, revoke, expire | audit | unlocked check | no use after revoke |
| **Rate limit** `infra/rate_limit.py` | Redis counter | incr, pexpire | requests | crash between the two | a window ends |
| **Webhooks out** `webhooks/dispatcher.py` | deliveries, in-memory tasks | dispatch, retry | subscribers | restart loses tasks | delivered or marked failed |
| **Snapshots, phases, meetings, gaps** | rows | check then insert, next-only transition | - | little | data |
| **Detectors, lint** `intelligence/*`, `workers/wiki_lint.py` | insights, findings | one pass per tick | ledger | lint inside the emitting transaction | dedup |
| **Libraries, MCP server, web, demo** | none of their own | validation, queries, presentation | - | - | - |

## 2 Modules and how they correspond to the code

| module | what it is |
|---|---|
| `EmbeddingIndex` | abstract specification: what committed data promises about texts and vectors |
| `EmbeddingQueue` | the queue, its workers, the writing requests and the purge |
| `CircuitBreaker` | the breaker with the callers of one dependency |
| `ProposalReview` | the review loop and the ledger rows of its decisions |
| `AgentGraph` | one turn of Agent Kenny |
| `AgentApprovals` | the chats and approval decisions of one conversation, around that turn |
| `OutboundGuards` | the guards, limits and audit of a tenant's external MCP calls |
| `SynthesisQueue` | synthesis jobs and the drains that run them |
| `SlackIntake` | staging, channel mappings, the flush into snapshots |
| `MailSync` | the mailbox sync, the kill switch and a sign-in on one integration row |
| `EmbeddingQueueProofs`, `ProposalReviewProofs`, `AgentGraphProofs`, `AgentApprovalsProofs`, `OutboundGuardsProofs`, `SynthesisQueueProofs`, `SlackIntakeProofs`, `MailSyncProofs` | inductive invariants and theorems of the module each is named after; `OutboundGuardsProofs` holds those of `CircuitBreaker` too, as both guard the same call |
| `MC*` | small instances for TLC; the `.cfg` files give the constants |

In the modules a definition whose comment begins with `bug:` is a plausible mistake in
the definition that follows it. No specification uses one; replacing the real definition
by it must break a property (`mutants` in `PROJECT.json`).

### EmbeddingQueue

Postgres is an assumption of the model, reduced to what the transactions rely on. A row
has a committed version (`src`, `job`) and a tip (`srcTip`, `jobTip`), the version its
lock holder has written. A reader sees committed versions; locks end with the
transaction; a statement on a locked row waits (its action is disabled); a cycle of
waits is broken by aborting a member (`DeadlockVictim`); nobody uses savepoints, so a
statement that raises takes the transaction with it.

| code | model |
|---|---|
| trigger `deployai_enqueue_embedding_job` (alembic 0050) | `WriteSource` takes the row lock, `EnqueueTrigger` then waits for the job's: two steps of one statement; `Enqueue` resets status and attempts |
| `_claim_jobs`: `FOR UPDATE SKIP LOCKED`, running, attempts + 1 | `Claim`, `NextBatch`, `Claimable` |
| `_process_group` up to the call | `FetchTexts`: committed texts of one table, missing or blank rows fail their job |
| the Voyage call | nothing between `FetchTexts` and `VoyageAnswers` / `VoyageFails`; everybody else moves |
| `_write_vector`, `_mark_done` | `WriteBack`: the worker's own UPDATE fires the trigger on the job it holds, then done is written, attempts stay reset |
| wrong dimension, wrong count | `RejectVector`, `VoyageFails` |
| `_mark_failure` | `MarkFailure`, by the attempts counted at the claim |
| `cli/embedder.py` commit, rollback and back-off | `CommitTick`, `StatementRaises`, `Resume` |
| process death | `CrashWorker` |
| requests that insert, update, delete | `WriteSource`, `DeleteSource`, `CommitRequest`, `AbortRequest` |
| the kill switch's `DELETE ... WHERE status IN (...)` | `StartPurge`, `PurgeJob` (waits, re-tests the new version), `CommitPurge` |

Abstractions: a text is a member of `Texts`, or `Blank`, and a vector is named by the
text it was computed from; `created_at` order is the order of the row numbers; a request
writes one row per transaction; tables matter only through the grouping (`TableOf`).

`EmbeddingIndex` sees committed data only: a row is written (its job becomes due), a
batch settles with vectors *of the current text*, rows go away, jobs are dropped.
`ImplementsIndex` states that `EmbeddingQueue` implements it, with `queued` and `running`
both read as due. It is a statement about the code, not a translation, so it has no
entry of its own in the map.

### CircuitBreaker

Each method of the breaker runs under one `asyncio.Lock` without awaiting inside, so each
is one step. Between `AcquireSlot` and the record lies the call. The definitions that
`OutboundGuards` has a namesake of begin with `Breaker`, so that one module can extend both. `wait` is the rest of the
cooldown, `left` the time a call may still take; `sinceChange` is a history variable: the
code does not know which admission a record belongs to, the property does. The callers are those of an MCP
connector, which records in a `finally` block, where a cancellation looks like a success.
The Voyage client records after the await, so a cancelled call records nothing: that is
the mutant `CancelUnrecorded`, and with it `Recovers` fails (section 5).

### ProposalReview

Every handler reads without a lock, checks in memory, then writes. `Load` is the read and
the checks, `Flush` the UPDATE that takes the row lock, `Emit` the ledger row, stamped
while the lock is held, `Commit` the end. `Decided` writes what the handler changed,
whatever is in the row by then. `events` are the ledger rows of a proposal with the time
`Now` gives them, committed or not yet. The bulk accept runs these steps for one candidate after
the other in one session: `inTx` and `expired` follow what SQLAlchemy does to the
objects it has read (`expire_on_commit=False` keeps them at a commit, a rollback of an
open transaction expires them, and reading an expired object outside a query raises in an
async session). `Extract` reads the pending proposals, `DeleteProposal` locks and deletes
them one by one, `Draft` is the LLM and the rows it leads to, some accepted at once.

Abstractions: one event, one bulk accept in a behaviour, edges whose endpoints are
missing are a constant (`Dangling`), deleting nodes is left out, and so are the lint and
the synthesis jobs that emitting a ledger row may start.

### AgentGraph

`node` is the LangGraph node about to run and `steps` the supersteps so far, which
LangGraph compares with the recursion limit `runtime.py` computes. The LLM is any: at
every call it may answer with or without text or ask for up to `MaxBatch` tools. The
reviewer is any: at an interrupt he approves or denies. `dangling` counts the tool calls
of the history without an answer; `executed` and `skipped` are what the properties need
to see of the past; `checked` says that the citation report is about the current text.
The routers are operators with the code's names (`HasToolCallsRouter`,
`UnverifiedRouter`).

Abstractions: the provider honours the request for an answer without tools where
the code sends one with no tools on offer; calls are read or write, as `approvals.py`
flags them; an exception in a node and the hard timeout of a turn end it outside this
model; a resumed run has a fresh superstep count, as in LangGraph.

### AgentApprovals

The turn of `AgentGraph` reduced to what its environment sees of it (a superstep and its
checkpoint, an interrupt, the persist node), between the two stores. `thread` is the
latest checkpoint, visible at once; `used`, `ledger` and `turns` are committed, `draft`
is what a request's session would commit.

| code | model |
|---|---|
| `check_and_charge`: `SELECT ... FOR UPDATE`, the UPDATE | `CheckBudget` (429 if it does not fit), `ChargeTurn`; the row stays locked to the commit, which serialises a tenant's chats |
| `run_langgraph_turn`'s new input | `StartTurn`: overwrites a paused run |
| nodes and their checkpoints | `Superstep`, `Persist`, `LastCheckpoint` (a chat's is written after its done frame) |
| `interrupt(...)` in `dispatch_tools`, `_handle_interrupts` | `Interrupt`, `HandleInterrupt` |
| the commit before each frame, the frame | `CommitTurn`, `Answer` |
| `resume_langgraph_turn`: `aget_state`, `ainvoke(Command(resume))`, the node again | `Decide`, `Invoke`, `Dispatch` |
| hard timeout, exception, disconnect, process death | `Abort` |

`Invoke` loads the latest checkpoint a second time: on a thread that is running by then
it carries that run on, on one that ended it has nothing to run. Two resumes of one card
may both execute it; the test that says "exactly once" posts them one after the other.
Charges count turns, not tokens; deletion of a conversation is left out.

### OutboundGuards

What a coroutine does between two awaits is one step. `Check`, `Select` and `Fill` are
`is_outbound_disabled`, with the time it read before its SELECT; the step that gets the
answer also passes the allow-list, `acquire` and its two caps, because nothing awaits in
between (`Answered`). `Resolve` is the egress guard and the circuit breaker with its
refusal as a choice, `Post` the request, `EmitAudit` the row in a transaction of its own,
`Cancel` and `CancelAudit` the hard timeout at an await. The rate limit's `release` does
nothing in the code and is no action. `window` is the limiter's list of timestamps and
`Evicted` what its loop leaves of it. Discovery asks the switch once and lists tools; it
fails open when the read raises, while a call's failed read ends the turn. What the
allow-list, the egress guard, the token store and the breaker decide is a choice; the
breaker has its own module.

### SynthesisQueue

`ReadJobs` is the unlocked SELECT of a drain. `StartJob` is the flush of the running
status: an UPDATE by primary key, so a drain whose list is old runs a settled job again.
`ReadTarget`, `Charge` (the budget row of *today*, locked to the commit), `Phrase` (the
LLM), `SelectInsight`, `WriteText` (insert, update or brief), `CommitJob` follow
`run_synthesis_job`; `Raise` is an exception the drain turns into a failed job,
`StatementRaises` one that has aborted the transaction, after which the commit of the
failed status raises too (`EndBroken`). `EditNode` is the PATCH of a node's attributes,
`Midnight` the change of budget row. A charge is one synthesis; prompts and citations
decide only whether there is a text. Briefs and attributes are kept because a brief shares
the budget and the queue with the insights, and so that the overwrite of section 5 is in the
model; no property is about their content.

### SlackIntake

A message is a member of `Messages`, a unit a thread or a day of a channel. Staging is
two statements (`CheckMapping`, `StageMessage`), as are the flush's reads
(`ReadMappings`, `ReadStaged`), so mappings may change in between. SQLAlchemy writes the
rows a flush has marked only before its next statement: `dirty` holds them and `Sync`
writes them by primary key, waiting for other flushes; an UPDATE that finds no row raises,
unless it went out in a batch. `InsertSnapshot` is the canonical write inside the flush's
transaction. `Extract` is the extraction chained to a new snapshot, whose errors are
swallowed: an SQL error has still aborted the transaction, and a webhook subscription
makes `dispatch_webhook` commit the session halfway, after which the flush ends with an
error and the rows it had not taken wait for the next one. Rows carry a birth number, so
a row that was deleted and staged again is another row.

### MailSync

A conversation's thread is rebuilt whole and stored under a key made of its messages: a
snapshot is a set of messages. `EnsureToken`, `ReadDelta`, `FetchThread`, `WriteCursor`,
`EndSync` follow `run_mail_delta_sync` and its route (`m365_mail_sync`): threads commit in
transactions of their own, the config is written back whole as it was read. A page that
fails leaves a shorter thread or none, and the cursor moves on: `missed` keeps what that
cost. An exception (at the token, the delta, or between two threads: a timeout, a body
that cannot be stored, the INSERT) leads to `failed`, and the route's `except` commits
what the session holds by then, the refreshed tokens with the old cursor: the mutant
`ReadDeltaAndCursor`, which puts the cursor into the config before the threads are
stored, loses mail exactly there. `Visit`, `WriteTokens`, `EndVisit` are the kill switch and
the OAuth callback on the same row; both read first and write after a call to the
provider. Assumed: a refresh token may be used again. Deleted mail is left out.

## 3 Runs, bounds and fairness

| run | instance | states | shows |
|---|---|---|---|
| `embedding_queue` | 2 replicas, 1 writing request, the purge, 2 rows of 2 tables, batch 2, 2 attempts, 1 fault | 521,867 | `DoneIsFresh`, `UnfinishedIsClaimable`, `FailsOnlyWhenSpent`, `ImplementsIndex` |
| `embedding_liveness` | the same with 1 replica, one table, batch 1, under fairness | 203,084 | `QueueDrains`, `RequestsFinish` |
| `circuit_breaker` | 4 callers, threshold 2, 2 probes, cooldown 2, calls of at most 3 | 21,976 | `ProbesAreCounted`, `Recovers`, `Sheds` |
| `proposal_review` | a node and an edge proposal, a reviewer, a bulk accept, an extraction, 1 fault | 251,790 | `LedgerTellsStatus`, `NodesAreExplained`, `RequestsFinish` |
| `agent_graph` | budget 3, batches of up to 3, 2 revisions | 6,926 | the five invariants of a turn and `TurnEnds` |
| `agent_approvals` | 3 chats, 2 decisions, budget of 2 turns, 2 batches, aborts anywhere | 174,073 | `BudgetHeld`, `FramesAreCommitted`, `EffectsAreAccountedFor` |
| `synthesis_queue` | 3 jobs (two on one risk, one on a stakeholder), 2 drains, limit 2, budget 2, a midnight, 1 edit, 1 fault | 468,984 | `InsertCollidesOnlyAcrossMidnight`, `JobsAreSettledWhole`, `QueueDrains` |
| `slack_intake` | 3 messages in 2 units of 2 channels, 2 flushes, 3 deliveries, 1 change of mapping, 1 fault | 195,941 | `FlushedIsCanonical`, `SnapshotsAreUnique`, `StagingDrains` |
| `mail_sync` | 3 messages in 2 conversations, 2 syncs, 1 kill switch or sign-in, 1 fault | 1,076,515 | `CursorCoversMail`, `MailArrives` |
| `outbound_guards` | 2 turns of 3 calls, cache age 2, window 2, caps 3 and 2, 3 ticks, 2 flips, 1 fault | 4,183,803 | `SwitchTakesHold`, `AttemptsAreAudited`, the caps in `TypeOK` |

`proposal_twice` and `approval_stale` are the two runs that TLC must find violated
(section 5). Every property of a passing run has a mutant: a plausible bug in a named
definition under which the same run finds the property violated.

Why these bounds are enough for what they ask. *Embedding*: two rows in two tables give a
tick with two groups, hence locks held across a second Voyage call, and a cycle between a
row lock and a job lock; two replicas give the skipped lock and the job re-claimed by
another; two attempts separate "retry" from "give up"; the requests are re-entrant, so
one writer edits as often as it likes. The liveness run drops the second replica and row
batches because a tick's own steps do not depend on them; it keeps two rows, so the
deadlock is reached; without `DeadlockVictim` this run finds `RequestsFinish` violated. *Breaker*: a call may outlast the cooldown (3 > 2), which is what
lets an answer from before the trip meet the half-open state; two probes tell the counter
from a flag. *Review*: reviewers are re-entrant, and the three kinds of request cover
every pair of handlers on one row except two of one kind, which `proposal_twice` covers;
the edge has the smaller id, so an extraction (in the order of the ids) and a bulk accept
(nodes first) take the two row locks in opposite orders, and would wait for each other if
the bulk accept did not commit in between (mutant `CommitKeepingLock`).
*Turn*: a batch as large as the budget overruns it from every fill level. *Approvals*:
a third chat makes the budget refuse while two others hold or have spent it; two batches
let one card go stale under another, two decisions meet on one card. *Synthesis*: two
jobs on one risk make the insert and the update of one insight meet, with two drains and
the day between them; two syntheses a day leave the third job refused. *Slack*: one unit
of two messages separates a set of messages from its unit, two units make a flush that
fails halfway leave work behind. *Mail*: two conversations let a sync store one and die,
or fail and commit, before the other; three messages let a thread grow during a fetch and after it; a second
visit did not fit the time TLC has. *Guards*: a SELECT may take longer than the cache's
age (3 ticks > 2), two turns fill the cache in either order, and the cap of a turn (2),
the cap of the window (3) and the calls tried (3 in each) reach every refusal.
The bounds
named in the modules are `MaxFaults` (crashes, raised statements, failed calls), `MaxBatch`, `MaxBatches`, `MaxDays`,
`MaxEdits`, `MaxDeliveries`, `MaxChanges`, `MaxMail`, `MaxVisits`, `MaxTime`, `MaxCalls`,
`MaxFlips` and one bulk accept per behaviour; `MaxAttempts`, `BatchSize`, `MaxToolCalls`, `MaxRevisions`,
`FailureThreshold`, `HalfOpenMaxProbes`, `Limit`, `Cap`, `PerMinute`, `PerTurn` and `TTL`
are the code's own settings.

Symmetry (replicas, writers, chats, decisions, turns) is used in runs without a liveness
property only. Deadlock is checked except where the system may stop: the queues and
intakes (nothing left to do and no more input within the bounds), a turn, which ends, and
the guards, whose time is bounded. `AgentApprovals` says when it may stop (`AllEnded`).

Fairness, and what in the code justifies it:

- worker: the loop of `cli/embedder.py` polls for ever and every Voyage call has a
  timeout and bounded retries (weak fairness of a tick). Claiming is one step of it, so
  a waiting request is owed strong fairness: Postgres gives a freed lock to the first in
  line. Nothing obliges a request to be made or a fault to happen, nor a vector to be
  rejected: the check comes before the UPDATE, so it is no way out of a wait, and only the
  deadlock detector ends a cycle.
- breaker: time passes, a call ends within its timeout, and somebody keeps calling;
  recovery needs no more, shedding needs that turns stop being cancelled.
- review: a request that has started runs on; nobody is obliged to start one, and no
  statement to raise. There is no deadlock detector in this model: no cycle arises.
- drain, flush, mail sync: their endpoints are called by a scheduler again and again, and
  LLM and HTTP calls have timeouts (weak fairness of a caller's steps). A flush that waits
  for a row or a dedup key is owed strong fairness, as above: the other flush releases and
  may take the lock again. No message, edit, midnight or fault has to happen; in `MailSync`,
  where a fault is a disjunct of a step, fairness is of the step without it.
- turn: the graph runs on while it is not paused. Nothing makes the human decide, hence
  `TurnEnds` says "ends, or stays paused for ever".

## 4 Proofs

Checked by TLAPS for every value of the constants, from the named assumptions of the
modules alone (finite sets of rows and callers, positive bounds, distinct names). TLC
checked every invariant below on the instance of section 3 before it was proved. Nothing in the proofs
needs a worker to survive or a call to return; Postgres is assumed as modelled.

| module | theorem | states |
|---|---|---|
| `EmbeddingQueueProofs` | `TypeCorrect`, `Freshness`, `NoStrandedJob` | `TypeOK`, `DoneIsFresh`, `UnfinishedIsClaimable` |
| | `GivesUpWhenSpent`, `Refinement` | `FailsOnlyWhenSpent` (of steps), `ImplementsIndex` |
| `AgentGraphProofs` | `TypeCorrect`, `WellFormedHistory`, `LimitIsABackstop` | `TypeOK`, `HistoryIsWellFormed`, `NeverCutOff` |
| | `CapHolds`, `CapIsAnswered`, `CheckedReply` | `CapIsRespected`, `CapGetsAnAnswer`, `ReplyIsChecked` |
| `ProposalReviewProofs` | `TypeCorrect`, `LedgerIsTheRecord`, `NodesFollowTheLedger` | `TypeOK`, `LedgerTellsStatus`, `NodesAreExplained` |
| `AgentApprovalsProofs` | `TypeCorrect`, `BudgetIsHeld` | `TypeOK`, `BudgetHeld` |
| | `FramesFollowCommits`, `EffectsHaveTheirRows` | `FramesAreCommitted`, `EffectsAreAccountedFor` |
| `OutboundGuardsProofs` | `TypeCorrect`, `SwitchHolds`, `NoUnauditedAttempt` | `TypeOK`, `SwitchTakesHold`, `AttemptsAreAudited` |
| | `BreakerTypeCorrect`, `HalfOpenCountsItsProbes` | `BreakerTypeOK`, `ProbesAreCounted` |
| `SynthesisQueueProofs` | `TypeCorrect`, `NoHalfSettledJob`, `CollisionsOnlyAcrossMidnight` | `TypeOK`, `JobsAreSettledWhole`, `InsertCollidesOnlyAcrossMidnight` |
| `SlackIntakeProofs` | `TypeCorrect`, `MarkedIsCanonical`, `OneSnapshotEach` | `TypeOK`, `FlushedIsCanonical`, `SnapshotsAreUnique` |
| `MailSyncProofs` | `TypeCorrect`, `CursorIsCovered` | `TypeOK`, `CursorCoversMail` |

Hardly any of these properties is inductive as it stands. What each proof adds, and why:

**EmbeddingQueueProofs**, freshness. The argument is about locks: a worker holds the lock
of every job from the claim to the end of its tick (`HeldInv`), so the trigger of a
concurrent edit waits, and the *committed* text of a row whose job is held by a worker
cannot become newer than the one it fetched (`WorkerInv`); a row whose text is being
changed and whose job the request holds is queued again at its commit (`RequestInv`); a
tip without holder is the committed version (`TipsInv`); and attempts stay within the
limit because a held job was claimed with one left (`AttemptsInv`). The conjunction of
these with the two properties is `IInv`.

**EmbeddingQueueProofs**, refinement. Only three kinds of step change what is committed
(`OnlyCommits`): the end of a worker's tick, the commit of a request, the commit of the
purge. To show that each is a step of `EmbeddingIndex` one has to know what a commit
*changes*, not only what it leaves, hence a second layer of invariants: what a worker
counts is one attempt more than what is committed (`InHandInv`); the job it holds is
committed as queued, and its tip is done over the current text, given up at the last
attempt, or queued again (`ClaimedInv`); a request writes one row (`OwnerInv`); the kill
switch holds pending jobs only (`PurgeInv`). `FailsOnlyWhenSpent` follows from the same
layer: nobody else changes a job that is claimed.

**AgentGraphProofs.** The interesting one is the recursion limit. Denied calls may raise
the counter of calls far beyond the budget, so steps cannot be bounded by calls in
general; but a batch is dispatched only while a call of the budget is left, and its first
call is run or denied, hence counted: the loop has always paid for its two steps with a
call (`StepsInv`). After the budget there is one more call, and each revision costs three
steps: a turn ends after at most 2 budget + 3 revisions + 7 steps, four below the limit
`runtime.py` computes.

**ProposalReviewProofs.** A request stamps its ledger row after the UPDATE that took the
lock of the proposal, and keeps the lock to its commit (`PlaceInv`). So a row that is not
committed yet is the only one of its proposal and the latest, and the request it belongs
to is about to commit it (`LedgerInv`): the commit that makes it count writes the status
it tells, whatever was decided in between. That a node is made once needs more: what is
about to be accepted was read as pending, hence had nothing, and only the request itself
can have given it something since (`FreshInv`); a rolled-back accept has not.

**OutboundGuardsProofs**, the breaker. Late answers of calls from before the trip do change the probe
counter, but never in the half-open state, which any record leaves; there only admissions
count, and each admits a caller that was not in flight.

**AgentApprovalsProofs.** Only the holder of the budget row has a charge in its session,
and it took the row while the charge fitted (`BudgetInv`). What a request is about to show
is in its session before the commit and in the database after it (`FramesInv`). A resume
decides once, and one that has made an external call carries the granted row of that very
batch to its commit (`DecisionsInv`, `EffectsInv`).

**OutboundGuardsProofs**, the switch. An answer is cached with the time at which it was *asked for*.
So an "off" the switch has overtaken was asked for before the switch was engaged, whoever
cached it and however late (`StaleInv`), and the cache gives it out for less than a TTL.
An attempt without its row is in one of the five places that lead to its audit
(`UntoldInv`). The two caps are part of the types: eviction only shortens the window, and
a call is counted below both.

**SynthesisQueueProofs.** Nothing locks a job between the drain's read and its run, or an
insight between SELECT and INSERT. A drain past its charge holds the budget row of the day
it charged until its transaction ends (`BudgetInv`); so two drains with a text in hand
have charged different days, and a collision can only come from another day. A transaction
that will settle a job as done has written its text by then (`WrittenInv`).

**SlackIntakeProofs.** A flush works on what it read without a lock. No two transactions
have written the same row, so no row one has marked is gone when it commits (`LockInv`);
no two have inserted the same snapshot, and none inserts one that is there (`UniqueInv`);
and a row is marked in the session, in the transaction and by the commit only after the
snapshot with its message (`CoveredInv`), which is why a commit in the middle of a flush
does no harm.

**MailSyncProofs.** Syncs overwrite each other's cursor, forwards and backwards, so no
order of cursors helps. What is inductive is that *every* cursor somebody may still commit
is covered by the snapshots: what a caller has read was committed, and what a sync puts in
its place it has stored first, one conversation after the other (`CoverInv`). A sync that
fails between two threads keeps the cursor it has read, so its commit is one of those.

Three models were put into a form the prover can reason about, without a change of what they
say: the limiter's window is the list of timestamps it is in the code (it was a count per
timestamp, whose sum over all times needs an induction), the ledger of `ProposalReview` is a set of
rows with their times (it was the sequence of them), and the set of flushes of
`SlackIntake` is assumed finite, which bounds the copies of a snapshot by its size.

Every invariant and action property of a passing run is a theorem. Only model-checked,
and why:

- liveness, which is out of the prover's reach: `QueueDrains` (twice), `RequestsFinish`
  (twice), `Recovers`, `Sheds`, `TurnEnds`, `StagingDrains`, `MailArrives`;
- the two properties that TLC finds violated, which are no theorems (section 5).

## 5 Where the code and its documentation disagree

Two of these are runs with one property, quoted from a comment or a test, that TLC finds
violated (`findings` in `PROJECT.json` quotes the lines):

| run | what the behaviour shows |
|---|---|
| `proposal_twice` | two decisions of one pending proposal both commit |
| `approval_stale` | a second chat replaces the paused run; the approval of the first card executes the second batch |

The others were met while modelling. No run states them, and no property claims the
opposite:

- *embedding*: a row whose write-back always raises is claimed and rolled back for ever,
  because its failure is recorded in the transaction the error has aborted; a request
  waits in the enqueue trigger while a worker that holds the job waits for Voyage.
- *breaker*: a cancelled Voyage probe keeps its slot; a late failure from before the trip
  reopens a half-open circuit while its probe is still out, and the next cooldown admits
  a second one beside it, where `docs/ops/resilience.md:55-56` speaks of exactly one.
- *proposals*: a forced re-extraction deletes a proposal accepted after its read; a refused
  row in the middle of a bulk accept ends the handler without its audit row.
- *kill switch*: a sync under way writes back the tokens the kill switch has deleted
  (`services/integration_kill_switch.py:33-35`). Because `WriteCursor` writes the config
  it read, no invariant about tokens of a disabled integration is stated.
- *Slack*: a flush that read a mapping before its revocation still writes the snapshot
  (the revoke route's docstring, `api/routes/slack_intake_internal.py:156-157`). A flush
  "must land" (`services/slack_snapshot_flush.py:165`) although its extraction fails, yet
  an SQL error in it has aborted the transaction; and a subscribed webhook commits it
  halfway, after which the request ends in an error.
- *synthesis*: a brief is written over a concurrent PATCH of the node's attributes
  (`workers/synthesizer.py:295-298`); a job whose statement always raises ends every drain
  that picks it, so those behind it wait (`api/routes/synthesis_internal.py:100`). The
  queue drains once faults cease, which is what `QueueDrains` says.
- *guards*: a refused call does not give its budget back, though
  `agents/agent_kenny/mcp_client.py:360-362` says it is released. A call whose token is
  missing or cannot be decrypted raises before the `try` that audits and leaves no row,
  though the docstrings (`mcp_client.py:425-427`, `601-602`) promise one with its kind;
  `AttemptsAreAudited` speaks of calls that were refused or sent.

## 6 Not modelled

External code is assumed: Postgres (locks, read committed, deadlock detection),
SQLAlchemy's session, LangGraph's supersteps and interrupts, the providers. Left out
inside modelled parts: tenancy (every model is one tenant), the answers of the provider to
the kill switch, the registries that keep one breaker per dependency, the drafting
of proposals, sampling of the auto-accept audit, streaming, prompts, token counts and the
legacy driver of the agent. Of the syncs only mail is a module: calendar, transcripts and
Gmail share its cursor and write-back but not the thread rebuild, and are not in the map.

By lines, most of the repository is not behaviour a specification could say more about
than its text does: routes that validate and store one row, read-only queries and
projections, seed scenarios, fixtures and generators, prompts and their parsers, schema
migrations and the web application's presentation. What keeps state whose order matters
and has no module yet (sessions, webhook deliveries, review inbox, break-glass) is in the
plan; detectors, gap rules, libraries, the read-only MCP server, demo and export scripts
have none.

## 7 Plan

Written: `EmbeddingIndex`, `EmbeddingQueue`, `CircuitBreaker`, `ProposalReview`,
`AgentGraph`, `AgentApprovals`, `OutboundGuards`, `SynthesisQueue`, `SlackIntake`,
`MailSync`, and proofs of the safety properties of all of them.

Next, to prove: an abstract specification of the review loop (a proposal is decided, one
decision after the other, each with its row and its node) and the refinement of it by
`ProposalReview`, whose invariants are there; the same for `SynthesisQueue`, where a job is
settled together with its insight.

Then, to extend the model: `SessionTokens` (concurrent rotation, revocation of a family),
`WebhookDelivery`, and the review inbox and break-glass, which share the shape of
`ProposalReview`.
