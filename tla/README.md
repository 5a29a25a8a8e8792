# Wavvy in TLA+

Wavvy is a voice support agent of a bank. A LiveKit worker process talks to the
caller, runs workflow nodes and tools against Postgres, and hands the call to a
human specialist when it must. A FastAPI process serves the specialists'
desktops, runs their actions, keeps the knowledge base and the workflow
definitions, and broadcasts events. This directory holds TLA+ modules
translated from `src/backend`, the TLC configurations that check them on small
instances, and TLAPS proofs.

Sections: 1 inventory, 2 modules and runs, 3 to 10 one module each, 11 proofs,
12 statements of the repository that the code does not keep, 13 abstractions,
14 not modelled, 15 running.

## 1. Inventory

| component | state | operations | talks to |
|---|---|---|---|
| case tools (`tools/wavvy_tools.py`) | rows of transactions, refunds, disputes, fraud_cases, account_holds, customers; the `CallSession` of the call | verify_account, send_otp, verify_otp, unlock_account, initiate_refund, raise_dispute, report_fraud, lookups | Postgres; called by the node executor and by the LLM |
| specialist actions (`orchestration/action_registry.py`) | the same rows | issue_refund, reopen_dispute, unlock/freeze account, remove_fraud_hold, escalate_fraud_team, ... | Postgres; called by the engine |
| OTP gate (`send_otp`, `verify_otp`) | otp_* of `CallSession` | send, verify, reset by a refund | the case tools read otp_verified |
| orchestrator (`voice/orchestrator.py`) | `OrchestratorState`: mode, current node, collected data, completed workflows, escalation_pending, session_verified | process_utterance: monitor, cancel, dispatch, pivot | node executor, agent |
| node executor (`workflow/node_executor.py`) | node_attempts, collected_data | advance: prefill, count, auto actions, edges | `execute_with_recovery`, tools |
| tool recovery (`voice/tool_recovery.py`) | success cache of the call, 600 s | execute with timeout, one retry, error result | tools |
| agent (`voice/wavvy_agent.py`, `voice/agent_tools.py`) | escalated flag | LLM turn with the node's tools, terminal-tool bookkeeping, deferred escalation | orchestrator, FastAPI |
| engine (`orchestration/engine.py`) | action_audit_logs, incidents, resolutions, two sequences | execute with execution_id: replay, check, handler, tickets, audit row | registry handlers; called by the desktop's socket and a REST endpoint |
| handoff (`routers/ws_agent.py`, `routers/livekit_router.py`, `voice/agent_tools.py`) | connected agents and their status, queue of escalations, ACTIVE_CALLS, a `CallSession` in each process | escalate by voice or button, deliver, flush, accept, decline, cancel, end, summary | worker, desktops, browser |
| call lifecycle (`voice/agent_session.py`, `routers/livekit_router.py`, `main.py`) | row of calls, session of the worker, call_done | start, join, escalate, end, persist, repair at startup | Postgres, scoring |
| silence timer (`voice/barge_in_manager.py`) | elapsed, next threshold, paused | start, pause, reset, nudge, close | session events |
| QA scoring (`agents/qa_agent.py`, `routers/eval.py`) | eval_scores | score at the end of a call or on demand | LLM, Postgres |
| knowledge base (`knowledge/kb_manager.py`, `routers/knowledge.py`, `main.py`) | kb_documents, Chroma collections, BM25 and entity indexes in memory | upload, ingest, delete, search, reseed, backfill | embeddings, FAQ tool, companion |
| workflow definitions (`routers/workflows_router.py`, `config_loader.py`, `main.py`) | workflow_definitions with their embeddings, a cache in each process | create, change, switch, match, backfill, seed | embeddings, orchestrator |
| conversation stages, companion, coaching, language helpers, admin events, auth, tenants, front ends | prompts, texts, views | section 14 | |

How they interact. One worker process runs many calls on one event loop; a
call's utterances are handled one at a time, but the tool calls of one LLM turn
may be gathered, so two invocations of one call can be in flight. The FastAPI
process shares nothing with the worker but Postgres, HTTP notices to it and data
messages of the room back. Nothing takes a row lock: every tool reads in one
database session and writes in another, and so do the endpoints.

What is hard: tools of several calls and of specialists interleave at every
await; a tool is cancelled by its timeout before or after its commit; success
results are cached and replayed; an auto action moves a call to the next node
in the same turn and cascades; consent, identity and verification are
remembered over many turns; a handoff crosses two processes, each with a copy
of the session, by messages nobody acknowledges; desktops disconnect with a
call; a timer is restarted by events that its own callback causes; a call that
ends races its row, its score and its specialist's summary; the API restarts,
loses its tasks and caches and then repairs what it finds; documents and
definitions change between the awaits of the requests and searches that read
them.

What makes each component right:

- case tools and specialist actions: no duplicate cases, statuses backed by
  rows, holds and flags in agreement, every case filed behind an accepted code
  and on the owner of its transaction;
- OTP gate: bounded guesses over a whole session, opening only on a live code,
  no return from exhaustion;
- call flow: nothing is filed without the gate, escalation is final, a
  completed workflow is not entered again, every turn ends, attempts are
  bounded, a call that stops making progress leaves its workflow;
- engine: the rows are an audit trail, a successful row was earned, an id does
  its work once, what a desktop is told is true, and it is told something;
- handoff: an escalation is not dropped and is served, the processes agree on
  who talks to the caller, the specialist is heard;
- call lifecycle: a call is recorded as a whole, with its outcome and its
  caller, and ends; a silent caller is nudged, a speaking one never;
- QA: a score has a transcript, and a call is not scored oftener than asked;
- knowledge base: a search answers what is stored and misses nothing that is,
  a row tells what is there, chunks lose no word, the fusion keeps the order
  the retrievers agree on;
- workflow definitions: an embedding is that of its text, the caches follow the
  rows, what is matched can be entered.

## 2. Modules and runs

| # | module | builds on | proofs | runs |
|---|---|---|---|---|
| 1 | `CaseLedger` | implements `CaseFile` | `CaseLedgerProofs` | `race`, `call`, `FrozenStaysFrozen` |
| 2 | `OtpGate` | - | `CallFlowProofs` | `verify`, through `CallFlow` |
| 3 | `CallFlow` | EXTENDS `OtpGate`, implements `OtpSpec` | `CallFlowProofs` | `verify`, `cases`, `talk` |
| 4 | `ActionEngine` | implements `AuditTrail` | `ActionEngineProofs` | `engine` |
| 5 | `Handoff` | begins where `CallFlow` sets `escalated` | `HandoffProofs` | `handoff`, `CancelReturnsToAI` |
| 6 | `CallLife` | a call around `CallFlow` and `Handoff`, implements `CallRecord` | `CallLifeProofs` | `life` |
| 7 | `KnowledgeBase` | EXTENDS `RankFusion`, `Chunking` | `KnowledgeBaseProofs`, `RetrievalProofs` | `knowledge` |
| 8 | `WorkflowStore` | its rows are the graphs `CallFlow` walks | `WorkflowStoreProofs` | `workflows` |

The order is that of the damage a mistake does: rows that are written twice,
the gate in front of them, the flow that leads a caller through the gate; then
what surrounds a call; then what a call is made from. Modules 4 to 8 share the
database and the sessions with modules 1 to 3, not their variables: each has
the part of a shared table or session that its own decisions read.

There are four abstract specifications: `CaseFile`, what the readers of a
customer's rows rely on, `OtpSpec`, which a call implements, `AuditTrail`, what
the engine promises of its log, and `CallRecord`, what the readers of a call's
row rely on.

What could follow, in this order: the rows of `CaseLedger` under `CallFlow`, so
that a remembered success meets a row that has changed meanwhile; the retry of
`tool_recovery.py` inside `CaseLedger`'s steps instead of as a second
invocation; two calls that share the desktops of `Handoff` in a run (the proofs
allow any number).

Every module has a type invariant, and all of them are theorems, for every
value of the constants, so that most runs spend no time on them. A property of
a run that has two or three named parts (`ToldTheTruth`, `RowTellsTheCall`,
...) is their conjunction. Each stands beside the hazards it is about in
`PROJECT.json`. Counters of faults, restarts and requests are bounds of the
model, checked in the guard of the action that counts.

## 3. CaseLedger

What it models. The ten write tools on the shared rows: `initiate_refund`,
`raise_dispute`, `report_fraud`, `unlock_account` of `tools/wavvy_tools.py` and
`_issue_refund`, `_reopen_dispute`, `_unlock_account`, `_freeze_account`,
`_remove_fraud_hold`, `_escalate_fraud_team` of
`orchestration/action_registry.py`.

State. Rows are counted: `refunds[t]` is the number of active rows of
`refunds`, `disputes[t]` that of open disputes, `frauds[<<t, k>>]` and
`cleared[<<t, k>>]` the fraud cases on transaction `t` and customer `k` under
review and cleared, `fraudHolds[k]` and `manualHolds[k]` the active holds.
`status[t]` is `transactions.status`, with the values no decision separates
merged (`Statuses`). `op[p]` is what the invocation `p` remembers between two of
its awaits: the tool, the step, the transaction, the customer and the status it
read, and the customers its report has named so far. `torn` and `op[p].sure` are
histories.

Actions. A step is one SELECT with the decision taken on it, or one committed
transaction. `XRead` and `XCheck` are the reads, `XWrite` and `XCommit` the
commit. The three statements of a report are steps of their own (`FraudCase`,
`FraudFlag`, `FraudCommit`), because each takes the customer from the session
when it is its turn. `Abort` is every exit that writes nothing: a check that
rejects, an exception, a timeout, the refusal of the unique index.
`RefundUnacked` is the commit whose caller was cancelled before it returned.

`VerifyAccount`, `SendOtp`, `AcceptCode`, `MarkVerified` and `EndCall` change
the session that authorises a call's tools. `verify_otp` sets `otp_verified`;
`session_verified` comes later, on the edge behind an awaited publish, and never
if the turn is cut there. Until then `verify_account` may name another customer.

`Reseed` and `ReseedCases` are the two commits of a re-run of the seed script,
which `README.md:356` calls safe mid-session: statuses, account status and flags
are set back, no row goes.

Runs.

| run | shows |
|---|---|
| `race` | two voice tools and a specialist on one transaction and one customer: each case is filed in one step (`CasesFiled`), a status names a row that exists (`StatusBacked`), flag, holds and cases agree (`FraudHoldCoherent`) |
| `call` | a tool of a call whose caller may name either of two customers at any time, beside a re-run of the seed script: a case needs an accepted code, and in a session that was verified at the read every row names the owner of the transaction (`WritesAuthorised`); no re-run leaves a status without a row (`StatusBacked`) |
| `FrozenStaysFrozen` (violated) | an unlock whose check came before a freeze undoes the freeze |

`CaseFile` is the ledger without its processes: nine filings, each one step with
all that goes with it. A refund is filed where none is active, a report files
its case, raises a flag and places a hold, only the removal of the fraud holds
lowers the flag, and no case is ever deleted. What it does not promise is as
telling: a dispute or a report may be filed twice, an unlock may follow a
freeze, and a report may be torn between two customers, as may the seed script
part a flag from its holds; `torn` says whose (section 12). `CasesFiled` is
`CaseFile` as a property of the ledger; the reads, the checks, the sessions and
what a tool remembers are hidden. It covers `OneActiveRefund` and
`FrozenHasHold`, which are theorems and in no run.

`StatusBacked` is about what the code and the seed script write. The converse is
not promised: a re-run, or the next case, resets the status beside a row, which
is why `initiate_refund` asks the refunds first (`wavvy_tools.py:593`).
`get_refund_status` has an answer for a refund whose row it does not see
(`wavvy_tools.py:1013`: "seed re-run orphans old refund rows"). An upsert re-run
keeps ids and rows; `seed.py --reset` rebuilds the tables and is outside, as is
a status someone sets by hand.

Bounds. `race` has one transaction and one customer because a race needs several
processes on one row, not several rows; the rows do not tell whether the two
tools are of one call or of two. `call` has two customers because identity is
what it is about. The status `failed` starts every path a refund, a dispute or a
report may take. `MaxHolds` caps the manual holds a customer is given, in
`FreezeWrite`; `MaxDisputes` the open disputes, `MaxReseeds` the re-runs. There
is no liveness here: no tool has to be called. Deadlock is checked. The two
tasks of `race` are interchangeable (`RaceSwap`).

## 4. OtpGate

`send_otp` and `verify_otp` on the fields `otp_*` of `CallSession`
(`tools/wavvy_tools.py:422-499`), the reset by `initiate_refund` and the clock.
`otpAge` is the time since `otp_sent_at` in the three ranges the code tells
apart (10 s cooldown, 300 s life); a guess is right or wrong. `otpMisses` is a
history variable: the wrong guesses compared with the last code. Neither tool
awaits between its reads and its writes, so each is one step.

`CallFlow` EXTENDS the module and implements it, so the run `verify` checks its
properties on a whole call: guesses stay bounded although each code forgets the
lock (`GuessesBounded`), the gate opens only on a live, unlocked code
(`OpensOnLiveCode`), and a session that used up its codes is not verified again
(`SpentStaysSpent`). `MaxSends` and `MaxGuesses` are 5 and 3 in the code and 2
and 2 in the run; the proofs take any. `MaxTries` is a bound of the model, above
the lock, because right guesses count as well and do not lock.

## 5. CallFlow

State and code.

| variable | code |
|---|---|
| `state` | `OrchestratorState` with the slots `phone`, `otp`, `txn`; `terminal` is `terminal_actions_completed`, `pending` is `escalation_pending`, `verified` is `session_verified` |
| `pc` | the await the turn has reached: `dispatch` (after the monitor, before the mode dispatch), `advance`, `act` (before the auto action), `edge` (after it), `llm`, `again` (llm_node runs again after tool calls), `handoff` (the deferred transfer), `listen` (no turn) |
| `said` | the utterance, reduced to the verdicts of the extractor, the pattern lists and the routers |
| `identified` | `customer_id` and `customer_profile` of the session |
| `offered` | the tools the LLM got in this turn |
| `result` | the `fast_response_key` in flight |
| `done` | the idempotency store of `tool_recovery.py`, for `send_otp` and `verify_otp` |
| `escalated` | `CallSession.escalated` |
| `hist` | history: the transaction named last, and whether a code was ever accepted |

The graphs (`Edges`, `AutoAction`, `Needs`, `AllowedTools`, `MaxAttempts`,
`TimeoutEdge`) are those `seed.py` installs, with the fallback of
`get_edge_target` (`Target`) and the aliases of the node executor (`Alias`).

A turn. `Hear` is llm_node on a new utterance: extraction and the intent
monitor, up to the first await. `Dispatch...` is the mode dispatch: the
transfer, entry into a workflow by either router, a pivot, general talk.
`AdvanceEnd`, `AdvanceAct` and `AdvanceWait` are the three outcomes of
`advance`. `CallX` is the auto action under `execute_with_recovery`,
`FollowEdge` what `_handle_auto_actions` does with its result, including the
cascade into the next node. `Speak` and `LlmX` are the LLM's choice; after tool
calls the same utterance is orchestrated again (`HearAgain`). `Interrupt`
cancels a turn where it awaits. `Wait` and `Forget` let time pass.

Runs.

| run | shows |
|---|---|
| `verify` | the unlock and the status workflow, two codes, old codes read back, remembered successes, failing tools, the question of transfer, an interruption: `CallFlow` implements `OtpSpec`, `session_verified` means that a live code was accepted (`VerifiedByCode`), and a transfer is final (`EscalationFinal`) |
| `cases` | the refund, dispute and fraud workflows with pivots and prefilled transactions: `AttemptsBounded` and `NoReentry` |
| `talk` | the support workflow under fairness: every turn ends (`TurnEnds`), a caller is kept neither at the code (`LeavesVerification`) nor, saying nothing usable, in the workflow (`QuietCallerLeaves`) |

Bounds. `MaxSends`, `MaxGuesses` and `MaxTries` are smaller than in the code:
`verify` keeps two codes and two guesses so that an old code can be read back
and a code can be missed before it locks; the proofs hold for every value.
`MaxInterrupts` is 1 where interruptions matter to a property of two turns, and
0 in the other runs. One transaction is enough where none is confused with
another. The utterances of a run (`Mixed`, `Changes`, `Parts` in `MCCallFlow`)
are those its question is about; the proofs take any. `OddEarly` is a
constraint of `verify`: what is odd (a wrong code, a transfer, an embedding's
verdict) is said in the first workflow, before the last code and before the
interruption. It keeps the run within two minutes; what the run checks is also
proved, without it. The support
workflow, in `talk`, has the node with the most tools and 20 attempts as in the
code. Between them the runs visit the graphs of all six workflows.

Fairness. `FairSpec` has weak fairness of `Work`: the worker runs one event
loop, and every tool, query and prompt of a turn is awaited with a timeout or
returns, so a turn that is not waiting for the caller takes its next step. The
choice within `Work` is not fair: the LLM may go on calling tools for ever, and
the property is that the node's attempts stop it. Nothing is assumed of the
caller; that they go on talking (`KeepsTalking`) is a premise of the two
properties that need it. With `MaxInterrupts = 0` `Interrupt` never happens in
that run: a caller who interrupts every turn does keep it from ending.
Deadlock is checked in the three runs: a transferred call is the explicit stutter
`Transferred`.

Further divergences the model shows and no run states: a `yes` to any later
question accepts an offer of transfer made turns before; a refund by an LLM
tool leaves the node of `confirm_refund` active; a workflow the caller cancelled
is recorded as completed; `escalate_node` reached through the timeout edge
announces a transfer and only ends the workflow; the parts of a phone number
survive the end of a workflow.

## 6. ActionEngine

`execute_action` of `orchestration/engine.py`, with its two callers: the
desktop's socket (`approve_action` and direct tools in `routers/ws_agent.py`)
and `POST /api/orchestration/actions/execute`, whose client brings its own
execution id and may repeat it.

| variable | code |
|---|---|
| `audit`, `incidents`, `resolutions` | the rows of the three tables, `audit` by execution id |
| `incSeq`, `resSeq` | the sequences of the ticket numbers; a rollback does not give a number back |
| `req` | the attempts: where each is between two awaits, its id, action, caller, numbers drawn, and what it was told |
| `kyc`, `cooling` | what the handlers decide on: `customers.kyc_status`, the age of the last one-time code |
| `completed`, `card` | `session.completed_actions`, and what the desktop shows of each action |
| `done`, `worked`, `disturbed` | history: how often a handler worked for an id, for which actions, and the ids whose attempts overlapped or lost their row |

The registry's handlers come in three kinds, one of each: `mark_kyc_verified`
refuses when its work is done, `reset_2fa` does it again,
`send_otp_to_customer` works on the session and needs no customer. The handlers
on refunds, disputes and holds are in `CaseLedger`, step by step.

An attempt goes `lookup` (replay of an id that has a row), `check`, `apply` (the
handler commits in a session of its own), `incident`, `resolution`, `audit`,
`answer`. `TicketFails` and `AuditLost` are the exceptions the engine swallows:
a failed statement breaks the transaction, and the row that should follow is
lost with it. A payload's customer_id is a string or missing: any other value
fails before the first statement, which breaks nothing, so that a success
without tickets would be logged (`engine.py:129`); such payloads are not inputs
of the model. `Restart` ends every attempt where it is.

| run | shows |
|---|---|
| `engine` | two deliveries with one id or two, one fault and one restart anywhere: the rows implement `AuditTrail` (`TrailKept`), incidents, resolutions and rows belong together (`TicketsMatch`), a successful row was earned and an id that was not disturbed works once (`WorkIsLogged`), numbers that were told exist and a completed card was done (`ToldTheTruth`), and every card settles (`CardsSettle`) |

`AuditTrail` is what the engine promises: a set of entries that only grows, one
for an id, each success with two tickets of its own and each failure with none.
The refinement maps `trail` to `audit`. It is the unique constraint on
execution_id and the one transaction of tickets and row that make it hold, not
the check for an earlier row, which two attempts can pass together.

`disturbed` is where the promise "an execution_id runs at most once" ends: two
overlapping attempts both run the handler, and so does a retry after a row was
lost. The replay of a failed execution looks like a success to a socket;
`ToldTheTruth` holds because a desktop draws a fresh id for every click.

Bounds: two attempts are a retry or a race, and a third can only repeat one of
the two. Fairness: weak fairness of each attempt's next step, which is a task of
the event loop whose statements return or fail. There is no deadlock check: the
deliveries are bounded.

## 7. Handoff

A call's way to a specialist: `escalate_to_human` in the worker
(`voice/agent_tools.py`, deferred by `wavvy_agent.py`), the button "Talk to
Human" of the browser (`routers/livekit_router.py`), the desktops' sockets, the
queue and the delivery (`routers/ws_agent.py`).

| variable | code |
|---|---|
| `worker` | the worker's `CallSession`: `escalated`, `human_joined`, `escalation_pending` and the deferred task |
| `api`, `active` | the API's `CallSession` of the call and `ACTIVE_CALLS`, with the response it caches and the socket it was handed to |
| `screen` | the caller's browser |
| `mail` | HTTP events and data messages on their way; each may be lost |
| `tasks`, `queue` | scheduled `deliver_incoming_call`, and `pending_escalations` |
| `connected`, `status`, `online` | `connected_agents`, `agent_statuses`, `agent_profiles.status` |
| `life`, `desk` | the sockets, a cut one being still connected for the API, and what each desktop shows |
| `told` | history: the calls whose escalation the API took up |

Actions. `Ask` and `Look` to `EscalateTimesOut` are the deferred tool with its
second look, its timeout and its retry. `Press`, `PressTimesOut` and
`PressAgain` are the button. `TakeUp`, `HearAccept`, `Cancel` and `Lose` are
what happens to a message. `Deliver` sends to the desktops that are active and
drops the sockets that fail, `DeliverLater` queues. `Connect` flushes the queue
and the calls nobody holds. `Cut`, `Close` and `SetStatus` are the sockets';
`Accept`, `Decline`, `End` and `Submit` the specialist's.

| run | shows |
|---|---|
| `handoff` | one call that may escalate both ways, two connections, one fault, two uses of button or status: an escalation the API took up waits, is scheduled or was handed to a socket (`NeverDropped`); a mute worker is known to the API, and an answer silences the AI (`ProcessesAgree`); a specialist's words are lost only on calls the button escalated (`LostOnlyByButton`); the deferred tool ends and the escalation is served (`EscalationsProceed`) |
| `CancelReturnsToAI` (violated) | a decline, or the caller's change of mind, does not reach the worker: its AI stays mute |

Bounds. Two connections are two desktops or one that reconnects. One fault is
enough for every single failure at every place; one call, because calls share
only the desktops, and a desktop that is busy is covered by its status. The
proofs take any number of all of them. Fairness: weak fairness of the deferred
task, of a message's arrival and of scheduled deliveries: tasks of two event
loops, and a message that is not lost arrives. No specialist has to connect,
answer or become active. There is no deadlock check: a call ends.

Further divergences the model shows and no run states. Delivery is retried only
when a desktop connects (`ws_agent.py:128`), not when a busy one becomes
active; `EscalationsProceed` excepts changes of status for it. A call that is
over rings again on each new desktop, and one call may ring on two; a second
call may be delivered to a desktop in a call. A summary may go to the row of
another call of the same socket (`ws_agent.py:176`). A second press that is
answered from the cache does not mark the session escalated; a retry after an
error of the database yields an empty bundle. A timeout of the tool leaves a
mute worker with nobody told. `deliver_incoming_call` always returns True, so
that the branch for no agents, with its cancel to the AI, is unreachable; so is
the worker's `cancel_escalation` tool, since a mute worker calls none.

## 8. CallLife

A call's job in the worker (`entrypoint` of `voice/agent_session.py`), the
silence timer (`voice/barge_in_manager.py`), the row of `calls` under everything
that writes it, and its scoring.

| variable | code |
|---|---|
| `phase` | how far `entrypoint` is, from the wait for the caller to the end of its cleanup |
| `turn`, `owed`, `timer` | `session.turn_state`, a reply under way, the timer's task: off, waiting or speaking, the next threshold, the elapsed time |
| `esc`, `joined`, `done`, `left`, `hist`, `who` | the worker's `escalated`, `human_joined`, `call_done`; the caller gone; history not empty; customer known |
| `row` | the call's row: there, ended, escalated, transcript, resolution, summary, customer |
| `known`, `event`, `due`, `scoring`, `evals` | the API's session of the call, call_ended on its way, scorings scheduled and begun, rows of eval_scores |
| `quiet` | history: the time since the caller was last heard |

Time is counted in the thresholds of the timer: 25, 55 and 90 seconds are 1, 2
and 3. `Tick` lets a threshold pass, `Fire` runs the callback, `Nudged` and
`NudgeCut` are its return and its cancellation by the item it spoke. `WrapUp`,
`Persist` and `Notify` are the cleanup, each may fail; `Crash` is the end of the
worker process. `RestartApi` loses the API's sessions and scheduled scorings
and then repairs rows as `main.py` does: stubs are purged, transcripts without
a customer are linked by a guess.

| run | shows |
|---|---|
| `life` | one call, one failed write, lost event or crash, one restart, one scoring asked for, anywhere: no caller is nudged early (`SilenceCounted`), the row has its end and its transcript together, an escalated call is not recorded as resolved, a known caller is linked and never replaced by a guess (`RowTellsTheCall`), a score has a transcript and was asked for (`ScoresEarned`); all writes to the row together implement `CallRecord` (`RecordKept`); who leaves is recorded and scored, and every job ends (`CallsGetDone`) |

`CallRecord` is a call's row for those who read it later: the KPIs, the scoring,
the coaching reports. It knows neither worker nor API, timers nor phases: a
record is new, open, lost or closed; it is opened once, marked escalated while
it is open, closed once with outcome, transcript and caller together; once
closed it gets a summary, a guessed caller where there is none, and scores, and
is never purged or closed again. `RecordOf` reads it off the phase and the row;
`Start`, `Escalate`, `EscalateByButton`, `Persist`, `SubmitAcw`, `RestartApi`
and `Score` are its steps, unless their write fails, and all else is a stutter.

Bounds: calls share nothing here but the restart, so one call is enough; with
one fault and one restart each step of the cleanup meets each kind of failure.
The proofs take any. Fairness: weak fairness of the job, the timer and the
scoring of each call, which are tasks of two event loops; the caller and the
specialist may do nothing. There is no deadlock check: a call ends.

Further divergences the model shows and no run states. `PersistEnd` overwrites
the resolution the specialist's summary set; an escalation by the button is
recorded as resolved and counts as contained; where nobody joins, the row stays
active for ever, and a SIP call, whose room is no UUID, never gets an end. The
30 seconds that reset `human_agent_say_active` may end a later utterance, and
the timer is not reset by an escalation. The list of live calls shows every call
since the last restart; coaching counts rows of eval_scores, a call scored twice
twice.

## 9. KnowledgeBase, RankFusion, Chunking

Documents in three places: a row of `kb_documents`, chunks in a persistent
collection, and the BM25 and entity indexes in memory
(`knowledge/kb_manager.py`, `routers/knowledge.py`, the backfill of `main.py`).

| variable | code |
|---|---|
| `row` | status and chunk_count of a document |
| `job`, `del` | the background ingestion of an upload, and what is left of a deletion |
| `chunks`, `index` | the collections, and the indexes as of the last rebuild |
| `search`, `found` | a search: the collections still to ask, the dense hits so far; the last answer |
| `was`, `kept` | history: the documents stored at some time, and all the time, of the search |

A document stands for its chunks, which are added, deleted and indexed
together. `Upload` writes the row; the ingestion is scheduled with it and runs
when the request is answered (`Reply`): a batch that is refused for a later
file drops it. Then `Parse`, `Store`, `MarkReady` or `MarkError`; `Cut` and
`DeleteRow` are the two halves of a deletion. `Ask` passes over the empty
collections (`Left`) up to the first that is not, an await later `AskNext`
merges its hits and asks the next, and `Answer` takes the last ones, the other
two retrievers and the fusion in one go. Each retriever gives up to three times
what is answered (`Fetched`), in any order. `Restart` loses tasks and memory,
may follow a run of the seed script, rebuilds the indexes and gives a row to
what is stored under a file name that has none. Which words match which
document is a free choice.

`RankFusion` is `_rrf_fusion`: ranks of three retrievers, weights 1/(60+r) and
1/(40+r), ties by the order of registration. The fractions are multiples of a
common denominator, exact for ranks up to 3 and rounded down beyond. `Chunking`
is `document_parser.py`'s recursive split with its overlap (`Parts`, `Packed`,
`Level`) and the split word by word (`HardSplit`), over words with the
separator before them, the tokens they have alone and those they add behind
another word: a blank may merge with the word behind it or be a token of its
own. What is `Encoded` decides whether a text `Fits`; while the splits collect
they add up counts of pieces (`ByParts`, `ByWords`), and what they then join
with separators is encoded again only by the next level, never after
`HardSplit`. Its loops are `Loop`, a recursive function; a level of the
recursion is a pass over all texts that are still too long, which gives the
same chunks in the same order.

| run | shows |
|---|---|
| `knowledge` | one upload with the file name of a seed, two seeds, two collections, two failures and two restarts anywhere: a search answers what was stored and misses nothing that was there all along (`SearchSound`), a ready row has its chunks (`ReadyHasChunks`), a restart lists what is stored (`ListedAfterRestart`), an upload settles unless its batch is refused (`UploadsSettle`); over all lists of three hits the fusion keeps what the retrievers agree on (`FusionAgrees`); over all texts of up to four words and chunks of three tokens no word is lost and a chunk that encodes to more than the limit is one word or fits by the count of its words (`CutSound`) |

Bounds: a deletion needs one document that goes and one that stays, a reseeding
two seeds, the confusion of file names a name that is used twice. `N` is 1, so
that a hit can be crowded out. Four words are a chunk, its overlap, the next
chunk and a word that does not fit. Fairness: weak fairness of an upload's
answer and ingestion, a request and its background task; nobody has to search.
There is no deadlock check: uploads are used up.

Further divergences the model shows and no run states. A refused batch leaves
its earlier files' rows at `processing` (`knowledge.py:173`), and so does a
handler of a failed ingestion that fails itself. A deletion during the
ingestion leaves chunks that are searched and have no row, and a restart lists
them again. A failed UPDATE leaves `error` on a document that is answered from;
a restart leaves `processing` for ever. Reseeding gives new ids while the old
row stays listed; a stored document with the file name of a listed one is never
listed itself. BM25 and entity hits come from collections the tenant does not
list. A part longer than a chunk is stored twice under overlap. Not modelled:
the prefetch of an earlier utterance may be consumed by a later one; a seed
script that runs beside a live API leaves its indexes answering old chunks
until the next rebuild, so that `SearchSound` is about one that runs while the
API is down.

## 10. WorkflowStore

The rows of `workflow_definitions`, the embeddings of their intents, the cache
of the API (`config_loader.py`) and that of a call's worker
(`voice/agent_session.py`), under `routers/workflows_router.py`, the repair at
startup (`main.py`) and the seed script.

| variable | code |
|---|---|
| `rows` | made, active, intent text, the text inside the definition, the text the embedding is of |
| `job` | a PUT, POST or switch between its awaits: embed, write, and the reload's three steps |
| `boot` | the task of the start: what is to embed, what is embedded and not committed |
| `cache`, `worker` | `_active_workflows` of the API and of the worker |
| `match`, `call`, `told` | an utterance being matched, the call begun, what the match came to |
| `agreed`, `mixed` | history: the workflows on which row, cache and worker agreed when the call began and that nobody has switched since; whether two reloads, or the repair and a request, overlapped |

| run | shows |
|---|---|
| `workflows` | a seeded workflow and a draft, two intent texts and none, two requests that may overlap, a call, and one failure, restart or run of the seed script: an embedding is that of its row's text, or of the definition's where an editor left none (`EmbeddingFits`), the cache is the active rows once reloads are done (`CacheFollows`), what the worker knew is entered when it is matched (`MatchIsKnown`), the repair leaves no active workflow that has a text without an embedding, and edits keep it so (`Repaired`) |

A text is the intent definition with its examples. An empty one has no
embedding and is no failure: `Vector` gives NULL for it and `BootEmbed` passes
over it.

Bounds: a lost update needs two requests on one row and two texts; a seeded row
and a draft have the two ways of coming to be. Requests are interchangeable,
and the run says so (`EditorsSwap`). There is safety only: no request has to be
made, and each ends at its last await. There is no deadlock check: requests are
bounded. Raw dict and list parameters of the JSON columns are taken to be
encoded by the driver.

The premises are where the code's promise ends. A workflow without an intent
text can be active and never match; a repair embeds the definition's own text
where the column is empty. A PUT that read its row before the repair committed
writes NULL over the embedding, although `main.py:336-341` says every active
workflow has one before the first call; a PUT also undoes a deletion or a
switch made meanwhile; two crossing reloads leave a stale cache (`mixed`). The
seed script keeps the old embedding, or none, under a new text, and the API's
cache is not reloaded after it (`seeds`). A failed write after the bust leaves
the cache empty until the next reload (`faults`). No premise covers: the cache
prefers the text inside the definition to the column a PUT changes; a workflow
switched on during a call is matched by the API and unknown to the worker,
whose caller hears of an internal issue; the repair is a task of its own, so
the first call may precede it.

## 11. Proofs

`tlapm` checks eight modules. Each has inductive invariants that are stronger
than what they are for. All hold for any values of the constants: any number of
calls, sockets, attempts, documents, requests, faults and restarts.

`CaseLedgerProofs`. `LedgerInvariant` is the row invariants together with
`InFlight`, what a tool between two steps may rely on, and `SeedInFlight`, what
the seed script has done between its commits. `FraudHoldCoherent` is inductive
only with the three tables of a hold in one commit and, of a report, with all
its customers the same or all of them torn. A task that passed its gate has an
accepted code behind it; only if its session was verified at the read (`sure`)
is the customer of the call bound to stay the owner of the transaction, and the
rows named so far with it. From it: `TypeCorrect`, `RefundsUnique`,
`StatusesBacked`, `FraudHoldsCoherent`, `FreezesHaveHolds`,
`VoiceWritesAuthorised`. `LedgerIsAFile` is the refinement of `CaseFile`: a
commit is one filing, every other step leaves the rows alone; `InFlight` gives
the filing its customers. From the filings follows `CasesAreKept`: nothing filed
is lost, and but for torn customers a flag goes down only with all fraud holds
and cases of the customer.

`CallFlowProofs`. For the gate, `OtpInv` adds to the types that every miss is
also an attempt, that an unlocked gate has guesses left and that a code that is
set was sent; then `GuessesAreBounded`, `GateOpensOnLiveCode` and
`SpentIsFinal`. For a call, `FlowUsesGate` (`Spec => OtpSpec`) goes through the
actions and shows that each is an action of `OtpGate` or a stutter; so
`OtpGate`'s theorems hold of a call (`CallGuessesBounded`). `FlowInv` has three
parts. `Good` is what a state of the orchestrator is after any of its
operations, and a lemma per operation (`EnterGood`, `AdvanceGood`, `ExitGood`,
`ClearGood`, ...) shows that the operation keeps it. `Turn` says what the place
of the turn means: in `act` and `edge` the node is one with an auto action, in
ESCALATION mode the turn is only between three places, a remembered
`verify_otp` means that a code was accepted. Without it the operations could be
applied to a state they do not keep good, such as the edge of `escalate_node`.
`Flags` types the rest. From it: `FlowTypeCorrect`, `NoWorkflowTwice`,
`AttemptsStayBounded`, `VerifiedMeansCode`, `EscalationIsFinal`.

`ActionEngineProofs`. `NumberInv` says that the sequences are ahead of every
number an attempt holds or a row has, and that no two hold the same; with
`ReqInv`, what an attempt holds at its place, it gives `TicketsAlwaysMatch` and
the refinement `LogIsATrail` (`Spec => TrailKept`): each commit of a row is an
`Append` of `AuditTrail`, every other step a stutter. `EarnInv` says that who
holds a handler's result, or stored it, has run it; `OnceInv` that an
undisturbed id has at most one attempt under way; together `WorkIsAlwaysLogged`.
`IdsInv` says that a desktop's id is no other attempt's, so that no failed row is
replayed to it: `TheTruthIsTold`.

`HandoffProofs`. A frame lemma per actor says what it leaves alone. `Typed`
gives `TypeCorrect`; `Begun` and `Origin` say that what waits, rings or is
answered has been begun, and by whom, which `NothingIsDropped` and
`LostOnlyEverByButton` need; `ProcessesAlwaysAgree` follows from two invariants
about a message on its way.

`CallLifeProofs`. `ClockInv` says that the timer has counted no more than was
quiet, whatever its place (`SilenceIsCounted`). `RowInv` ties the row to the
phase of the job: an end only once the job is past `_persist_call_end`, and
outcome, transcript and caller fixed from there (`RowsTellTheCall`). `QaInv`
counts the scorings scheduled, begun and written together with the event that
may still schedule one (`ScoresAreEarned`). `CallsAreRecords` is the refinement
of `CallRecord`, step by step. It needs `RecordInv` beside these: a row that is
not there is blank, a caller is linked no earlier than the end, and a scoring
that has begun is of a closed row with its transcript; without the last a score
could follow a purge. `ClosedIsKept` is what a reader concludes of a record that
is closed, escalated or scored.

`KnowledgeBaseProofs`. `KbInv` says that an upload whose row is ready, or whose
ingestion has stored it, has its chunks unless a deletion is half done
(`ReadyMeansStored`); `RestartLists` is an action property of the repair at
startup. `SearchSound` is about answers only and not inductive. `SearchInv` says
what a search knows between two awaits: the dense hits so far are a list without
repetition of what was stored at some time since it was asked; what was there
all the time is among them, unless its collection is still to be asked or there
are `Fetched` others; the collections still to ask are a tail of those listed,
and begin with one that is not empty. `SearchesSound` follows with what the
fusion promises of the first `N` of a list. `MergedOf` is the loop that drops
what was found before.

`RetrievalProofs` is about the operators, for texts and lists of any length.
*Chunks*: a chunk is a `Run` of consecutive words, and the chunks of a text are a
`Chain` of runs that follow one another, or overlap. Splitting at separators,
joining what fits, the split word by word and the concatenation of what the
texts of a level are cut into each keep a chain a chain from the same first word
to the same last one (`PartsChain`, `PackedChain`, `HardChain`,
`FlattenChains`), so `Split` returns one (`SplitChain`); every word of the text
is in the first chunk that ends behind it (`NothingLost`), and a chunk that the
split word by word leaves too long is one word, or one whose words, counted one
by one, fit (`PiecesBounded`). *Fusion*: `Before`
is a strict order of finitely many hits, so that places are the numbers below
their count (`PlacesAreTaken`) and exactly `n` hits are answered if there are so
many (`TopCounts`); `FusionOrdered` and `AgreementLeads` compare the parts of a
score. `FusionSound` and `CutAlways` in `KnowledgeBaseProofs` are what these say
of the instances the run looks at. `AgreementLeads` holds for lists of up to 21
hits, which is what is fetched for seven results: an entity hit at rank 1 weighs
1/41, two others at rank 22 no more.

Induction. The theorems of the library that take a predicate cannot be used;
instead `LeastNumber` takes the least element of a set of numbers from
`WFMin`, whose parameters are sets. A loop is a recursive function, whose
existence has to be proved before it can be unfolded: `LoopRuns` gives it from a
step that is a function, `LoopStays` carries an invariant through.

`WorkflowStoreProofs`. `Typed` includes the shape of a request at each of its
places; `FitInv` says that what a request or the repair is about to write fits
the text it was computed from, `FillInv` that a row with a text and no
embedding is one the repair has still to do and will not pass over,
`CacheInv` what a reload under way holds when none overlaps, `CallInv` what
`agreed` means. A lemma per actor says how it moves these: `EmbeddingsFit`,
`RepairRepairs`, `CacheIsCurrent`, `MatchesAreKnown`, `StoreTypeCorrect`.

Assumptions: those named in the modules, and no other. They say that limits and
bounds are naturals, that sets of ids or attempts are finite or not empty where
a proof needs it, that a transaction has an owner, that a task belongs to a
call, that the values for nothing are not values, that the workflows are among
the six seeded ones, that there is a text that is not empty, that utterances
have the form of `Utterance`, and that uploads and seeds, seeded workflows and
drafts, are disjoint. TLC evaluates them in every run.

Only model-checked. Liveness, since fairness and ENABLED are out of the prover's
reach: `TurnEnds`, `LeavesVerification`, `QuietCallerLeaves`, `CardsSettle`,
`EscalationsProceed`, `CallsGetDone`, `UploadsSettle`. No safety property of a
run is only model-checked. No module declares a RECURSIVE operator.

## 12. What the repository says and the code does not keep

Two runs expect a violation and are findings: `FrozenStaysFrozen` and
`CancelReturnsToAI`. Others are definitions that no run names; TLC refutes them
when they are given to it, as a PROPERTY where they are actions or temporal and
as an INVARIANT else, in place of the properties of the cfg beside them.

| statement | cfg | what happens |
|---|---|---|
| `NoDuplicateDispute` (action) | `MCCaseLedger_race` | two disputes on one transaction: `raise_dispute` checks and inserts in two database sessions, and no index backs the check; two fraud reports likewise |
| `CasesOnOwner` | `MCCaseLedger_call` | a report files its case under the session's customer of that moment, who may have changed since the transaction was read if `session_verified` is not set yet (`wavvy_tools.py:794`: "proves caller owns the account") |
| `NoTornReport` | `MCCaseLedger_call`, with `MaxReseeds = 0` | likewise, with the case on one customer and the flag and the hold on another |
| `SeedIsSafe` | `MCCaseLedger_call` | a re-run lowers the flag of a customer whose fraud hold is active (`README.md:356`: "safe mid-session") |
| `TaskNodesVerified` | `MCCallFlow_verify` | an error of `verify_otp` has no edge, falls back to `success`, and the task node follows |
| `CodeIsOnItsWay` (action) | `MCCallFlow_verify` | the cache answers a second `send_otp`; no code is sent and the last one has expired |
| `NamedTxnWins` (action) | `MCCallFlow_cases`, with the dispute workflow, two owned transactions and `Utterances <- Cases` | the profile's transaction, or one read from an answer, keeps the slot against the one the caller names |
| `AuditedInAllCases` | `ActionEngine_engine` | a failed ticket takes the audit row with it (`engine.py:51`: "written in all cases") |
| `SpecialistHeard` | `Handoff_handoff` | after the button the worker does not know of the escalation, and drops what the specialist types (`agent_session.py:415`: "must always reach the TTS layer") |
| `GoodbyeComes` (temporal) | `CallLife_life` | the item the first nudge speaks restarts the timer and cancels the callback, so the timer stays at its first threshold and 90 s never come (`agent_session.py:283`) |
| `LiveRowKept` (action) | `CallLife_life` | a restart of the API takes the row of a call in progress for a stub and deletes it (`main.py:232-240`) |
| `SectionsFit` | `MCKnowledgeBase_knowledge` | words that are counted one by one and joined by blanks may encode to more than the limit, and nothing looks again (`document_parser.py:98`: "If a section exceeds CHUNK_TOKENS it is split further") |
| `EveryoneEmbedded` | `MCWorkflowStore_workflows` | a workflow without an intent text is passed over by the repair (`main.py:339`: "ensures every active workflow has a valid vector before the first call arrives") |
| `LeaderSurfaces` | `MCKnowledgeBase_knowledge` | a hit that leads all three lists scores 0.057, the FAQ tool asks for 0.20 (`faq_capability.py:31`); `wavvy_agent.py:35` has the right scale, the companion's 0.28 has not |

## 13. Abstractions

- Words: an utterance is what the pattern lists, the extractor and the two
  routers make of it. Regular expressions, embeddings and prompts are not
  modelled, and no property is about wording.
- A code's six digits are the number of the message it was sent in, or a wrong
  one. A phone number is the caller's, another one, one in parts, or too long.
- `CallFlow` does not have the rows: an authorised write may answer anything
  `CaseLedger` allows. Where the two disagree about time, `CaseLedger` is the
  finer one: it lets a tool run at any node and two tools of a call overlap (an
  interrupted turn finishes its tools beside the next one's), `CallFlow` runs
  those of one LLM turn one after the other.
- The store of remembered successes is kept for `send_otp` and `verify_otp`: for
  the other tools a remembered answer and a new one lead to the same edge. The
  store is forgotten as a whole (`Forget`), after its 600 s and not before a
  code has left its cooldown.
- Exceptions in the node executor outside its tools end the turn with a
  fallback sentence and are not modelled. The phases of the transfer that ask
  for name and reason are unreachable in the code and left out. Of
  `confirm_refund` the edges no auto action can reach are left out. The graphs
  `CallFlow` walks are the seeded ones, not those an operator edits.
- A step lies between two awaits, since each process has one event loop; a
  statement of the database is one step, and its session is committed or rolled
  back by the step that says so. READ COMMITTED is assumed, the default of Postgres.
- Messages carry what the receiver decides on. They arrive in any order, and may
  be lost where nothing acknowledges them; none is duplicated, since neither
  HTTP nor the room repeats one.
- A history variable records what the code does not keep, and no action reads
  one.
- The seed script is an action of `CaseLedger`, `KnowledgeBase` and
  `WorkflowStore`; elsewhere it and the migrations are types and initial states.

## 14. Not modelled

- Conversation stages (`session/conversation_state.py`): a table that gates
  prompts; the orchestrator's modes decide what runs.
- Companion and investigation agents, coaching reports: prompts and the shaping
  of JSON. Companion updates are computed in tasks of their own and may reach a
  desktop in another order; nothing depends on them.
- Language helpers: regular expressions and embeddings; their verdicts are
  inputs of `CallFlow` and `WorkflowStore`.
- Guardrails and legacy CRM tools: the present voice path does not reach them.
- Admin events: fire and forget; the list of sockets is iterated across awaits,
  so a supervisor's screen may miss one.
- Auth, tenants, debug endpoints: request handlers without state between them;
  the tenant's row is reloaded as the workflows are.
- Front ends: views of the server's state, except what `Handoff` and
  `ActionEngine` say of a desktop and a browser.
- The read-only tools and endpoints, and `update_account_info`, which writes
  contact data no other tool decides on.
- The retry of an unknown exception in `tool_recovery.py` inside a call's turn:
  `CaseLedger` lets a tool run again after any abort, and `Handoff` has the retry
  of `escalate_to_human`.

## 15. Running

    tlc -workers 2 -config MCCaseLedger_race.cfg MCCaseLedger.tla
    tlc -workers 2 -config Handoff_handoff.cfg Handoff.tla
    tlapm CallFlowProofs.tla

A cfg is named after its module and its run. With two workers `verify` (10
million states), `cases` (8.6 million), `workflows` (6.1 million), `handoff`
(0.8 million, with liveness) and `race` (3.8 million) take between one and a half
and three minutes each, the other runs about one or less.
