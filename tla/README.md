# Formal models of Recova's recovery engine

TLA+ specifications of the payment-recovery backend (`Backend/application`),
model-checked with TLC, with theorems checked by TLAPS. Paths below are relative
to the repository; module names are files of this directory.

## 1. The system

A failure signal from the payment gateway is claimed, classified and driven
through a LangGraph state graph (ingest → diagnose → [wait] → execute →
reconcile). Models advise; deterministic gates decide; adapters contact or charge
the customer. A live session drives the same gates turn by turn, from a customer's
replies; payment links and their reconciliation close cases; a sweeper follows up
missed deadlines; what-if runs push whole books of invented cases through the same
graph. One SQLite database is shared by the web handlers, the threads, the
simulation workers, the operator endpoints and the sweeper, all in one process (one
uvicorn worker, `Backend/Dockerfile`, `Backend/railway.json`).

### Components, their state, operations and interactions

| Component (source) | State | Operations | Interacts with | Correct when |
|---|---|---|---|---|
| Webhook ingestion (`endpoints/webhook_api.py`, `operations/idempotency_service.py`, `failure_classifier.py`) | `processed_events`, `transaction_states` | verify, claim, classify, upsert, invoke graph, answer | gateway (redelivers), graph, event loop | an event is worked at most once; every delivery is answered |
| Recovery graph (`workflow/`) | `current_state`, `audit_trails`, run locals | the five nodes and their routes | rules, sandbox, diagnosis, adapters | gates in order; contact only if approved; closes only on settlement |
| Compliance rules (`compliance_rules.py`, `helpers.py`, `voice_attempts.py`) | none (reads audit rows) | quiet hours, retry, voice and nudge caps, keyword screen, salary window | graph, call/start, live tools | caps hold for what is really sent |
| Policy sandbox (`policy_guard.py`) | a snapshot of the policy | `validate` | everything that acts | a looser policy approves no less |
| Merchant policy row (`policy_repository.py`, `endpoints/policy_api.py`) | one row | seed, complete, backfill, patch | startup, operators, sandbox | edits survive, only operators tighten |
| Operator and call endpoints (`endpoints/transaction_api.py`) | `current_state`, `escalation_queue`, `call_sessions` | `set_status`, `start_call`, links, notes, drafts | graph, through the database | nobody escalated without a ticket; calls counted |
| Payment artifacts (`payment_artifacts.py`, `payment_link_service.py`) | `payment_artifacts`, balance and link in the case's metadata | mint, cancel prior, reconcile, simulate payment, the desk's link and its status | gateway, live session, sweeper | closed only by money; no link lost sight of; a part payment leaves the case open |
| Deadline sweeper (`deadline_sweeper.py`) | `followed_up_at` | tick: reconcile, gate, message, mark | artifacts, gate chain | one follow-up per missed deadline, none after paying |
| Live session (`live_session.py`, `endpoints/live_api.py`) | sessions, event queues, messages | open, reply, agent turn, tool, poll, stream, delete | graph rules, artifacts, models | nothing after a stop; calls audited; the stream ends |
| Agent tools (`agent_tools.py`) | none | offer, decide, override, gate | models, sandbox, caps | the engine's own proposals pass its own gates |
| Reply understanding (`reply_understanding.py`, `jev_client.py`, `language_parser.py`, `draft_guard.py`) | none | judgments → verdict, promised day, keyword fallback, check of a draft | live session, agent tools | more suspicion never frees a reply; a promise falls on the named day |
| Model router (`model_router.py`, `diagnosis_service.py`, `simulation/triage.py`) | cooldowns | choose a tier, fall back, retry once | models | an unusable answer never names a playbook outside the set |
| Simulation runner (`simulation/`) | per-run rows, run store | plan, run in threads, stream, summarise, list, prune, delete | graph, live sessions, operators | decided under one policy; the merchant's book untouched |
| Gateway adapters (`integrations/`) | MCP connection | call tool, dispatch | gateway | a lost answer is accounted for |
| Rate limiter, assistant, voice agent, live batch recovery, metrics, drafting, seed data, frontend | derived, static or of one request | reports, wording | database | section 6 |

### What is hard here

* **Redelivery and crashes.** The gateway repeats events; the id is committed
  before the work, so a crash loses an event instead of repeating it.
* **Check, then act, over several commits.** `execute` reads the case, passes
  four gates, commits a state, calls the adapter and commits the audit row the
  voice cap is counted from. Threads of `call/start`, operators and simulation
  workers run between those commits.
* **Snapshots.** The sandbox of a request is built by its dependencies, before
  the handler runs; that of a what-if run once for all its cases.
* **Dirty columns.** The ORM writes a column only if the assigned value differs
  from the loaded one, so an assignment of what was loaded writes nothing
  (`Flush`). `metadata_json` is one column: who writes it, writes all of it.
* **The event loop.** The webhook handler is a coroutine that runs the whole graph
  without awaiting: nothing else on the loop runs meanwhile.
* **Answers that arrive late or never.** A link is created at the gateway and its
  id does not come back; an old "open" is written over a newer "paid".
* **One conversation, several threads.** Replies, tools and the payment poller of a
  live session are threads that share an object without a lock.
* **Arithmetic at a threshold.** Percentages are rounded, compared over different
  bases, and capped in different orders by the proposer, the gate and the draft
  guard.

`PROJECT.json` lists each such hazard at its line with the properties for it.

## 2. The modules

| Module | What it models |
|---|---|
| `Compliance` | the vocabularies (`constants.py`), the playbook tables, `classify`, the caps and clocks |
| `PolicySandbox` | `PolicySandbox.validate` over integers; the startup backfill; the ORM's flush of one column |
| `RecoveryGraph` | webhook handler, graph, simulated cases, `call/start`, `set_status`, policy edits, crashes |
| `WebhookInbox` | abstract: what the endpoint promises the gateway |
| `PolicyStore` | seeding, completing, backfilling and concurrently patching the policy row |
| `SandboxRules` | one verdict, over all chosen policies and proposals |
| `PaymentArtifacts` | minting, cancelling, reconciling and following up the links of one case; the gateway's ledger |
| `CaseAccount` | abstract: a case is closed only by money |
| `ReplyReading` | judgments and keyword hits to a verdict, a day and an offer; the draft guard |
| `AgentTools` | the tools offered, how a proposal is put together, `gate_tool` |
| `TurnDecision` | one turn from the customer's words to the gate's verdict, over the two above |
| `LiveSession` | the threads of a live session, with `AgentTools`' gate |
| `ModelRouter` | providers and the one retry of a diagnosis |
| `ScenarioPlan` | a what-if scenario to its planned cases, and where the engine leaves a case |
| `BatchRun` | workers, stream, summary, pruning, deletion and live takeovers of what-if runs |
| `MC…` | values of the constants for TLC |
| `…Proofs` | theorems and proofs about the module of that name (`RecoverySafetyProofs`: the second part of `RecoveryGraph`'s) |

`PolicySandbox` EXTENDS `Compliance` and everything that gates an action EXTENDS
it: `RecoveryGraph`, `PolicyStore`, `SandboxRules`, `PaymentArtifacts`;
`ReplyReading` → `AgentTools` → `TurnDecision` and `LiveSession`; `ModelRouter` →
`ScenarioPlan` → `BatchRun`. `RecoveryGraph` instantiates `WebhookInbox` and
`PaymentArtifacts` instantiates `CaseAccount`, for the refinements.

### RecoveryGraph and the code

| Model | Code |
|---|---|
| `claimed` | `processed_events`, whose unique key is what `claim_event` relies on |
| `state`, `class` | `transaction_states.current_state`, `.failure_class`; `Absent` is no row |
| `tickets` | rows of `escalation_queue` |
| `audited`, `callRows` | `INTERVENTION_DISPATCH` audit rows, written by the graph and by `call/start` |
| `sent`, `placed` | adapter calls of the graph; `call_sessions` rows |
| `loop` | the request that holds the event loop |
| `pc`, `job` | where each handler, worker or thread is; its locals, its policy snapshot, and the state its session loaded (`job.seen`) |
| `runs`, `acts` | history: graph runs and dispatches for each event or case |
| `overlaps` | history: calls granted while another caller was past its check and had no audit row yet |

Each `db.commit()` that changes modelled state is one action; so is each adapter call and each
response. `Claim`, `AnswerDuplicate`, `RejectUnmapped`, `Upsert`, `Respond` are the
handler; `Ingest` to `Reconcile` are the nodes; `CallGate/Record/Place`,
`SetStatus`, `FileTicket`, `EditPolicy` run in the thread pool. `Fail` is any
process's database call raising, `Crash` the whole process stopping. `Execute` is the
reads and gates of `execute` and its successors are what it then writes.

Abstracted: amounts, discounts and clock readings are members of small sets;
contents of messages, audit payloads, links and transcripts are left out; the
advice of the models is any playbook of `Advice`, or the class default;
adapters are a single step because they swallow their own failures, and `sent`
counts what is handed to them (the charge adapter itself is a simulation so far).
The 72-hour window of the voice cap is not represented because the code counts
all rows, not those of a window.

### PolicyStore and SandboxRules

`PolicyStore` gives each PATCH a session that loads the row and later writes the
columns it changed; startup runs `Seed`, `Complete` (each empty column gets its
default on its own) and `Backfill` before `up`.
`SandboxRules` picks a policy and a proposal and records the verdict; percentages
are compared over integers, with the rounding to two decimals included.

### PaymentArtifacts and the code

Four processes share one case: the live session's request thread (`session`), the
operator's endpoints (`desk`), the session's payment `poller` and the `sweeper`.

| Model | Code |
|---|---|
| `links`, `made` | the gateway's own ledger: external, modelled from what the code asks of it |
| `rows`, `minted` | `payment_artifacts`; `overdue` is a deadline in the past, `followed` is `followed_up_at` |
| `meta` | `metadata_json`: the remembered link and `balance_due_minor` |
| `task` | each process's next step and locals: the answer it holds, the status it loaded |
| `leaks`, `forced`, `chases` | history: links lost sight of, simulated payments, messages per artifact |

A mint is `Ask`, `Gate`, `AskMcp`, `AskSdk`, `CancelPrior`, `Record`, `Book`,
`Tell`: one action for each call to the gateway and each commit. `Create` lets the
gateway make the link and lose the answer, upon which the code goes to the next
transport: the MCP server's timeout makes the SDK create a second link. The SDK's
link is never payable in parts, whatever its row says. `CancelPrior` cancels the
older links one by one, and the first one that fails ends the request: the handler
of that failure logs through `logger`, which `payment_artifacts.py:150` does not
define. A QR code's id is cancelled through the payment-link resource, and that
fails. `Pick`, `FetchAs`, `Write`, `Apply` are one reconciliation, by whoever runs
it: what is written goes through `Flush` from what was loaded before the gateway was
asked. The link's `expire_by` is the plan's deadline, so the gateway may have
expired it when the sweeper asks, and the artifact then gets no follow-up.

### Turns

`ReplyReading`, `AgentTools` and `TurnDecision` are pure: one behaviour is one turn.
A probability is one of the four bands that the code's thresholds cut (`Bands`); a
date is a number of days from today, over a month of `len` days followed by one of
`next`. A text with a slash or a dash is handed whole to the keyword parser, which has
the last word on a day of the month (`Explicit`): it looks for a relative day, a day of
the month and a date with its month ("10/11"), and `text.says` is what it finds first.
A written month is known by how far its first day lies from this month's; one that is
over is next year's, but a day that is over of this month is not (`MonthStart`). The
keyword reading (`KeywordReading`) has that parser alone. `Draft` happens before the tool
is decided and gated, as in the code: the answer is written first. A proposal is gated
with the discount it carries. A payload of the decision model comes from `JevPayload`,
one of a language model is any of `Payloads`, including an unknown tool and amounts
and deadlines outside their range.

### LiveSession

A process is an HTTP request on its own thread, or the poller; `pc` is its next
commit or its next look at what others change. `started`, `closed`, `terminal` and
`queue` are the session object. Once a stream has bound the event loop (`Bind`), a thread puts
nothing in the queue itself: it leaves a callback in `scheduled` and the loop runs the
callbacks in order (`Deliver`). So `_finish` is three steps (the state, the flag with the last
event, the end: `Finish`, `Complete`, `Signal`), and DELETE is two (`Delete`
sets the flag, `SignalClose` sends off the drain and its end). `thread` has the number
and the author of each message, the number read in `Say` and written in `Save`;
`rang` counts calls offered to the browser and `sent` the dispatch rows that the cap is counted from. `Load`, `Count` and `Decide`
are apart because the case is loaded before the answer is drafted, the caps are
counted when the decision is asked for, and the gate rules when the model has
answered. `Ticket` expires what was loaded, so that the next commit really writes.
`start()` does not look at the case, so a case that a named tool stopped before the
stream connects is opened all the same; two tabs share one end marker. `Crash`
leaves the rows and lets the client open the case again.

### BatchRun

One run is one POST: `Post` plans the cases (`ScenarioPlan`), reads the merchant's
policy once and lays the overrides over a copy; `Launch` creates all workers, which
queue at a semaphore of `Width`. A worker is `Insert`, `Work`, `ReadBack`; the run
of the engine over one case is one commit here (`EngineEnd`), since `RecoveryGraph`
has the steps in between. A janitor's deletion reads the ids in one statement and
deletes in another. `OpenLive` is `create_session` on an existing case, which puts
its own run id over the row's. `SetState` is an operator's `set_status`, or a step of the live
session that holds the row; `hands` remembers which cases it hit and where their workers
stood, because the engine writes a column only where it differs from what it loaded, so a state
set by hand between its commits may stand (`Ends`). The client may leave the stream (`Leave`), a worker
may raise (`Fail`, `FindNothing`), the process may restart and prune.

## 3. The runs

All passing runs explore every reachable state. `CHECK_DEADLOCK FALSE` is set because the
environment is bounded: once the last delivery, edit, payment and crash have been spent and the
last process has finished, the system has nothing left to do.

| Run | Bounds | Shows |
|---|---|---|
| `webhooks` | 3 events on one case (a mandate failure, an overdue invoice, an unclassifiable one), each delivered twice through 2 requests, an escalating operator, 1 crash or failed commit, day and night, discount within and above the limit | types; at most one run and one dispatch per event; audit rows trail dispatches; no orphaned diagnosis; no escalation without a ticket |
| `calls` | 3 mandate events, 2 `call/start` requests, a policy edit forbidding voice, 1 crash or failed commit | the voice cap is overrun only by callers who were past the check together, and by rows lost to a fault |
| `cases` | 2 simulated cases over every message reading, outcome, gate and class, and an operator | screening before contact; quiet hours only defer, also when a cap is spent; only settlements close |
| `progress` | as `webhooks` without the operator, fair | deliveries answered; events worked unless the process stops or a commit fails; the endpoint implements `WebhookInbox` |
| `policy_edits` | 3 editors, 7 patches (good, bad, mixed, overlapping), an empty database, an old row and an oldest row, 2 restarts | rows stay valid; disjoint edits both land; only operators tighten |
| `sandbox` | every combination of limits, and proposals on both sides of each | loosening is monotone |
| `minting` | session and desk, whole and part links, 2 links, 2 rows, lost answers, payments, refused cancellations | strays are accounted for; no paid link is closed; only money closes the case (`CaseAccount`), and only all of it |
| `sweeping` | session with the sweeper or with the poller, a QR code or a plan, 1 link, its deadline passing, 1 crash or failed call, a lenient and a strict policy, fair | one follow-up per failure-free artifact, none after paying; overdue plans are dealt with; payments are noticed |
| `turns` | every judgment and keyword hit; every way to name a day over seven months' shapes, with texts that name another (words, a number, a date of a month that is over, this one, one to come, none); policies and cases around the ceiling, the minimum share and the caps, gated with and without a discount | suspicion never frees; promises on the named day, or in the written month; a sent draft and the engine's own proposal fit the sandbox |
| `live` | a stream, a reply and a named call on one case that has one call behind it, the poller, and 1 payment, DELETE or crash | types; calls audited; no escalation without a ticket; each request's messages in order and no number skipped; the end of a stream that is over is on its way and not lost; a stop holds |
| `batch` | two runs (generated, and authored with model diagnosis) of 3 cases, 1 worker each, a janitor, a live session, 2 upsets (edits, deletions, prunes, failures, restarts, states set by hand) | one policy per run; the summary agrees with the tables; the merchant's figures change only by a live session or by hand, and its rows are deleted only by a DELETE that names a live session; a prune reads no id of a live case |
| `doc_stop` | a stream and two replies | (expected violation) see below |

Why the bounds suffice: two requests are enough for a duplicate to arrive while
the first is in progress, before it, after it and after a crash; the event loop
admits one handler, so a third adds only waiting. Three events reach the voice
cap (two) and go past it. Two callers are the fewest that can be past a check
together. Amounts and percentages are taken at, just under and just over every
limit. In `minting` two links and two rows are one mint that replaces another,
with one link per row or both for one mint whose first answer was lost;
`MaxFaults = 0` there still lets answers be lost and cancellations be refused, and
crashes between the commits of a mint are counted in `leaks` by definition. In
`sweeping` one artifact suffices: artifacts are worked one after the other, and
what the sweeper and another writer can do to each other they do on one row; that an
exception over one artifact drops the others of the same tick is not exercised.
`live` has one request of each kind and one of payment, DELETE or crash: overlap of two
replies is in `doc_stop`, and combinations of those events and more requests are covered by
the theorems of section 5. In `batch` one worker per run and two
runs give every order of insertion, deletion and takeover of a row; states are set by
hand, and live sessions opened, on one case of a run and one of the merchant's. Symmetry is
used for requests, callers and editors only, in runs without liveness properties.

Each property of a passing run has a mutant: a plausible bug put in the
place of one definition (a missing unique constraint, the caps read before the
clock, an unaudited dispatch, a tolerated failed cancellation, a close that
empties the queue and leaves it so, a snapshot read again), with which the run fails.

### Disagreements with the documentation

One run states what a comment of the code says, and TLC refutes it: `doc_stop`.
`live_session.py:772` says "no LLM output can override either disposition", but a
reply that is being answered while another reply opts out goes on: its turn checked
nothing after its draft, dispatches, and writes `INTERVENING` over `CANCELLED`
(`StopNotOverridden`).

More disagreements show in the definitions, without a run of their own:

| A document says | The code |
|---|---|
| `README.md:163`: a `payment.captured` event becomes `RECOVERED` | answers 422: a captured payment has no error code, and the handler passes no outcome to the graph (`ClassOf`, `RejectUnmapped`) |
| `README.md:99`: an unmapped signal escalates | answers 422 and files no ticket (`RejectUnmapped`) |
| `policy_api.py:22`, `README.md:198`: a late settlement kills an in-flight fallback | the state is not read again between the gates and the charge (`Dispatch`) |
| `README.md:143`, `:195`: the engine stops before a fourth debit | nothing increments `retry_count` (`RetryCount` is a constant) |
| `README.md:197`: at most two calls | two callers can be past the check together (`overlaps`): `VoiceOvershoot` states that nothing else, faults aside, overruns the cap |
| `README.md:196`: a deferred contact resumes at 09:00 | no process reads `scheduled_for` (`Defer`) |
| `README.md:371`: the retry is scheduled to the 1st | `wait` falls through to `execute`, which charges at once (`Wait`) |
| `README.md:216`: the policy row is "written only by a human operator" | every restart unions two actions into it (`Backfill`) |
| `en.ts:357`: "Edits apply to the next action immediately" | the sandbox of a request is built before its handler runs (`Deliver`) |
| `README.md:349`: a floor under part payments | the share is taken of the ceiling when that is smaller than what is due (`PartialBase`) |
| `README.md:351`: "only a fully cleared balance, or a plain non-partial link, closes it" | the operator's status poll takes "paid" of whatever link the case remembers, a plan's upfront part too, for the whole (`CloseByStatus`, `payment_link_service.py:196`) |
| `deadline_sweeper.py:101`: "a customer who paid in the meantime must not be chased" | while the poller is at work, the sweeper may write an answer older than the poller's and chase (`NeverChasedIfPaid` is stated without the poller) |
| `reply_understanding.py:44`: "Between this and STOP_GATE a keyword hit is reviewed" | only the first keyword hit is looked at (`Verdict`) |
| `language_parser.py:12`: "The n-th day-of-month at or after today" | a number the month does not have becomes the first of the next month, and of the current one, in the past, when that has 31 days (`NthOfMonth`) |
| `live_session.py:126`: "keeping seq monotonic per transaction" | two requests that overlap read the same last number and write one number twice (`Say`, `Save`; `ThreadInOrder` states what is left) |
| `triage.py:9`: triage mirrors the raisers of the router, "stakes and guardrail proximity" | the diagnosis of a case passes the router the amount only (`diagnosis_service.py:146-149`): retries and calls near their caps raise no tier there (not modelled) |
| `agent_tools.py:845`: a call that is not permitted after three nudges "escalates to a human" | the override is made only if the call is permitted (`NudgeBecomesCall`); in quiet hours it is deferred |

## 4. Fairness

`RecoveryGraph!FairSpec` assumes weak fairness of each process's own next step: a scheduled
handler is eventually run by the event loop and a started one keeps running, as do
worker threads and thread-pool requests. Nothing is assumed of the gateway
(deliveries and redeliveries), of operators, callers or policy edits, or of
crashes and failures. No adapter or model is assumed to succeed, only to return: each has a
timeout in the code.

`PaymentArtifacts!FairSpec` assumes weak fairness of the poller and of the sweeper,
each a loop that runs until the server stops and survives an exception of one tick.
Two more assumptions are about the world: a sweeper's tick falls outside quiet hours
again and again (strong fairness of `SweeperTick(FALSE)`), and a gateway that is
asked about one link again and again answers in the end (strong fairness of
`FetchAnswered`). Nothing is assumed of requests, customers, deadlines or failures.

The other specifications have no fairness and claim safety only; that workers
finish and streams end in the end is left out for the cost of checking it at a size
where it would mean something (`StreamEnds` is the safety half: once the
flag is seen, the end is on its way and nothing loses it).

## 5. Proofs

Eight modules hold theorems, checked by TLAPS for all values of the constants: any
number of requests, workers, callers, links, rows, runs, editors and failures, any
policies, amounts and clock readings. Every safety invariant and every action
property of the passing runs is a theorem; each run shows it on a small
instance first.

| Theorem | States | Rests on |
|---|---|---|
| **RecoveryGraphProofs** | | |
| `TypeCorrect` | `TypeOK` | `TypeInv`: a run past its screening has a class (`ClassKnown`), because `diagnose` looks up a default by it; a busy request carries an event (`EventCarried`) |
| `OneRun` | `OneRunPerEvent` | `OneRunInv`: a request past its claim is the only one with its event, the event is claimed, the request holds the loop (`EventOwned`); an unclaimed event was not run (`NotYetRun`); a run before its dispatch has not acted (`NotYetActed`). Only `Claim` takes an event out of "unclaimed"; a crash drops the request and keeps the claim |
| `EscalationsSeen` | `EscalationHasTicket` | `TicketInv`: a run about to escalate has a ticket on file (`TicketFiled`): both ways there commit it first, and nothing deletes one |
| **RecoverySafetyProofs** | | |
| `QuietHoursKept` | `QuietHoursOnlyDefer` | `QuietInv`: what the gates say of a run is said of the hour it has read, and a run past its gates keeps that hour and its playbook |
| `ScreenKept` | `ScreenedNeverContacted` | `ScreenInv`: a run whose message stops or escalates is a worker's, and never past its screen |
| `SettledOnly` | `RecoveredBySettlement` | `SettleInv`: a run at its end has dispatched (`Dispatched`), so only a settlement closes a case |
| `DiagnosisHeld` | `NoOrphanedDiagnosis` | `HeldInv`: a case in DIAGNOSING is in some run's hands, up to a step that will write over it (`InHandOf`), the ORM's unwritten column included |
| `AuditTrails` | `AuditTrailsDispatch` | `AuditInv` with `FlightBound`: what is sent and not yet audited is in flight, and the loop admits one request beside one run for each worker |
| `VoiceCapped` | `VoiceOvershoot` | `SoloInv` (one run at a time works a transaction), `CapInv`: calls made and calls granted stay within the cap, the overlaps and the faults (`Bounded`), a run tells its call before it audits it (`Told`), and a row of `call/start` is followed by its call (`Placed`) |
| `InboxImplemented` | the safety part of `WebhookInbox` | `InboxInv`: `OneRunInv`, and the loop is held by a request that has been delivered. Each step of the endpoint is a step of the inbox or a stutter |
| **PolicyStoreProofs** | | |
| `StoreTyped` | `TypeOK` | `StoreInv`: a session holds a whole, valid row (`LoadedWhole`) |
| `EditsLand` | `DisjointEditsBothLand` | `EditsInv`: a session finds every column as it loaded it, or as an edit saved meanwhile names it (`Unshadowed`) |
| `OperatorsTighten` | `OnlyOperatorsTighten` | `StoreInv` |
| **SandboxRulesProofs** | | |
| `Monotone` | `LooseningIsMonotone` | `LowerFloor`: the arithmetic of the rounded percentage |
| **TurnDecisionProofs** | | |
| `CalmGoesOn`, `PromiseKept`, `DraftStands`, `AskStands` | `SuspicionNeverFrees`, `PromiseOnNamedDay`, `DraftFitsSandbox`, `OwnAskAccepted` | `TurnInv`: each stage of the turn is the function of the stage before it. The rest is arithmetic on percentages and days; of a written date, that its month is over, this one or to come (`FitsCalendar`) |
| **LiveSessionProofs** | | |
| `SessionTyped`, `TicketFirst`, `ThreadSorted` | `TypeOK`, `EscalatedHasTicket`, `ThreadInOrder` | `SessionInv`: types with the steps the poller has (`TypeInv`), what each process holds (`LocalInv`), and a number about to be written is above all of its author's and at most one above the last (`Threading`) |
| `StopIsKept` | `StopHolds` | `SessionInv`: at rest no process holds a decision made before the stop |
| `RingsAudited` | `CallsAudited` | `CallsInv`: calls offered, and those still owed one (`Owed`), are no more than the audits since the session began |
| `StreamSeesEnd` | `StreamEnds` | `StreamInv`: once the session is closed or terminal, the end is in the queue, among the callbacks, or with the thread that set the flag, or its stream has ended |
| **PaymentArtifactsProofs** | | |
| `TypeCorrect` | `TypeOK` | `TypeInv`: links not yet made are blank (`Unmade`) and each process stands on a row and a link that exist (`Placed`) |
| `ClosedUnpaid`, `OnlyMoneyCloses`, `PartLeavesOpen` | `NoPaidLinkClosed`, `ImplementsAccount` (the refinement of `CaseAccount`), `ClosedInFull` | `MoneyInv`: no link is paid beyond its amount (`LedgerOK`); what a row says was paid is backed by the ledger or by a simulated payment (`RowOK`); so is every answer in hand, however old (`TaskOK`) |
| `OneFollowUp` | `FollowUpsBounded` | `CountInv`: messages sent for a row are its mark, the message not yet marked, and the failures |
| `PaidNotChased` | `NeverChasedIfPaid` | `KnownInv`: with the session gone only the sweeper writes artifacts (`GoneInv`), so what it found settled when its tick began it still finds and writes as paid (`Known`) |
| `StraysCounted` | `StraysAccountedFor` | `StrayInv`: unwatched live links are no more than `leaks`; a request holds links that exist, and "expired" is said of expired links only (`HeldInv`) |
| **BatchRunProofs** | | |
| `SnapshotDecides` | `DecidedUnderSnapshot` | `BatchInv`: a worker's row, and later its result, is where the plan and the sandbox of its run put it, unless it was set by hand while its worker was at it (`Decided`); plan and sandbox stand once the run is posted (`PlanStands`); no worker starts before that (`Manned`) |
| `SummariesAgree` | `SummaryAgrees` | `BatchInv`: a complete run has told all that its workers returned (`Staged`), no row but its own carries its id (`RowsShaped`), and a returned worker's row is kept, deleted or taken over, and rewritten only by hand (`ReturnedStays`) |
| `MerchantBookKept` | `MerchantBookIntact` | `RowsShaped`: the merchant's rows carry no run but a live one; no janitor holds the id of a row without a run, and a pruning one holds none of the merchant's (`JansShaped`) |
| `PruneSpares` | `PruneSparesLive` | `JansShaped`: a pruning janitor's list never names the live run, whose rows are those of the live sessions |

How they are laid out: one lemma for each action or group of actions, under it one
step for each conjunct the action can disturb; then one lemma that puts `Next`
together; then the theorem. Where a component has many actions, a predicate says what a
step may do to one part (`Control` and `Locals` for a run of the graph, `CaseStep` and
`RunStep` for a case and a run of a batch, `Moved` for a process), is proved of every
action once, and all the invariants are proved from it.

Assumptions. The constants' own, each evaluated by TLC in every run of its module:

* `ProcsAssumption` (kinds of process are disjoint), `DataAssumption` (types, some
  transaction, some policy, a possible discount of 0), `FiniteAssumption` (finitely many
  workers and callers, so that those in flight can be counted);
* `RulesAssumption`, `PolicyAssumption`, `TurnAssumption`, `MoneyAssumption`:
  types;
* `LiveAssumption`: types, and finitely many requests;
* `BatchAssumption`: types, finitely many runs, and that each case belongs to one run:
  a case's id is made from its run's, which is random.

Three theorems assume something more of the constants, as stated in them:

* `DiagnosisHeld`: no operator sets a case to DIAGNOSING by hand. The code would
  let one (`set_status` takes any state), and such a case has no run.
* `StreamSeesEnd`: at most one request streams a session. Two tabs share one queue
  with one end marker, and the second would wait for ever.
* `VoiceCapped`: a worker's case has a transaction of its own (`FreshCases`).
  `scenario.py:350` and `:392` name it after the run. If a webhook's transaction
  were worked by a simulation too, two runs could be past the voice gate together.

What the proof attempts showed of the model: prunes were listed oldest first
where `store.py:89` sorts newest first (`Prune` now takes the stale runs in the order of
the list); the bound of `AuditTrailsDispatch` needs the number of processes to be
finite; that of `VoiceOvershoot` needs `FreshCases`.

Only model-checked, because the prover has no temporal reasoning with fairness or
`ENABLED`: `EveryDeliveryAnswered`, `EventWorked`, `OverdueHandled`, `PaidIsNoticed`,
and of `ImplementsInbox` the fairness half, that what is taken is put down
(`Inbox!Spec` is `Inbox!Safety` and that). What a recursive definition computes for
every input needs induction over data, which the prover lacks as well: the
apportionment of a scenario's mix (`Allocation`, `WeightedCycle`) is
exercised by `batch` for its scenarios only.

## 6. Not modelled

Components with status `not_modelled` in `PROJECT.json` keep no state the engine's
behaviour depends on (metrics, probability, drafting, wording, seeding, the frontend) or
run without overlap (`rate_limiter.py`: atomic in the event loop; it fails open when
the database raises, `server.py:133`). Of what is left out, this deserves a reader's
attention:

* **Live batch recovery** (`live_recovery.py:72-232`). One request drives one case
  through the gates. The audit sequence is cached and the case and its metadata are
  loaded at the start; the metadata is written whole at the end, over what others wrote
  meanwhile. A client that leaves abandons the generator with the case in DIAGNOSING or
  INTERVENING.
* **Live session.** Call turns: `ingest_turn` opens call rows without an audit row and
  numbers turns by counting; `call_web` uses the decision another thread may have just
  replaced. The read-modify-write of the metadata by reminders. `prune_sessions` only drops
  handles. Modelled but not claimed: `_finish` may write over `RECOVERED`, and
  `create_session` on a stopped case opens it again.
* **Batch.** The text readers of a run use keywords only unless diagnosis is live.
  `stops_early` (`scenario.py`) holds for any reply at all, so a case with a reply is
  never drawn to settle, while the plan says "Whether a customer actually pays is drawn
  against the model, not implied by what they said". A prune or a deletion can hit a run in
  progress, whose remaining workers then re-create part of it; between the reading of a run's
  ids and the deletion a live session may take a case over and lose it; `DELETE
  /runs/{id}` with the id of a live session deletes its rows. A live session on a merchant's
  own case stamps a run id on it, and the case leaves the merchant's figures.
  `MerchantBookIntact` states both as its exceptions. A language model's diagnosis is accepted at low
  confidence on the second attempt, where Jev's below one half goes to the class default;
  at the full tier the "stronger" retry is the same tier.
* **Payments.** An upfront part that is PAID is excluded from the sweeper although the
  balance is due; the balance is computed for one row; a part payment moves a case
  from RECOVERED to WAITING, and a balance of 0 or less moves it to RECOVERED even from
  ESCALATED or CANCELLED, as `payment_link_status` does; `create_payment_link` writes the
  metadata whole from a stale copy; the announcement says "clears the balance in full" of
  a PAID part with a balance due; one exception drops a whole tick of the sweeper.
  These are in the definitions; the properties say what holds in spite of them.
* **Turns.** The draft guard takes its floor of the total where the sandbox takes it of the
  smaller of total and ceiling, so the guard is the stricter of the two
  (`DraftFitsSandbox` is the direction that holds). A written date of this month
  whose day is over ("10/10" on 20 October) is booked in the past, and one of a month that
  is over nearly a year ahead (`MonthStart`): `PromiseOnNamedDay` says which of the two,
  and excludes both for every other way to name a day that a month can have.
* **Model tiers and triage** (`model_router.py`, `simulation/triage.py`). Which tier a
  call is raised to, and the reasons triage lists for a model call, choose a model and its cost and
  not what is done to a case.
* **Where some properties end.** `NeverChasedIfPaid` starts from a payment that
  was there when the tick began; `StopHolds` leaves a tool the client names free
  to move a stopped case, as the code does; `PruneSparesLive` is about the moment a
  prune reads its ids; `EscalationHasTicket` exempts an operator between the state
  and the ticket (`transaction_api.py:577`), where a crash leaves none.
* **Overrides of a run** cannot lift a ceiling: `None` means "not set".

## 7. What is left

* Model `live_recovery.run_recovery` beside `RecoveryGraph`, with its stale metadata.
* Call turns and reminders in `LiveSession`.
* Prove the temporal properties' safety lemmas (what is enabled whenever a delivery is
  unanswered), so that only the last step of each liveness argument rests on TLC.
* Prove that `WeightedCycle` shares out exactly its count, for a fixed number of kinds.
