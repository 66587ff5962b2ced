---------------------------- MODULE RecoveryGraph ----------------------------
(***************************************************************************)
(* The durable recovery engine: the webhook handler, the LangGraph nodes it*)
(* drives (ingest, diagnose, wait, execute, reconcile), and the actors that*)
(* share the database with them.                                           *)
(*                                                                         *)
(*  - Requests are webhook requests in flight.  The handler is a coroutine *)
(*    that never awaits once it has the body, so from claim_event to the   *)
(*    response it holds the event loop; its dependencies (the session and  *)
(*    the policy snapshot) were resolved earlier, in the thread pool.      *)
(*  - Cases are runs of the same graph by the simulation runner, each in a *)
(*    worker thread with a session, a policy and inputs of its own.        *)
(*  - Calls are POST .../call/start requests and Operators are POST        *)
(*    .../status requests, both in the thread pool.                        *)
(*                                                                         *)
(* Every db.commit() is a step of its own: another actor may run, or the   *)
(* process may stop, between any two, and any of them may fail.  Rows that *)
(* nothing reads back (audit rows other than dispatches) are left out.     *)
(***************************************************************************)
EXTENDS PolicySandbox, FiniteSets

CONSTANTS
  Events,        \* gateway event ids
  Txns,          \* transaction ids
  Requests, Cases, Calls, Operators,   \* the processes above
  Mail,          \* Events -> what the event says
  CaseTxn,       \* Cases -> the transaction the runner inserts for the case
  CaseInputs,    \* the initial graph states the scenario planner builds
  Amount,        \* Txns -> amount in minor units
  RetryCount,    \* Txns -> retry_count, which the engine reads, never writes
  Policies,      \* the merchant rows an operator saves
  Advice,        \* playbooks the models may recommend; {} when none answers
  Discounts,     \* discounts they may propose with one
  HandSet,       \* the statuses operators set
  Hours, Days,   \* clock readings: hours of the day, days of the month
  MaxDeliveries, \* bound: deliveries of one event by the gateway
  MaxFaults,    \* bound: process crashes and failed database calls together
  MaxEdits       \* bound: policy edits

Graphs   == Requests \cup Cases
Procs    == Graphs \cup Calls \cup Operators
Origins  == Events \cup Cases
NoProc   == "no process"
NoEvent  == "no event"
Unset    == -1
Absent   == "ABSENT"
Statuses == LifecycleStates \cup {Absent}

\* What a graph run is invoked with besides its transaction: how the customer's
\* message is read, the gateway outcome, and the runner's overrides.
InputType == [message  : {"CONTINUE", "TERMINATE", "ESCALATE"},
              outcome  : SettlementEvents \cup {"payment.failed", "NONE"},
              voice    : Nat \cup {Unset},
              playbook : Playbooks \cup {"NONE"},
              hour     : HoursOfDay \cup {Unset},
              class    : FailureClasses]
Webhook == [message |-> "CONTINUE", outcome |-> "NONE", voice |-> Unset,
            playbook |-> "NONE", hour |-> Unset, class |-> 1]
Signal  == [txn : Txns, type : EventTypes, code : ErrorCodes]

ASSUME ProcsAssumption ==
  /\ Requests \cap (Cases \cup Calls \cup Operators) = {}
  /\ Cases \cap (Calls \cup Operators \cup Events) = {}
  /\ Calls \cap Operators = {}
  /\ NoProc \notin Procs /\ NoEvent \notin Origins

ASSUME DataAssumption ==
  /\ Txns # {} /\ Mail \in [Events -> Signal] /\ CaseTxn \in [Cases -> Txns]
  /\ CaseInputs \subseteq InputType
  /\ Amount \in [Txns -> Nat] /\ RetryCount \in [Txns -> Nat]
  /\ Policies \subseteq PolicyType(Nat) /\ Policies # {}
  /\ Advice \subseteq Playbooks /\ Discounts \subseteq 0..100 /\ 0 \in Discounts
  /\ HandSet \subseteq LifecycleStates
  /\ Hours \subseteq HoursOfDay /\ Hours # {} /\ Days \subseteq 1..31 /\ Days # {}
  /\ MaxDeliveries \in Nat /\ MaxFaults \in Nat /\ MaxEdits \in Nat

\* A batch has so many workers, and so many calls are ever started.
ASSUME FiniteAssumption == IsFiniteSet(Cases) /\ IsFiniteSet(Calls)

VARIABLES
  policy,      \* the merchant_policy row
  claimed,     \* processed_events
  state,       \* Txns -> current_state, Absent when there is no row
  class,       \* Txns -> failure_class, 0 when there is no row
  tickets,     \* Txns -> number of escalation_queue rows
  audited,     \* Txns -> Actions -> dispatch rows the graph wrote
  callRows,    \* Txns -> dispatch rows call/start wrote
  placed,      \* Txns -> call_sessions rows
  sent,        \* Txns -> Actions -> dispatches handed to an adapter
  delivered,   \* Events -> deliveries the gateway has made
  answered,    \* Events -> the gateway holds a 2xx answer
  loop,        \* the request that holds the event loop
  pc, job,     \* Procs -> next step; the locals of that process
  runs, acts,  \* history: graph runs and dispatches, by Origins
  overlaps,    \* history: Txns -> voice gates passed while another call was under way
  faults, edits

caseVars == <<state, class, tickets>>
callVars == <<callRows, placed, overlaps>>
netVars  == <<delivered, answered, loop>>
envVars  == <<policy, faults, edits>>
vars     == <<caseVars, callVars, netVars, envVars, claimed, audited, sent, pc, job,
              runs, acts>>
-----------------------------------------------------------------------------
NoPolicy == [actions |-> {}, channels |-> {}, maxDiscount |-> 0, ceiling |-> None,
             partial |-> FALSE, minPct |-> 0]
NoJob == [event |-> NoEvent, txn |-> CHOOSE t \in Txns : TRUE, input |-> Webhook,
          policy |-> NoPolicy, class |-> 0, retries |-> 0, playbook |-> "NONE",
          discount |-> 0, months |-> 0, hour |-> 12, seen |-> Absent]
JobType == [event : Origins \cup {NoEvent}, txn : Txns, input : InputType,
            policy : PolicyType(Nat), class : 0..4, retries : Nat,
            playbook : Playbooks \cup {"NONE"}, discount : 0..100,
            months : 0..1, hour : HoursOfDay, seen : Statuses]

NodeSteps == {"ingest", "screen", "diagnose", "wait", "execute", "defer", "stop",
              "refuse", "escalate", "approve", "dispatch", "record", "reconcile"}
Steps == NodeSteps \cup {"idle", "queued", "upsert", "respond", "done", "ticket",
                         "callRecord", "callPlace"}

Act(f)  == PlaybookAction[job[f].playbook]
Chan(f) == PlaybookChannel[job[f].playbook]
VoiceAttempts(t) == audited[t]["VOICE_CALL"] + callRows[t]

\* The runs and callers that are past the voice gate for t and not yet counted in
\* VoiceAttempts(t); a gate passed now does not see them.
Dialling(t) ==
  {x \in Graphs \cup Calls :
     /\ job[x].txn = t
     /\ \/ x \in Graphs /\ pc[x] \in {"approve", "dispatch", "record"} /\ Act(x) = "VOICE_CALL"
        \/ x \in Calls /\ pc[x] = "callRecord"}
NoteOverlap(t, granted) ==
  overlaps' = IF granted /\ Dialling(t) # {} THEN [overlaps EXCEPT ![t] = @ + 1]
              ELSE overlaps

At(f, step)    == pc[f] = step
Goto(f, step)  == pc' = [pc EXCEPT ![f] = step]
Put(t, status) == state' = [state EXCEPT ![t] = status]
Enqueue(t)     == tickets' = [tickets EXCEPT ![t] = @ + 1]
\* Mutant of Ended: a run that ends without answering the request.
EndedUnanswered(f) == "done"
Ended(f)       == IF f \in Requests THEN "respond" ELSE "done"

Init ==
  /\ policy \in {Backfilled(p) : p \in Policies}
  /\ claimed = {}
  /\ state = [t \in Txns |-> Absent] /\ class = [t \in Txns |-> 0]
  /\ tickets = [t \in Txns |-> 0]
  /\ audited = [t \in Txns |-> [a \in Actions |-> 0]]
  /\ sent = [t \in Txns |-> [a \in Actions |-> 0]]
  /\ callRows = [t \in Txns |-> 0] /\ placed = [t \in Txns |-> 0]
  /\ overlaps = [t \in Txns |-> 0]
  /\ delivered = [e \in Events |-> 0] /\ answered = [e \in Events |-> FALSE]
  /\ loop = NoProc
  /\ pc = [f \in Procs |-> "idle"] /\ job = [f \in Procs |-> NoJob]
  /\ runs = [o \in Origins |-> 0] /\ acts = [o \in Origins |-> 0]
  /\ faults = 0 /\ edits = 0
-----------------------------------------------------------------------------
(* The webhook handler.                                                    *)

\* A delivery reaches the server: signature and id are good, and the session
\* and sandbox dependencies are resolved before the handler body is scheduled.
Deliver(r, e) ==
  /\ At(r, "idle") /\ delivered[e] < MaxDeliveries
  /\ delivered' = [delivered EXCEPT ![e] = @ + 1]
  /\ job' = [job EXCEPT ![r] = [NoJob EXCEPT !.event = e, !.txn = Mail[e].txn,
                                             !.policy = policy]]
  /\ Goto(r, "queued")
  /\ UNCHANGED <<caseVars, callVars, envVars, claimed, audited, sent, answered, loop,
                 runs, acts>>

\* The unique constraint on the event id.
\* Mutant of Unclaimed: the constraint is missing.
UnclaimedAlways(e) == TRUE
Unclaimed(e) == e \notin claimed

\* Mutant of Claim: a handler that awaits, so another runs in the middle of it.
ClaimConcurrently(r) ==
  /\ At(r, "queued") /\ Unclaimed(job[r].event)
  /\ claimed' = claimed \cup {job[r].event}
  /\ loop' = r
  /\ Goto(r, "upsert")
  /\ UNCHANGED <<caseVars, callVars, envVars, audited, sent, delivered, answered, job,
                 runs, acts>>

Claim(r) ==
  /\ At(r, "queued") /\ loop = NoProc /\ Unclaimed(job[r].event)
  /\ claimed' = claimed \cup {job[r].event}
  /\ loop' = r
  /\ Goto(r, "upsert")
  /\ UNCHANGED <<caseVars, callVars, envVars, audited, sent, delivered, answered, job,
                 runs, acts>>

AnswerDuplicate(r) ==
  /\ At(r, "queued") /\ loop = NoProc /\ ~Unclaimed(job[r].event)
  /\ answered' = [answered EXCEPT ![job[r].event] = TRUE]
  /\ Goto(r, "idle") /\ job' = [job EXCEPT ![r] = NoJob]
  /\ UNCHANGED <<caseVars, callVars, envVars, claimed, audited, sent, delivered, loop,
                 runs, acts>>

ClassOf(e) == Classify(Mail[e].type, Mail[e].code)

\* Mutant of RejectUnmapped: the rejection leaves the event loop blocked.
RejectBlocked(r) ==
  /\ At(r, "upsert") /\ ClassOf(job[r].event) = Unmapped
  /\ Goto(r, "idle") /\ job' = [job EXCEPT ![r] = NoJob]
  /\ UNCHANGED <<caseVars, callVars, netVars, envVars, claimed, audited, sent, runs,
                 acts>>

RejectUnmapped(r) ==   \* answered 422: not a success to the gateway
  /\ At(r, "upsert") /\ ClassOf(job[r].event) = Unmapped
  /\ loop' = NoProc
  /\ Goto(r, "idle") /\ job' = [job EXCEPT ![r] = NoJob]
  /\ UNCHANGED <<caseVars, callVars, envVars, claimed, audited, sent, delivered,
                 answered, runs, acts>>

Upsert(r) ==
  LET e == job[r].event
      t == job[r].txn
  IN /\ At(r, "upsert") /\ ClassOf(e) # Unmapped
     /\ class' = [class EXCEPT ![t] = ClassOf(e)]
     /\ state' = [state EXCEPT ![t] = IF @ = Absent THEN "PENDING" ELSE @]
     /\ runs' = [runs EXCEPT ![e] = @ + 1]
     /\ Goto(r, "ingest")
     /\ UNCHANGED <<tickets, callVars, netVars, envVars, claimed, audited, sent, job,
                    acts>>

Respond(r) ==
  /\ At(r, "respond")
  /\ loop' = NoProc
  /\ answered' = [answered EXCEPT ![job[r].event] = TRUE]
  /\ Goto(r, "idle") /\ job' = [job EXCEPT ![r] = NoJob]
  /\ UNCHANGED <<caseVars, callVars, envVars, claimed, audited, sent, delivered, runs,
                 acts>>

\* The simulation runner's worker inserts the case, whose id is new, and invokes
\* the graph.
StartCase(c, in, p) ==
  /\ At(c, "idle") /\ state[CaseTxn[c]] = Absent
  /\ state' = [state EXCEPT ![CaseTxn[c]] = "PENDING"]
  /\ class' = [class EXCEPT ![CaseTxn[c]] = in.class]
  /\ job' = [job EXCEPT ![c] = [NoJob EXCEPT !.event = c, !.txn = CaseTxn[c],
                                             !.input = in, !.policy = p]]
  /\ runs' = [runs EXCEPT ![c] = @ + 1]
  /\ Goto(c, "ingest")
  /\ UNCHANGED <<tickets, callVars, netVars, envVars, claimed, audited, sent, acts>>
-----------------------------------------------------------------------------
(* The graph's nodes, for any run f.                                       *)

NodeFrame == UNCHANGED <<callVars, netVars, envVars, claimed, runs>>
NoEffect  == UNCHANGED <<audited, sent, acts>>

Ingest(f) ==
  /\ At(f, "ingest")
  /\ Put(job[f].txn, "DIAGNOSING")
  /\ Goto(f, "screen")
  /\ UNCHANGED <<class, tickets, job>> /\ NodeFrame /\ NoEffect

ScreenTerminate(f) ==
  /\ At(f, "screen") /\ job[f].input.message = "TERMINATE"
  /\ Put(job[f].txn, "CANCELLED")
  /\ Goto(f, Ended(f))
  /\ UNCHANGED <<class, tickets, job>> /\ NodeFrame /\ NoEffect

ScreenEscalate(f) ==
  /\ At(f, "screen") /\ job[f].input.message = "ESCALATE"
  /\ Enqueue(job[f].txn)
  /\ Goto(f, "escalate")
  /\ UNCHANGED <<state, class, job>> /\ NodeFrame /\ NoEffect

\* Mutant of ScreenContinue: only an opt-out stops the run, a dispute does not.
ScreenContinueDisputed(f) ==
  /\ At(f, "screen") /\ job[f].input.message # "TERMINATE"
  /\ job' = [job EXCEPT ![f].class = class[job[f].txn],
                        ![f].retries = RetryCount[job[f].txn]]
  /\ Goto(f, "diagnose")
  /\ UNCHANGED caseVars /\ NodeFrame /\ NoEffect

ScreenContinue(f) ==
  /\ At(f, "screen") /\ job[f].input.message = "CONTINUE"
  /\ job' = [job EXCEPT ![f].class = class[job[f].txn],
                        ![f].retries = RetryCount[job[f].txn]]
  /\ Goto(f, "diagnose")
  /\ UNCHANGED caseVars /\ NodeFrame /\ NoEffect

\* Advice from Jev or an LLM, the class default when neither answers, is unsure or
\* names no playbook, and the scenario's pinned playbook over both.
Diagnose(f) ==
  /\ At(f, "diagnose")
  /\ \E p \in Advice \cup {DefaultPlaybook[job[f].class]}, d \in Discounts :
       LET chosen == IF job[f].input.playbook = "NONE" THEN p ELSE job[f].input.playbook
       IN /\ d # 0 => Advice # {}
          /\ job' = [job EXCEPT ![f].playbook = chosen, ![f].discount = d]
          /\ Goto(f, IF chosen = "SALARY_CYCLE_SEQUENCER" THEN "wait" ELSE "execute")
  /\ UNCHANGED caseVars /\ NodeFrame /\ NoEffect

Wait(f) ==
  /\ At(f, "wait")
  /\ Put(job[f].txn, "WAITING")
  /\ \E day \in Days : job' = [job EXCEPT ![f].months = SalaryMonthsAhead(day)]
  /\ Goto(f, "execute")
  /\ UNCHANGED <<class, tickets>> /\ NodeFrame /\ NoEffect

Proposal(f) == WholeAmount(Act(f), Chan(f), job[f].discount, Amount[job[f].txn])

VoiceCount(f) == IF job[f].input.voice = Unset THEN VoiceAttempts(job[f].txn)
                 ELSE job[f].input.voice

Quieted(f, hour) == Chan(f) # NoChannel /\ IsWithinQuietHours(hour)
Capped(f) == \/ Act(f) = "RETRY_CHARGE" /\ RetryCapExceeded(job[f].retries, RbiMaxRetries)
             \/ Chan(f) = "VOICE" /\ VoiceAttemptsExhausted(VoiceCount(f))

\* Mutant of GateVerdict: the caps are consulted before the clock.
GateVerdictCapsFirst(f, hour) ==
  CASE Capped(f)                                         -> "stop"
    [] ~Capped(f) /\ Quieted(f, hour)                    -> "defer"
    [] ~Capped(f) /\ ~Quieted(f, hour)
         /\ ~Approves(job[f].policy, Proposal(f))        -> "refuse"
    [] OTHER                                             -> "approve"

GateVerdict(f, hour) ==
  CASE Quieted(f, hour)                                 -> "defer"
    [] ~Quieted(f, hour) /\ Capped(f)                   -> "stop"
    [] ~Quieted(f, hour) /\ ~Capped(f)
         /\ ~Approves(job[f].policy, Proposal(f))       -> "refuse"
    [] OTHER                                            -> "approve"

\* execute reads everything its gates need, and only then writes.
Execute(f) ==
  /\ At(f, "execute")
  /\ \E h \in Hours :
       LET hour == IF job[f].input.hour = Unset THEN h ELSE job[f].input.hour
       IN /\ job' = [job EXCEPT ![f].hour = hour, ![f].seen = state[job[f].txn]]
          /\ Goto(f, GateVerdict(f, hour))
          /\ NoteOverlap(job[f].txn,
                         Act(f) = "VOICE_CALL" /\ GateVerdict(f, hour) = "approve")
  /\ UNCHANGED <<caseVars, callRows, placed, netVars, envVars, claimed, runs>> /\ NoEffect

Settle(f, step, status, next) ==
  /\ At(f, step)
  /\ Put(job[f].txn, Flush(job[f].seen, status, state[job[f].txn]))
  /\ Goto(f, next)
  /\ UNCHANGED <<class, tickets, job>> /\ NodeFrame /\ NoEffect

\* Mutant of Defer: the deferral is reported but not written.
DeferUnwritten(f) ==
  /\ At(f, "defer")
  /\ Goto(f, Ended(f))
  /\ UNCHANGED <<caseVars, job>> /\ NodeFrame /\ NoEffect

Defer(f)   == Settle(f, "defer", "WAITING", Ended(f))
Stop(f)    == Settle(f, "stop", "CANCELLED", Ended(f))
Approve(f) == Settle(f, "approve", "INTERVENING", "dispatch")

\* Mutant of Refuse: a refusal that nobody is told of.
RefuseUnfiled(f) ==
  /\ At(f, "refuse")
  /\ Goto(f, "escalate")
  /\ UNCHANGED <<caseVars, job>> /\ NodeFrame /\ NoEffect

Refuse(f) ==
  /\ At(f, "refuse")
  /\ Enqueue(job[f].txn)
  /\ Goto(f, "escalate")
  /\ UNCHANGED <<state, class, job>> /\ NodeFrame /\ NoEffect

Escalate(f) ==
  /\ At(f, "escalate")
  /\ Put(job[f].txn, "ESCALATED")
  /\ Goto(f, Ended(f))
  /\ UNCHANGED <<class, tickets, job>> /\ NodeFrame /\ NoEffect

Dispatch(f) ==
  /\ At(f, "dispatch")
  /\ sent' = [sent EXCEPT ![job[f].txn][Act(f)] = @ + 1]
  /\ acts' = [acts EXCEPT ![job[f].event] = @ + 1]
  /\ Goto(f, "record")
  /\ UNCHANGED <<caseVars, job, audited>> /\ NodeFrame

\* Mutant of Record: the dispatch is not audited.
RecordNothing(f) ==
  /\ At(f, "record")
  /\ Goto(f, "reconcile")
  /\ UNCHANGED <<caseVars, job>> /\ NodeFrame /\ NoEffect

Record(f) ==
  /\ At(f, "record")
  /\ audited' = [audited EXCEPT ![job[f].txn][Act(f)] = @ + 1]
  /\ Goto(f, "reconcile")
  /\ UNCHANGED <<caseVars, job, sent, acts>> /\ NodeFrame

\* Mutant of Settled: any outcome closes the case.
SettledByAny(f) == job[f].input.outcome # "NONE"
Settled(f) == job[f].input.outcome \in SettlementEvents

Reconcile(f) ==
  /\ At(f, "reconcile")
  /\ IF Settled(f) THEN Put(job[f].txn, "RECOVERED") ELSE UNCHANGED state
  /\ Goto(f, Ended(f))
  /\ UNCHANGED <<class, tickets, job>> /\ NodeFrame /\ NoEffect

Node(f) ==
  \/ Ingest(f) \/ ScreenTerminate(f) \/ ScreenEscalate(f) \/ ScreenContinue(f)
  \/ Diagnose(f) \/ Wait(f) \/ Execute(f)
  \/ Defer(f) \/ Stop(f) \/ Refuse(f) \/ Escalate(f) \/ Approve(f)
  \/ Dispatch(f) \/ Record(f) \/ Reconcile(f)
-----------------------------------------------------------------------------
(* The thread pool: call/start, operator status changes, policy edits.     *)

SideFrame == UNCHANGED <<netVars, envVars, claimed, audited, sent, runs, acts>>

\* Mutant of CallVerdict: the call is started without a look at the cap.
CallVerdictUncapped(t, hour) ==
  CASE \/ IsWithinQuietHours(hour)
       \/ RetryCapExceeded(RetryCount[t], RbiMaxRetries) -> "done"
    [] OTHER ->
       IF Approves(policy, WholeAmount("VOICE_CALL", "VOICE", 0, Amount[t]))
       THEN "callRecord" ELSE "ticket"

CallVerdict(t, hour) ==
  CASE \/ IsWithinQuietHours(hour)
       \/ RetryCapExceeded(RetryCount[t], RbiMaxRetries)
       \/ VoiceAttemptsExhausted(VoiceAttempts(t))       -> "done"
    [] OTHER ->
       IF Approves(policy, WholeAmount("VOICE_CALL", "VOICE", 0, Amount[t]))
       THEN "callRecord" ELSE "ticket"

CallGate(c, t) ==
  /\ At(c, "idle") /\ state[t] # Absent
  /\ \E h \in Hours : /\ Goto(c, CallVerdict(t, h))
                      /\ NoteOverlap(t, CallVerdict(t, h) = "callRecord")
  /\ job' = [job EXCEPT ![c].txn = t]
  /\ UNCHANGED <<caseVars, callRows, placed>> /\ SideFrame

CallRecord(c) ==
  /\ At(c, "callRecord")
  /\ callRows' = [callRows EXCEPT ![job[c].txn] = @ + 1]
  /\ Goto(c, "callPlace")
  /\ UNCHANGED <<caseVars, placed, overlaps, job>> /\ SideFrame

CallPlace(c) ==
  /\ At(c, "callPlace")
  /\ placed' = [placed EXCEPT ![job[c].txn] = @ + 1]
  /\ Goto(c, "done")
  /\ UNCHANGED <<caseVars, callRows, overlaps, job>> /\ SideFrame

SetStatus(o, t, s) ==
  /\ At(o, "idle") /\ state[t] # Absent
  /\ Put(t, s)
  /\ Goto(o, IF s = "ESCALATED" THEN "ticket" ELSE "done")
  /\ job' = [job EXCEPT ![o].txn = t]
  /\ UNCHANGED <<class, tickets, callVars>> /\ SideFrame

\* The ticket of an operator's escalation, or of a call the policy refused.
FileTicket(x) ==
  /\ At(x, "ticket")
  /\ Enqueue(job[x].txn)
  /\ Goto(x, "done")
  /\ UNCHANGED <<state, class, callVars, job>> /\ SideFrame

EditPolicy(p) ==
  /\ edits < MaxEdits
  /\ policy' = p /\ edits' = edits + 1
  /\ UNCHANGED <<caseVars, callVars, netVars, claimed, audited, sent, pc, job, runs,
                 acts, faults>>

\* A database call raises (the file stays locked past the busy timeout): the request
\* is answered 500, the worker or the operator's request ends where it is.  What it
\* had committed stays; a webhook request gives the event loop back.
Fail(x) ==
  /\ faults < MaxFaults
  /\ pc[x] \notin {"idle", "done"} /\ (At(x, "queued") => loop = NoProc)
  /\ faults' = faults + 1
  /\ loop' = IF loop = x THEN NoProc ELSE loop
  /\ Goto(x, IF x \in Requests THEN "idle" ELSE "done")
  /\ job' = [job EXCEPT ![x] = IF x \in Requests THEN NoJob ELSE @]
  /\ UNCHANGED <<caseVars, callVars, policy, edits, claimed, audited, sent, delivered,
                 answered, runs, acts>>

\* The process stops and starts again: every request, worker and thread is gone,
\* what was committed stays.
Crash ==
  /\ faults < MaxFaults
  /\ faults' = faults + 1
  /\ policy' = Backfilled(policy)
  /\ loop' = NoProc
  /\ pc' = [f \in Procs |-> IF pc[f] = "idle" \/ f \in Requests THEN "idle" ELSE "done"]
  /\ job' = [f \in Procs |-> IF f \in Requests THEN NoJob ELSE job[f]]
  /\ UNCHANGED <<caseVars, callVars, claimed, audited, sent, delivered, answered, runs,
                 acts, edits>>
-----------------------------------------------------------------------------
Handler(r) == Claim(r) \/ AnswerDuplicate(r) \/ RejectUnmapped(r) \/ Upsert(r)
              \/ Respond(r)

Next ==
  \/ \E r \in Requests, e \in Events : Deliver(r, e)
  \/ \E r \in Requests : Handler(r)
  \/ \E c \in Cases, in \in CaseInputs, p \in Policies : StartCase(c, in, p)
  \/ \E f \in Graphs : Node(f)
  \/ \E c \in Calls, t \in Txns : CallGate(c, t)
  \/ \E c \in Calls : CallRecord(c) \/ CallPlace(c)
  \/ \E o \in Operators, t \in Txns, s \in HandSet : SetStatus(o, t, s)
  \/ \E x \in Calls \cup Operators : FileTicket(x)
  \/ \E p \in Policies : EditPolicy(p)
  \/ \E x \in Procs : Fail(x)
  \/ Crash

Spec == Init /\ [][Next]_vars

\* The event loop runs a scheduled handler, and a started handler, worker or
\* thread keeps running; nothing obliges a gateway, an operator or a caller.
Fairness ==
  /\ \A r \in Requests : WF_vars(Handler(r) \/ Node(r))
  /\ \A c \in Cases : WF_vars(Node(c))
  /\ \A c \in Calls : WF_vars(CallRecord(c) \/ CallPlace(c) \/ FileTicket(c))
  /\ \A o \in Operators : WF_vars(FileTicket(o))

FairSpec == Spec /\ Fairness
-----------------------------------------------------------------------------
(* What the engine keeps.                                                  *)

TypeOK ==
  /\ policy \in PolicyType(Nat)
  /\ claimed \subseteq Events
  /\ state \in [Txns -> Statuses] /\ class \in [Txns -> 0..4]
  /\ tickets \in [Txns -> Nat]
  /\ audited \in [Txns -> [Actions -> Nat]] /\ sent \in [Txns -> [Actions -> Nat]]
  /\ callRows \in [Txns -> Nat] /\ placed \in [Txns -> Nat]
  /\ overlaps \in [Txns -> Nat]
  /\ delivered \in [Events -> Nat] /\ answered \in [Events -> BOOLEAN]
  /\ loop \in Requests \cup {NoProc}
  /\ pc \in [Procs -> Steps] /\ job \in [Procs -> JobType]
  /\ runs \in [Origins -> Nat] /\ acts \in [Origins -> Nat]
  /\ faults \in Nat /\ edits \in Nat

\* However often the gateway delivers an event, and wherever the process stops
\* and starts again, the graph runs for it at most once and contacts the
\* customer (or charges) for it at most once.
OneRunPerEvent == \A o \in Origins : acts[o] <= runs[o] /\ runs[o] <= 1

\* A case never becomes ESCALATED without a ticket a person will see: the engine
\* files it before it writes the state, and only an operator's own escalation
\* writes the state first.
EscalationHasTicket ==
  [][\A t \in Txns : state'[t] = "ESCALATED" /\ state[t] # "ESCALATED" =>
       \/ tickets[t] > 0
       \/ \E o \in Operators : pc'[o] = "ticket" /\ job'[o].txn = t]_vars

\* The engine moves a case to RECOVERED only on a recognised settlement, and in a
\* run that dispatched an intervention: a run that was deferred, stopped or
\* escalated closes nothing, whatever outcome it was given.
RecoveredBySettlement ==
  [][\A t \in Txns : state'[t] = "RECOVERED" /\ state[t] # "RECOVERED" =>
       \/ \E o \in Operators : pc[o] # pc'[o] /\ job'[o].txn = t
       \/ \E f \in Graphs : /\ pc[f] # pc'[f] /\ job[f].txn = t
                            /\ job[f].input.outcome \in SettlementEvents
                            /\ acts[job[f].event] > 0]_vars

\* An opt-out or a dispute in the customer's message is screened before any
\* model runs: whatever the models advise, the run never contacts the customer.
ScreenedNeverContacted ==
  \A f \in Graphs : job[f].input.message # "CONTINUE" => acts[job[f].event] = 0

\* In quiet hours a proposed contact is deferred and nothing else: the caps and
\* the policy are not consulted, so the case is neither cancelled nor escalated,
\* and nobody is contacted.
QuietHoursOnlyDefer ==
  \A f \in Graphs :
    /\ pc[f] \in {"stop", "refuse", "approve", "dispatch", "record"}
    /\ Chan(f) # NoChannel
    => ~IsWithinQuietHours(job[f].hour)

InFlight(t, a) == {f \in Graphs : pc[f] = "record" /\ job[f].txn = t /\ Act(f) = a}

\* The dispatch rows the caps are counted from trail what was really sent by the
\* dispatches in flight, and by the one the request (and each worker) may lose
\* in a crash, or in a failed commit, between the adapter call and its audit row.
AuditTrailsDispatch ==
  \A t \in Txns, a \in Actions :
    /\ audited[t][a] + Cardinality(InFlight(t, a)) <= sent[t][a]
    /\ sent[t][a] <= audited[t][a] + Cardinality(InFlight(t, a))
                       + faults * (1 + Cardinality(Cases))

\* The voice cap is checked before it is spent, and nothing holds an attempt between
\* the check and its row.  Without seeded counts a customer is called beyond the cap
\* only as often as a gate was passed while another call was still without its row,
\* and as crashes and failed commits lost rows of calls already made: callers that
\* come one after the other, graph and call/start alike, never exceed it.
VoiceOvershoot ==
  \A t \in Txns : (\A in \in CaseInputs : in.voice = Unset) =>
    sent[t]["VOICE_CALL"] + placed[t] <= VoiceAttemptCap + overlaps[t] + faults

\* Until the process stops or a commit fails, a case in DIAGNOSING is in some run's hands.
NoOrphanedDiagnosis ==
  \A t \in Txns : faults = 0 /\ state[t] = "DIAGNOSING" =>
    \E f \in Graphs : pc[f] \in NodeSteps /\ job[f].txn = t

\* Every delivery that is not lost with the process is answered, whatever else
\* is queued behind the same event loop.
EveryDeliveryAnswered ==
  \A r \in Requests : pc[r] = "queued" ~> pc[r] = "idle"

\* Unless the process stops or a commit fails, an event the engine can classify is
\* worked and answered, and its case is left by the run in a state it chose.
EventWorked ==
  \A e \in Events : ClassOf(e) # Unmapped /\ delivered[e] > 0 ~>
    \/ /\ answered[e] /\ runs[e] = 1
       /\ state[Mail[e].txn] \notin {Absent, "PENDING"}
    \/ faults > 0

\* The endpoint implements the inbox: one event in hand at a time, each taken
\* once, acted on at most once and only while in hand, always put down.
InHand == IF loop = NoProc THEN NoEvent ELSE job[loop].event
Stage(e) == CASE acts[e] > 0                             -> "acted"
              [] acts[e] = 0 /\ InHand = e               -> "taken"
              [] acts[e] = 0 /\ InHand # e /\ e \in claimed -> "closed"
              [] OTHER                                   -> "new"
Inbox == INSTANCE WebhookInbox WITH stage <- [e \in Events |-> Stage(e)],
                                    inHand <- InHand
ImplementsInbox == Inbox!Spec
=============================================================================
