------------------------ MODULE RecoverySafetyProofs ------------------------
(***************************************************************************)
(* What the engine never does to a customer or to a case, for any number   *)
(* of requests, workers, callers, failures and crashes: contact a screened *)
(* customer, act in quiet hours, close a case without a settlement, or     *)
(* leave one in DIAGNOSING that no run has in hand; what its counts of     *)
(* dispatches and calls can miss; and the inbox that its endpoint is.      *)
(***************************************************************************)
EXTENDS RecoveryGraphProofs, FiniteSetTheorems

USE DEF caseVars, callVars, netVars, envVars, At, Goto, Put, Enqueue, NodeFrame, NoEffect,
        SideFrame

\* The order of the nodes, and what a step of a run may change of its locals.
Control(f) ==
  /\ pc[f] \in NodeSteps
  /\ pc[f] = "ingest" => pc'[f] = "screen"
  /\ pc[f] = "screen" => \/ pc'[f] \in {Ended(f), "escalate"}
                         \/ pc'[f] = "diagnose" /\ job[f].input.message = "CONTINUE"
  /\ pc[f] = "diagnose" => pc'[f] \in {"wait", "execute"}
  /\ pc[f] = "wait" => pc'[f] = "execute"
  /\ pc[f] = "execute" => pc'[f] = GateVerdict(f, job'[f].hour)
  /\ pc[f] = "refuse" => pc'[f] = "escalate"
  /\ pc[f] = "approve" => pc'[f] = "dispatch"
  /\ pc[f] = "dispatch" => pc'[f] = "record"
  /\ pc[f] = "record" => pc'[f] = "reconcile"
  /\ pc[f] \in {"defer", "stop", "escalate", "reconcile"} => pc'[f] = Ended(f)

Locals(f) ==
  /\ job'[f].txn = job[f].txn /\ job'[f].event = job[f].event
  /\ job'[f].input = job[f].input
  /\ pc[f] # "diagnose" => job'[f].playbook = job[f].playbook
  /\ IF pc[f] = "execute" THEN job'[f].seen = state[job[f].txn]
     ELSE job'[f].seen = job[f].seen /\ job'[f].hour = job[f].hour

LEMMA NodeMoves ==
  ASSUME TypeInv, NEW f \in Graphs, Node(f)
  PROVE  /\ Control(f) /\ Locals(f) /\ faults' = faults /\ runs' = runs
         /\ \A g \in Procs \ {f} : pc'[g] = pc[g] /\ job'[g] = job[g]
<1> USE GraphsAreProcs
<1>1. /\ job[f] \in JobType /\ pc[f] \in Steps /\ f \in Procs
      /\ pc \in [Procs -> Steps] /\ job \in [Procs -> JobType]
  BY DEF TypeInv, TypeOK
<1>2. CASE \/ Ingest(f) \/ ScreenTerminate(f) \/ ScreenEscalate(f) \/ Defer(f) \/ Stop(f)
           \/ Approve(f) \/ Refuse(f) \/ Escalate(f) \/ Dispatch(f) \/ Record(f)
           \/ Reconcile(f)
  <2>1. job' = job /\ faults' = faults /\ runs' = runs
    BY <1>2 DEF Ingest, ScreenTerminate, ScreenEscalate, Defer, Stop, Approve, Settle,
         Refuse, Escalate, Dispatch, Record, Reconcile
  <2>2. Control(f) /\ \A g \in Procs \ {f} : pc'[g] = pc[g]
    BY <1>1, <1>2 DEF Control, NodeSteps, Ingest, ScreenTerminate, ScreenEscalate, Defer, Stop,
         Approve, Settle, Refuse, Escalate, Dispatch, Record, Reconcile
  <2>3. pc[f] # "execute"
    BY <1>2 DEF Ingest, ScreenTerminate, ScreenEscalate, Defer, Stop,
         Approve, Settle, Refuse, Escalate, Dispatch, Record, Reconcile
  <2> QED
    BY <2>1, <2>2, <2>3 DEF Locals
<1>3. CASE ScreenContinue(f)
  <2>1. /\ job' = [job EXCEPT ![f] = [job[f] EXCEPT !.class = class[job[f].txn],
                                                    !.retries = RetryCount[job[f].txn]]]
        /\ pc' = [pc EXCEPT ![f] = "diagnose"] /\ pc[f] = "screen" /\ faults' = faults
        /\ job[f].input.message = "CONTINUE" /\ runs' = runs
    BY <1>3 DEF ScreenContinue
  <2>2. Control(f)
    BY <1>1, <2>1 DEF Control, NodeSteps
  <2>3. Locals(f) /\ \A g \in Procs \ {f} : pc'[g] = pc[g] /\ job'[g] = job[g]
    BY <1>1, <2>1 DEF Locals, JobType
  <2> QED
    BY <2>1, <2>2, <2>3
<1>4. CASE Diagnose(f)
  <2>0. PICK b, d, next :
          /\ next \in {"wait", "execute"} /\ pc' = [pc EXCEPT ![f] = next]
          /\ job' = [job EXCEPT ![f].playbook = b, ![f].discount = d]
    <3>1. PICK p \in Advice \cup {DefaultPlaybook[job[f].class]}, d \in Discounts :
            /\ job' = [job EXCEPT
                         ![f].playbook = IF job[f].input.playbook = "NONE" THEN p
                                         ELSE job[f].input.playbook,
                         ![f].discount = d]
            /\ \E next \in {"wait", "execute"} : pc' = [pc EXCEPT ![f] = next]
      BY <1>4 DEF Diagnose
    <3>2. PICK next \in {"wait", "execute"} : pc' = [pc EXCEPT ![f] = next]
      BY <3>1
    <3> DEFINE chosen == IF job[f].input.playbook = "NONE" THEN p ELSE job[f].input.playbook
    <3>3. job' = [job EXCEPT ![f].playbook = chosen, ![f].discount = d]
      BY <3>1
    <3> HIDE DEF chosen
    <3> QED
      BY <3>2, <3>3
  <2>1. pc[f] = "diagnose" /\ faults' = faults /\ runs' = runs
    BY <1>4 DEF Diagnose
  <2>2. Control(f)
    BY <1>1, <2>0, <2>1 DEF Control, NodeSteps
  <2>3. Locals(f) /\ \A g \in Procs \ {f} : pc'[g] = pc[g] /\ job'[g] = job[g]
    BY <1>1, <2>0, <2>1 DEF Locals, JobType
  <2> QED
    BY <2>1, <2>2, <2>3
<1>5. CASE Wait(f)
  <2>1. PICK m : /\ job' = [job EXCEPT ![f] = [job[f] EXCEPT !.months = m]]
                 /\ pc' = [pc EXCEPT ![f] = "execute"] /\ pc[f] = "wait"
                 /\ faults' = faults /\ runs' = runs
    BY <1>5 DEF Wait
  <2>2. Control(f)
    BY <1>1, <2>1 DEF Control, NodeSteps
  <2>3. Locals(f) /\ \A g \in Procs \ {f} : pc'[g] = pc[g] /\ job'[g] = job[g]
    BY <1>1, <2>1 DEF Locals, JobType
  <2> QED
    BY <2>1, <2>2, <2>3
<1>6. CASE Execute(f)
  <2>0. PICK h : /\ job' = [job EXCEPT ![f].hour = h, ![f].seen = state[job[f].txn]]
                 /\ pc' = [pc EXCEPT ![f] = GateVerdict(f, h)]
    BY <1>6 DEF Execute
  <2>1. /\ job' = [job EXCEPT ![f] = [job[f] EXCEPT !.hour = h, !.seen = state[job[f].txn]]]
        /\ pc' = [pc EXCEPT ![f] = GateVerdict(f, h)] /\ pc[f] = "execute"
        /\ faults' = faults /\ runs' = runs
    BY <1>1, <1>6, <2>0 DEF Execute
  <2>2. job'[f].hour = h /\ pc'[f] = GateVerdict(f, h)
    BY <1>1, <2>1 DEF JobType
  <2>3. Control(f)
    BY <2>1, <2>2 DEF Control, NodeSteps
  <2>4. Locals(f) /\ \A g \in Procs \ {f} : pc'[g] = pc[g] /\ job'[g] = job[g]
    BY <1>1, <2>1 DEF Locals, JobType
  <2> QED
    BY <2>1, <2>3, <2>4
<1> QED
  BY <1>2, <1>3, <1>4, <1>5, <1>6 DEF Node

\* Every other step leaves a run where it is, unless it starts one, hands a request
\* its event or its answer, or takes the run away.
LEMMA OthersMove ==
  ASSUME TypeInv, [Next]_vars, ~ \E f \in Graphs : Node(f), NEW g \in Graphs
  PROVE  \/ pc'[g] = pc[g] /\ job'[g] = job[g]
         \/ /\ pc'[g] = "queued" /\ pc[g] = "idle" /\ g \in Requests
            /\ job'[g].input = Webhook
         \/ pc'[g] = "idle" /\ job'[g] = NoJob
         \/ pc'[g] = "upsert" /\ job'[g] = job[g] /\ pc[g] = "queued"
         \/ /\ pc'[g] = "ingest" /\ job'[g] = job[g] /\ g \in Requests
            /\ pc[g] = "upsert"
         \/ /\ pc'[g] = "ingest" /\ pc[g] = "idle" /\ g \in Cases
            /\ job'[g].event = g
         \/ pc'[g] = "done" /\ job'[g] = job[g] /\ g \in Cases /\ pc[g] # "idle"
<1> USE GraphsAreProcs
<1>1. /\ pc \in [Procs -> Steps] /\ job \in [Procs -> JobType]
      /\ g \in Procs
  BY DEF TypeInv, TypeOK
<1>2. ASSUME NEW r \in Requests, NEW e \in Events, Deliver(r, e)
      PROVE  g # r => pc'[g] = pc[g] /\ job'[g] = job[g]
  BY <1>1, <1>2 DEF Deliver
<1>3. ASSUME NEW e \in Events, g \in Requests, Deliver(g, e)
      PROVE  pc'[g] = "queued" /\ pc[g] = "idle" /\ job'[g].input = Webhook
  <2>1. /\ pc'[g] = "queued" /\ pc[g] = "idle"
        /\ job'[g] = [NoJob EXCEPT !.event = e, !.txn = Mail[e].txn, !.policy = policy]
    BY <1>1, <1>3 DEF Deliver
  <2> QED
    BY <2>1 DEF NoJob
<1>4. CASE \E r \in Requests : Handler(r)
  BY <1>1, <1>4 DEF Handler, Claim, AnswerDuplicate, RejectUnmapped, Upsert, Respond
<1>5. ASSUME NEW c \in Cases, NEW in \in CaseInputs, NEW p \in Policies, StartCase(c, in, p)
      PROVE  /\ g # c => pc'[g] = pc[g] /\ job'[g] = job[g]
             /\ g = c => pc'[g] = "ingest" /\ pc[g] = "idle" /\ job'[g].event = g
  <2>1. /\ pc' = [pc EXCEPT ![c] = "ingest"] /\ pc[c] = "idle"
        /\ job' = [job EXCEPT ![c] = [NoJob EXCEPT !.event = c, !.txn = CaseTxn[c],
                                                   !.input = in, !.policy = p]]
    BY <1>5 DEF StartCase
  <2> QED
    BY <1>1, <2>1 DEF NoJob
<1>6. CASE \/ \E c \in Calls, t \in Txns : CallGate(c, t)
           \/ \E c \in Calls : CallRecord(c) \/ CallPlace(c)
           \/ \E o \in Operators, t \in Txns, s \in HandSet : SetStatus(o, t, s)
           \/ \E x \in Calls \cup Operators : FileTicket(x)
           \/ \E p \in Policies : EditPolicy(p)
           \/ UNCHANGED vars
  BY <1>1, <1>6 DEF CallGate, CallRecord, CallPlace, SetStatus, FileTicket, EditPolicy, vars
<1>7. CASE (\E x \in Procs : Fail(x)) \/ Crash
  BY <1>1, <1>7 DEF Fail, Crash, Graphs
<1> QED
  BY <1>2, <1>3, <1>4, <1>5, <1>6, <1>7 DEF Next
-----------------------------------------------------------------------------
(* Quiet hours.  The property is inductive: a run leaves its gate for      *)
(* anything but a deferral only when the hour it read is not a quiet one.  *)

QuietInv == TypeInv /\ QuietHoursOnlyDefer

LEMMA GateNotQuiet ==
  ASSUME NEW f, NEW hour, GateVerdict(f, hour) # "defer"
  PROVE  ~Quieted(f, hour)
BY DEF GateVerdict

LEMMA NextQuiet == QuietInv /\ [Next]_vars => QuietInv'
<1> SUFFICES ASSUME QuietInv, [Next]_vars PROVE QuietHoursOnlyDefer'
  BY NextType DEF QuietInv
<1> SUFFICES ASSUME NEW g \in Graphs,
                    pc'[g] \in {"stop", "refuse", "approve", "dispatch", "record"},
                    Chan(g)' # NoChannel
             PROVE  ~IsWithinQuietHours(job'[g].hour)
  BY DEF QuietHoursOnlyDefer
<1> USE GraphsAreProcs
<1>1. CASE pc'[g] = pc[g] /\ job'[g] = job[g]
  BY <1>1 DEF QuietInv, QuietHoursOnlyDefer, Chan
<1>2. ASSUME NEW f \in Graphs, Node(f) PROVE ~IsWithinQuietHours(job'[g].hour)
  <2>1. Control(f) /\ Locals(f) /\ \A q \in Procs \ {f} : pc'[q] = pc[q] /\ job'[q] = job[q]
    BY <1>2, NodeMoves DEF QuietInv
  <2>2. CASE g # f
    BY <1>1, <2>1, <2>2
  <2>3. CASE g = f /\ pc[f] = "execute"
    <3>1. pc'[f] = GateVerdict(f, job'[f].hour) /\ Chan(f)' = Chan(f)
      BY <2>1, <2>3 DEF Control, Locals, Chan
    <3> QED
      BY <2>3, <3>1, GateNotQuiet DEF Quieted
  <2>4. CASE g = f /\ pc[f] # "execute"
    <3>1. pc[f] \in {"approve", "dispatch"}
      BY <2>1, <2>4, EndedType DEF Control, NodeSteps
    <3>2. Chan(f)' = Chan(f) /\ job'[f].hour = job[f].hour
      BY <2>1, <2>4, <3>1 DEF Locals, Chan
    <3> QED
      BY <2>4, <3>1, <3>2 DEF QuietInv, QuietHoursOnlyDefer
  <2> QED
    BY <2>2, <2>3, <2>4
<1>3. CASE ~ \E f \in Graphs : Node(f)
  BY <1>1, <1>3, OthersMove DEF QuietInv
<1> QED
  BY <1>2, <1>3

\* In quiet hours a run that would contact the customer defers, and does nothing else.
THEOREM QuietHoursKept == Spec => []QuietHoursOnlyDefer
<1>1. Init => QuietInv
  BY InitType, GraphsAreProcs DEF Init, QuietInv, QuietHoursOnlyDefer
<1>2. QuietInv => QuietHoursOnlyDefer
  BY DEF QuietInv
<1> QED
  BY <1>1, <1>2, NextQuiet, PTL DEF Spec
-----------------------------------------------------------------------------
(* What a run's steps do to the count of dispatches.                       *)

LEMMA NodeActs ==
  ASSUME NEW f \in Graphs, Node(f)
  PROVE  IF pc[f] = "dispatch" THEN acts' = [acts EXCEPT ![job[f].event] = @ + 1]
         ELSE acts' = acts
BY DEF Node, Ingest, ScreenTerminate, ScreenEscalate, ScreenContinue, Diagnose, Wait, Execute,
       Defer, Stop, Approve, Settle, Refuse, Escalate, Dispatch, Record, Reconcile

LEMMA OthersAct ==
  ASSUME [Next]_vars, ~ \E f \in Graphs : Node(f)
  PROVE  acts' = acts
BY DEF Next, Deliver, Handler, Claim, AnswerDuplicate, RejectUnmapped, Upsert, Respond,
       StartCase, CallGate, CallRecord, CallPlace, SetStatus, FileTicket, EditPolicy, Fail,
       Crash, vars

LEMMA NextOneRun == OneRunInv /\ [Next]_vars => OneRunInv'
BY DeliverOneRun, HandlerOneRun, NodeOneRun, StartCaseOneRun, OthersOneRun, CrashOneRun,
   FailOneRun
DEF Next

\* A dispatch counts for the run's own event, and no count is taken back.
LEMMA NodeCounts ==
  ASSUME OneRunInv, NEW f \in Graphs, Node(f)
  PROVE  /\ \A x \in Origins : acts[x] \in Nat /\ acts'[x] \in Nat /\ acts'[x] >= acts[x]
         /\ \A x \in Origins : x # job[f].event => acts'[x] = acts[x]
         /\ pc[f] = "dispatch" => acts'[job[f].event] > 0
         /\ pc[f] # "dispatch" => acts' = acts
<1>1. acts \in [Origins -> Nat]
  BY DEF OneRunInv, TypeInv, TypeOK
<1>2. pc[f] = "dispatch" => job[f].event \in Origins
  BY OwnedOrigins DEF OneRunInv
<1> QED
  BY <1>1, <1>2, NodeActs
-----------------------------------------------------------------------------
(* A screened message.  Only a worker's run carries one that is not to be  *)
(* answered, and it is never past the screen.                              *)

ScreenedHeld ==
  \A f \in Graphs : job[f].input.message # "CONTINUE" =>
    f \in Cases /\ pc[f] \in {"ingest", "screen", "escalate", "done"}

ScreenInv == OneRunInv /\ ScreenedHeld /\ ScreenedNeverContacted

LEMMA NextScreen == ScreenInv /\ [Next]_vars => ScreenInv'
<1> SUFFICES ASSUME ScreenInv, [Next]_vars PROVE ScreenedHeld' /\ ScreenedNeverContacted'
  BY NextOneRun DEF ScreenInv
<1> SUFFICES ASSUME NEW g \in Graphs, job'[g].input.message # "CONTINUE"
             PROVE  /\ g \in Cases /\ pc'[g] \in {"ingest", "screen", "escalate", "done"}
                    /\ acts'[job'[g].event] = 0
  BY DEF ScreenedHeld, ScreenedNeverContacted
<1> USE GraphsAreProcs
<1>0. TypeInv /\ EventOwned /\ OneRunInv
  BY DEF ScreenInv, OneRunInv
<1>1. ASSUME job[g].input.message # "CONTINUE"
      PROVE  /\ g \in Cases /\ pc[g] \in {"ingest", "screen", "escalate", "done"}
             /\ acts[job[g].event] = 0 /\ job[g].event \in Origins
  <2>1. g \in Cases /\ pc[g] \in {"ingest", "screen", "escalate", "done"}
        /\ acts[job[g].event] = 0
    BY <1>1 DEF ScreenInv, ScreenedHeld, ScreenedNeverContacted
  <2> QED
    BY <1>0, <2>1, OwnedOrigins
<1>2. ASSUME NEW f \in Graphs, Node(f)
      PROVE  /\ g \in Cases /\ pc'[g] \in {"ingest", "screen", "escalate", "done"}
             /\ acts'[job'[g].event] = 0
  <2>1. Control(f) /\ Locals(f) /\ \A q \in Procs \ {f} : pc'[q] = pc[q] /\ job'[q] = job[q]
    BY <1>0, <1>2, NodeMoves
  <2>2. job[g].input = job'[g].input /\ job[g].event = job'[g].event
    BY <2>1 DEF Locals
  <2>3. CASE g = f
    <3>1. /\ g \in Cases /\ pc[f] \in {"ingest", "screen", "escalate", "done"}
          /\ acts[job[f].event] = 0
      BY <1>1, <2>2, <2>3
    <3>2. pc'[f] \in {"screen", "escalate", "done"}
      BY <2>1, <2>2, <2>3, <3>1 DEF Control, NodeSteps, Ended
    <3> QED
      BY <1>2, <2>2, <2>3, <3>1, <3>2, NodeActs
  <2>4. CASE g # f
    <3>1. pc[f] \in NodeSteps /\ pc[f] \notin {"idle", "queued"}
      BY <2>1 DEF Control, NodeSteps
    <3>2. job[g].event # job[f].event
      BY <1>0, <1>1, <2>2, <2>4, <3>1, OwnersDiffer
    <3> QED
      BY <1>0, <1>1, <1>2, <2>1, <2>2, <2>4, <3>2, NodeCounts
  <2> QED
    BY <2>3, <2>4
<1>3. CASE ~ \E f \in Graphs : Node(f)
  <2>1. acts' = acts
    BY <1>3, OthersAct
  <2>2. Webhook.message = "CONTINUE" /\ NoJob.input = Webhook
    BY DEF Webhook, NoJob
  <2>3. CASE pc[g] = "idle" /\ g \in Cases /\ job'[g].event = g /\ pc'[g] = "ingest"
    <3>1. acts[g] = 0
      BY <1>0, <2>3 DEF OneRunInv, NotYetRun, OneRunPerEvent, TypeInv, TypeOK
    <3> QED
      BY <2>1, <2>3, <3>1
  <2> QED
    BY <1>0, <1>1, <1>3, <2>1, <2>2, <2>3, OthersMove
<1> QED
  BY <1>2, <1>3

\* Whatever the models advise, a run whose message is an opt-out or a dispute never
\* contacts the customer.
THEOREM ScreenKept == Spec => []ScreenedNeverContacted
<1>1. Init => ScreenInv
  <2>1. Webhook.message = "CONTINUE" /\ NoJob.input = Webhook
    BY DEF Webhook, NoJob
  <2> QED
    BY <2>1, InitOneRun, GraphsAreProcs
    DEF Init, ScreenInv, ScreenedHeld, ScreenedNeverContacted
<1>2. ScreenInv => ScreenedNeverContacted
  BY DEF ScreenInv
<1> QED
  BY <1>1, <1>2, NextScreen, PTL DEF Spec
-----------------------------------------------------------------------------
(* Settlement.  A run that has come to its reconciliation has dispatched.  *)

Dispatched ==
  \A f \in Graphs : pc[f] \in {"record", "reconcile"} => acts[job[f].event] > 0

SettleInv == OneRunInv /\ Dispatched

LEMMA NextSettle == SettleInv /\ [Next]_vars => SettleInv'
<1> SUFFICES ASSUME SettleInv, [Next]_vars PROVE Dispatched'
  BY NextOneRun DEF SettleInv
<1> SUFFICES ASSUME NEW g \in Graphs, pc'[g] \in {"record", "reconcile"}
             PROVE  acts'[job'[g].event] > 0
  BY DEF Dispatched
<1> USE GraphsAreProcs
<1>0. TypeInv /\ EventOwned /\ OneRunInv
  BY DEF SettleInv, OneRunInv
<1>1. ASSUME NEW f \in Graphs, Node(f) PROVE acts'[job'[g].event] > 0
  <2>1. Control(f) /\ Locals(f) /\ \A q \in Procs \ {f} : pc'[q] = pc[q] /\ job'[q] = job[q]
    BY <1>0, <1>1, NodeMoves
  <2>2. CASE pc[g] \in {"record", "reconcile"}
    <3>1. job[g].event \in Origins /\ acts[job[g].event] > 0
      BY <1>0, <2>2, OwnedOrigins DEF SettleInv, Dispatched
    <3>2. job'[g].event = job[g].event
      BY <2>1 DEF Locals
    <3> QED
      BY <1>0, <1>1, <3>1, <3>2, NodeCounts
  <2>3. CASE pc[g] \notin {"record", "reconcile"}
    <3>1. g = f /\ pc[f] = "dispatch"
      BY <2>1, <2>3, EndedType, VerdictType DEF Control, NodeSteps
    <3> QED
      BY <1>0, <1>1, <2>1, <3>1, NodeCounts DEF Locals
  <2> QED
    BY <2>2, <2>3
<1>2. CASE ~ \E f \in Graphs : Node(f)
  BY <1>0, <1>2, OthersMove, OthersAct DEF SettleInv, Dispatched
<1> QED
  BY <1>1, <1>2

LEMMA RecoveredStep ==
  ASSUME SettleInv, Next, NEW t \in Txns, state'[t] = "RECOVERED", state[t] # "RECOVERED"
  PROVE  \/ \E o \in Operators : pc[o] # pc'[o] /\ job'[o].txn = t
         \/ \E f \in Graphs : /\ pc[f] # pc'[f] /\ job[f].txn = t
                              /\ job[f].input.outcome \in SettlementEvents
                              /\ acts[job[f].event] > 0
<1> USE GraphsAreProcs
<1>0. /\ \A g \in Procs : job[g].txn \in Txns
      /\ pc \in [Procs -> Steps] /\ job \in [Procs -> JobType]
      /\ state \in [Txns -> Statuses]
  BY DEF SettleInv, OneRunInv, TypeInv, TypeOK, JobType
<1>1. ASSUME NEW f \in Graphs, Node(f)
      PROVE  /\ pc[f] # pc'[f] /\ job[f].txn = t
             /\ job[f].input.outcome \in SettlementEvents /\ acts[job[f].event] > 0
  <2>1. CASE Reconcile(f)
    <3>1. pc[f] = "reconcile" /\ pc' = [pc EXCEPT ![f] = Ended(f)]
      BY <2>1 DEF Reconcile
    <3>2. pc[f] # pc'[f]
      BY <1>0, <3>1, EndedType
    <3>3. Settled(f) /\ job[f].txn = t
      BY <1>0, <2>1 DEF Reconcile
    <3> QED
      BY <3>1, <3>2, <3>3 DEF Settled, SettleInv, Dispatched
  <2>2. CASE Ingest(f) \/ ScreenTerminate(f) \/ Wait(f) \/ Escalate(f)
    BY <1>0, <2>2 DEF Ingest, ScreenTerminate, Wait, Escalate
  <2>3. CASE Defer(f) \/ Stop(f) \/ Approve(f)
    BY <1>0, <2>3 DEF Defer, Stop, Approve, Settle, Flush
  <2>4. CASE ScreenEscalate(f) \/ ScreenContinue(f) \/ Diagnose(f) \/ Execute(f)
             \/ Refuse(f) \/ Dispatch(f) \/ Record(f)
    BY <2>4 DEF ScreenEscalate, ScreenContinue, Diagnose, Execute, Refuse, Dispatch, Record
  <2> QED
    BY <1>1, <2>1, <2>2, <2>3, <2>4 DEF Node
<1>2. ASSUME NEW o \in Operators, NEW s \in HandSet, NEW u \in Txns, SetStatus(o, u, s)
      PROVE  pc[o] # pc'[o] /\ job'[o].txn = t
  <2>1. u = t /\ pc[o] = "idle" /\ pc'[o] \in {"ticket", "done"}
    BY <1>0, <1>2 DEF SetStatus
  <2>2. job' = [job EXCEPT ![o] = [job[o] EXCEPT !.txn = u]] /\ job[o] \in JobType
    BY <1>0, <1>2 DEF SetStatus
  <2>3. job'[o].txn = u
    BY <1>0, <2>2 DEF JobType
  <2> QED
    BY <2>1, <2>3
<1>3. CASE \E r \in Requests : Handler(r)
  BY <1>0, <1>3 DEF Handler, Claim, AnswerDuplicate, RejectUnmapped, Upsert, Respond
<1>4. CASE \E c \in Cases, in \in CaseInputs, p \in Policies : StartCase(c, in, p)
  BY <1>0, <1>4 DEF StartCase
<1>5. CASE \/ \E r \in Requests, e \in Events : Deliver(r, e)
           \/ \E c \in Calls, u \in Txns : CallGate(c, u)
           \/ \E c \in Calls : CallRecord(c) \/ CallPlace(c)
           \/ \E x \in Calls \cup Operators : FileTicket(x)
           \/ \E p \in Policies : EditPolicy(p)
           \/ \E x \in Procs : Fail(x)
           \/ Crash
  BY <1>5 DEF Deliver, CallGate, CallRecord, CallPlace, FileTicket, EditPolicy, Fail, Crash
<1> QED
  BY <1>1, <1>2, <1>3, <1>4, <1>5 DEF Next

\* The engine closes a case as recovered only on a settlement, in a run that acted.
THEOREM SettledOnly == Spec => RecoveredBySettlement
<1>1. Init => SettleInv
  BY InitOneRun, GraphsAreProcs DEF Init, SettleInv, Dispatched
<1>2. SettleInv /\ [Next]_vars =>
        [\A t \in Txns : state'[t] = "RECOVERED" /\ state[t] # "RECOVERED" =>
           \/ \E o \in Operators : pc[o] # pc'[o] /\ job'[o].txn = t
           \/ \E f \in Graphs : /\ pc[f] # pc'[f] /\ job[f].txn = t
                                /\ job[f].input.outcome \in SettlementEvents
                                /\ acts[job[f].event] > 0]_vars
  BY RecoveredStep
<1> QED
  BY <1>1, <1>2, NextSettle, PTL DEF Spec, RecoveredBySettlement
-----------------------------------------------------------------------------
(* Orphans.  A run that put a case in DIAGNOSING has it in hand until it   *)
(* has written another state: the write at the gate is not skipped, since  *)
(* the state the gate loaded was DIAGNOSING.  An operator may not be the   *)
(* one who sets it.                                                        *)

InHandOf(g, t) ==
  /\ job[g].txn = t
  /\ \/ pc[g] \in {"screen", "diagnose", "wait", "execute", "refuse", "escalate"}
     \/ pc[g] \in {"defer", "stop", "approve"} /\ job[g].seen = "DIAGNOSING"

Held == \A t \in Txns : faults = 0 /\ state[t] = "DIAGNOSING" => \E g \in Graphs : InHandOf(g, t)

HeldInv == TypeInv /\ Held

\* What a run's step makes of the states.
LEMMA NodeStates ==
  ASSUME TypeInv, NEW f \in Graphs, Node(f), NEW t \in Txns, state'[t] = "DIAGNOSING"
  PROVE  /\ state[t] = "DIAGNOSING" \/ (pc[f] = "ingest" /\ job[f].txn = t)
         /\ InHandOf(f, t) => pc[f] \in {"screen", "diagnose", "execute", "refuse"}
<1> USE GraphsAreProcs
<1>0. job[f].txn \in Txns /\ state \in [Txns -> Statuses]
  BY DEF TypeInv, TypeOK, JobType
<1>1. CASE Ingest(f)
  BY <1>0, <1>1 DEF Ingest, InHandOf
<1>2. CASE ScreenTerminate(f) \/ Wait(f) \/ Escalate(f)
  BY <1>0, <1>2 DEF ScreenTerminate, Wait, Escalate, InHandOf
<1>3. CASE Defer(f) \/ Stop(f) \/ Approve(f)
  BY <1>0, <1>3 DEF Defer, Stop, Approve, Settle, Flush, InHandOf
<1>4. CASE Reconcile(f)
  BY <1>0, <1>4 DEF Reconcile, InHandOf
<1>5. CASE ScreenEscalate(f) \/ ScreenContinue(f) \/ Diagnose(f) \/ Execute(f)
           \/ Refuse(f) \/ Dispatch(f) \/ Record(f)
  BY <1>5
  DEF ScreenEscalate, ScreenContinue, Diagnose, Execute, Refuse, Dispatch, Record, InHandOf
<1> QED
  BY <1>1, <1>2, <1>3, <1>4, <1>5 DEF Node

\* No other step makes a case DIAGNOSING, or takes it out of a run's hands without
\* counting a fault.
LEMMA OthersStates ==
  ASSUME TypeInv, "DIAGNOSING" \notin HandSet, [Next]_vars, ~ \E f \in Graphs : Node(f),
         faults' = 0
  PROVE  /\ faults = 0
         /\ \A t \in Txns : state'[t] = "DIAGNOSING" => state[t] = "DIAGNOSING"
         /\ \A g \in Graphs : pc[g] \in NodeSteps => pc'[g] = pc[g] /\ job'[g] = job[g]
<1> USE GraphsAreProcs
<1>0. /\ pc \in [Procs -> Steps] /\ job \in [Procs -> JobType]
      /\ state \in [Txns -> Statuses] /\ faults \in Nat
      /\ \A g \in Procs : job[g].txn \in Txns
  BY DEF TypeInv, TypeOK, JobType
<1>1. ~Crash /\ \A x \in Procs : ~Fail(x)
  BY <1>0 DEF Crash, Fail
<1>2. CASE \E r \in Requests, e \in Events : Deliver(r, e)
  BY <1>0, <1>2 DEF Deliver, NodeSteps
<1>3. CASE \E r \in Requests : Handler(r)
  BY <1>0, <1>3 DEF Handler, Claim, AnswerDuplicate, RejectUnmapped, Upsert, Respond, NodeSteps
<1>4. CASE \E c \in Cases, in \in CaseInputs, p \in Policies : StartCase(c, in, p)
  BY <1>0, <1>4 DEF StartCase, NodeSteps
<1>5. CASE \/ \E c \in Calls, u \in Txns : CallGate(c, u)
           \/ \E c \in Calls : CallRecord(c) \/ CallPlace(c)
           \/ \E x \in Calls \cup Operators : FileTicket(x)
           \/ \E p \in Policies : EditPolicy(p)
           \/ UNCHANGED vars
  BY <1>0, <1>5 DEF CallGate, CallRecord, CallPlace, FileTicket, EditPolicy, vars
<1>6. CASE \E o \in Operators, t \in Txns, s \in HandSet : SetStatus(o, t, s)
  BY <1>0, <1>6 DEF SetStatus
<1> QED
  BY <1>1, <1>2, <1>3, <1>4, <1>5, <1>6 DEF Next

LEMMA NextHeld == "DIAGNOSING" \notin HandSet /\ HeldInv /\ [Next]_vars => HeldInv'
<1> SUFFICES ASSUME "DIAGNOSING" \notin HandSet, HeldInv, [Next]_vars PROVE Held'
  BY NextType DEF HeldInv
<1> SUFFICES ASSUME NEW t \in Txns, faults' = 0, state'[t] = "DIAGNOSING"
             PROVE  \E g \in Graphs : InHandOf(g, t)'
  BY DEF Held
<1> USE GraphsAreProcs
<1>1. ASSUME NEW f \in Graphs, Node(f) PROVE \E g \in Graphs : InHandOf(g, t)'
  <2>1. /\ Control(f) /\ Locals(f) /\ faults' = faults
        /\ \A q \in Procs \ {f} : pc'[q] = pc[q] /\ job'[q] = job[q]
    BY <1>1, NodeMoves DEF HeldInv
  <2>2. CASE pc[f] = "ingest" /\ job[f].txn = t
    <3>1. InHandOf(f, t)'
      BY <2>1, <2>2 DEF Control, Locals, InHandOf
    <3> QED
      BY <3>1
  <2>3. CASE state[t] = "DIAGNOSING"
    <3>1. PICK g \in Graphs : InHandOf(g, t)
      BY <2>1, <2>3 DEF HeldInv, Held
    <3>2. CASE g # f
      BY <2>1, <3>1, <3>2 DEF InHandOf
    <3>3. CASE g = f
      <4>1. pc[f] \in {"screen", "diagnose", "execute", "refuse"} /\ job[f].txn = t
        BY <1>1, <3>1, <3>3, NodeStates DEF HeldInv, InHandOf
      <4>2. pc[f] # "screen" => InHandOf(f, t)'
        BY <2>1, <2>3, <4>1, VerdictType DEF Control, Locals, InHandOf
      <4>3. pc[f] = "screen" => InHandOf(f, t)'
        \* an opt-out leaves the case cancelled, so the run went on or escalates
        <5>1. pc[f] = "screen" => ScreenEscalate(f) \/ ScreenContinue(f) \/ ScreenTerminate(f)
          BY <1>1 DEF Node, Ingest, Diagnose, Wait, Execute, Defer, Stop, Approve, Settle,
               Refuse, Escalate, Dispatch, Record, Reconcile
        <5>2. ~ScreenTerminate(f)
          BY <4>1 DEF ScreenTerminate, HeldInv, TypeInv, TypeOK
        <5>3. ScreenEscalate(f) \/ ScreenContinue(f) => pc'[f] \in {"escalate", "diagnose"}
          BY DEF ScreenEscalate, ScreenContinue, HeldInv, TypeInv, TypeOK
        <5> QED
          BY <2>1, <4>1, <5>1, <5>2, <5>3 DEF Locals, InHandOf
      <4> QED
        BY <4>2, <4>3
    <3> QED
      BY <3>2, <3>3
  <2> QED
    BY <1>1, <2>2, <2>3, NodeStates DEF HeldInv
<1>2. CASE ~ \E f \in Graphs : Node(f)
  <2>1. /\ faults = 0 /\ state[t] = "DIAGNOSING"
        /\ \A g \in Graphs : pc[g] \in NodeSteps => pc'[g] = pc[g] /\ job'[g] = job[g]
    BY <1>2, OthersStates DEF HeldInv
  <2>2. PICK g \in Graphs : InHandOf(g, t)
    BY <2>1 DEF HeldInv, Held
  <2>3. InHandOf(g, t)'
    BY <2>1, <2>2 DEF InHandOf, NodeSteps
  <2> QED
    BY <2>3
<1> QED
  BY <1>1, <1>2

\* As long as nothing fails and no operator sets it, DIAGNOSING means that some run is
\* at work on the case.
THEOREM DiagnosisHeld ==
  ASSUME "DIAGNOSING" \notin HandSet
  PROVE  Spec => []NoOrphanedDiagnosis
<1>1. Init => HeldInv
  BY InitType DEF Init, HeldInv, Held, Absent
<1>2. HeldInv /\ [Next]_vars => HeldInv'
  BY NextHeld
<1>3. HeldInv => NoOrphanedDiagnosis
  BY DEF HeldInv, Held, InHandOf, NoOrphanedDiagnosis, NodeSteps
<1> QED
  BY <1>1, <1>2, <1>3, PTL DEF Spec
-----------------------------------------------------------------------------
(* Dispatches and their audit rows.  A run in flight has told its adapter  *)
(* and not yet written the row: only its own step, or a fault, takes it    *)
(* out of that place.                                                      *)

\* The cells a run's step counts in.
LEMMA NodeCells ==
  ASSUME NEW f \in Graphs, Node(f)
  PROVE  /\ sent' = IF pc[f] = "dispatch" THEN [sent EXCEPT ![job[f].txn][Act(f)] = @ + 1]
                    ELSE sent
         /\ audited' = IF pc[f] = "record"
                       THEN [audited EXCEPT ![job[f].txn][Act(f)] = @ + 1] ELSE audited
         /\ callRows' = callRows /\ placed' = placed /\ loop' = loop
BY DEF Node, Ingest, ScreenTerminate, ScreenEscalate, ScreenContinue, Diagnose, Wait, Execute,
       Defer, Stop, Approve, Settle, Refuse, Escalate, Dispatch, Record, Reconcile

LEMMA OthersCells ==
  ASSUME [Next]_vars, ~ \E f \in Graphs : Node(f)
  PROVE  sent' = sent /\ audited' = audited
BY DEF Next, Deliver, Handler, Claim, AnswerDuplicate, RejectUnmapped, Upsert, Respond,
       StartCase, CallGate, CallRecord, CallPlace, SetStatus, FileTicket, EditPolicy, Fail,
       Crash, vars

LEMMA BumpCell ==
  ASSUME NEW S, NEW T, NEW F \in [S -> [T -> Nat]], NEW x \in S, NEW y,
         NEW s \in S, NEW t \in T
  PROVE  [F EXCEPT ![x][y] = @ + 1][s][t] = IF s = x /\ t = y THEN F[s][t] + 1 ELSE F[s][t]
OBVIOUS

\* No step but a run's own or a fault moves a run that is at a node.
LEMMA OthersKeep ==
  ASSUME TypeInv, [Next]_vars, ~ \E f \in Graphs : Node(f), NEW g \in Graphs,
         pc[g] \in NodeSteps
  PROVE  \/ faults' = faults /\ pc'[g] = pc[g] /\ job'[g] = job[g]
         \/ faults' = faults + 1 /\ ((\E x \in Procs : Fail(x)) \/ Crash)
<1> USE GraphsAreProcs
<1>0. pc \in [Procs -> Steps] /\ job \in [Procs -> JobType]
  BY DEF TypeInv, TypeOK
<1>1. CASE \E r \in Requests, e \in Events : Deliver(r, e)
  BY <1>0, <1>1 DEF Deliver, NodeSteps
<1>2. CASE \E r \in Requests : Handler(r)
  BY <1>0, <1>2 DEF Handler, Claim, AnswerDuplicate, RejectUnmapped, Upsert, Respond, NodeSteps
<1>3. CASE \E c \in Cases, in \in CaseInputs, p \in Policies : StartCase(c, in, p)
  BY <1>0, <1>3 DEF StartCase, NodeSteps
<1>4. CASE \/ \E c \in Calls, u \in Txns : CallGate(c, u)
           \/ \E c \in Calls : CallRecord(c) \/ CallPlace(c)
           \/ \E o \in Operators, t \in Txns, s \in HandSet : SetStatus(o, t, s)
           \/ \E x \in Calls \cup Operators : FileTicket(x)
           \/ \E p \in Policies : EditPolicy(p)
           \/ UNCHANGED vars
  BY <1>0, <1>4 DEF CallGate, CallRecord, CallPlace, SetStatus, FileTicket, EditPolicy, vars
<1>5. CASE (\E x \in Procs : Fail(x)) \/ Crash
  BY <1>5 DEF Fail, Crash
<1> QED
  BY <1>1, <1>2, <1>3, <1>4, <1>5 DEF Next

\* One request and the workers can be in flight together.
LEMMA FlightBound ==
  ASSUME TypeInv, EventOwned, NEW t, NEW a
  PROVE  /\ IsFiniteSet(InFlight(t, a)) /\ Cardinality(InFlight(t, a)) \in Nat
         /\ Cardinality(InFlight(t, a)) <= 1 + Cardinality(Cases)
<1>1. InFlight(t, a) \subseteq Cases \cup {loop}
  BY DEF InFlight, EventOwned, Graphs
<1>2. IsFiniteSet(Cases) /\ Cardinality(Cases) \in Nat
  BY FiniteAssumption, FS_CardinalityType
<1>3. /\ IsFiniteSet(Cases \cup {loop})
      /\ Cardinality(Cases \cup {loop}) \in Nat
      /\ Cardinality(Cases \cup {loop}) <= 1 + Cardinality(Cases)
  BY <1>2, FS_AddElement, FS_CardinalityType
<1> QED
  BY <1>1, <1>2, <1>3, FS_Subset, FS_CardinalityType

LEMMA NodeFlight ==
  ASSUME TypeInv, NEW f \in Graphs, Node(f), NEW t \in Txns, NEW a \in Actions
  PROVE  InFlight(t, a)' =
           IF job[f].txn = t /\ Act(f) = a
           THEN IF pc[f] = "dispatch" THEN InFlight(t, a) \cup {f}
                ELSE IF pc[f] = "record" THEN InFlight(t, a) \ {f} ELSE InFlight(t, a)
           ELSE InFlight(t, a)
<1> USE GraphsAreProcs
<1>1. Control(f) /\ Locals(f) /\ \A q \in Procs \ {f} : pc'[q] = pc[q] /\ job'[q] = job[q]
  BY NodeMoves
<1>2. pc'[f] = "record" <=> pc[f] = "dispatch"
  BY <1>1, EndedType, VerdictType DEF Control, NodeSteps
<1>3. job'[f].txn = job[f].txn
  BY <1>1 DEF Locals
<1>4. pc[f] = "dispatch" => Act(f)' = Act(f)
  BY <1>1 DEF Locals, Act
<1>5. ASSUME NEW g \in Graphs, g # f
      PROVE  g \in InFlight(t, a)' <=> g \in InFlight(t, a)
  <2>1. pc'[g] = pc[g] /\ job'[g] = job[g]
    BY <1>1, <1>5
  <2> QED
    BY <2>1 DEF InFlight, Act
<1>6. f \in InFlight(t, a)' <=> pc[f] = "dispatch" /\ job[f].txn = t /\ Act(f) = a
  BY <1>2, <1>3, <1>4 DEF InFlight
<1>7. f \in InFlight(t, a) <=> pc[f] = "record" /\ job[f].txn = t /\ Act(f) = a
  BY DEF InFlight
<1>8. InFlight(t, a) \subseteq Graphs /\ InFlight(t, a)' \subseteq Graphs
  BY DEF InFlight
<1> QED
  BY <1>5, <1>6, <1>7, <1>8

LEMMA OthersFlight ==
  ASSUME TypeInv, [Next]_vars, ~ \E f \in Graphs : Node(f), NEW t, NEW a
  PROVE  \/ faults' = faults /\ InFlight(t, a)' = InFlight(t, a)
         \/ faults' = faults + 1 /\ InFlight(t, a)' \subseteq InFlight(t, a)
<1>1. ASSUME NEW g \in Graphs, pc'[g] = "record" PROVE pc'[g] = pc[g] /\ job'[g] = job[g]
  BY <1>1, OthersMove
<1>2. InFlight(t, a)' \subseteq InFlight(t, a)
  BY <1>1 DEF InFlight, Act
<1>3. CASE InFlight(t, a) = {}
  <2>1. faults' = faults \/ faults' = faults + 1
    BY DEF Next, Deliver, Handler, Claim, AnswerDuplicate, RejectUnmapped, Upsert, Respond,
           StartCase, CallGate, CallRecord, CallPlace, SetStatus, FileTicket, EditPolicy, Fail,
           Crash, vars
  <2> QED
    BY <1>2, <1>3, <2>1
<1>4. ASSUME NEW g \in InFlight(t, a) PROVE g \in InFlight(t, a)' \/ faults' = faults + 1
  <2>1. g \in Graphs /\ pc[g] \in NodeSteps
    BY <1>4 DEF InFlight, NodeSteps
  <2> QED
    BY <1>4, <2>1, OthersKeep DEF InFlight, Act
<1>5. InFlight(t, a) # {} => faults' = faults \/ faults' = faults + 1
  BY OthersKeep DEF InFlight, NodeSteps
<1> QED
  BY <1>2, <1>3, <1>4, <1>5

AuditInv == OneRunInv /\ AuditTrailsDispatch

LEMMA NextAudit == AuditInv /\ [Next]_vars => AuditInv'
<1> SUFFICES ASSUME AuditInv, [Next]_vars, NEW t \in Txns, NEW a \in Actions
             PROVE  /\ audited'[t][a] + Cardinality(InFlight(t, a)') <= sent'[t][a]
                    /\ sent'[t][a] <= audited'[t][a] + Cardinality(InFlight(t, a)')
                                        + faults' * (1 + Cardinality(Cases))
  BY NextOneRun DEF AuditInv, AuditTrailsDispatch
<1> USE GraphsAreProcs
<1> DEFINE n == Cardinality(InFlight(t, a))
           m == Cardinality(InFlight(t, a)')
           k == 1 + Cardinality(Cases)
<1>1. /\ audited \in [Txns -> [Actions -> Nat]] /\ sent \in [Txns -> [Actions -> Nat]]
      /\ audited[t][a] \in Nat /\ sent[t][a] \in Nat /\ faults \in Nat
      /\ TypeInv /\ EventOwned /\ TypeInv' /\ EventOwned'
  BY NextOneRun DEF AuditInv, OneRunInv, TypeInv, TypeOK
<1>2. /\ IsFiniteSet(InFlight(t, a)) /\ n \in Nat /\ n <= k /\ k \in Nat
  BY <1>1, FlightBound, FiniteAssumption, FS_CardinalityType
<1>3. audited[t][a] + n <= sent[t][a] /\ sent[t][a] <= audited[t][a] + n + faults * k
  BY DEF AuditInv, AuditTrailsDispatch
<1>4. ASSUME NEW f \in Graphs, Node(f)
      PROVE  /\ audited'[t][a] + m <= sent'[t][a]
             /\ sent'[t][a] <= audited'[t][a] + m + faults' * k
  <2>1. faults' = faults /\ job[f].txn \in Txns
    BY <1>1, <1>4, NodeMoves DEF TypeInv, TypeOK, JobType
  <2> DEFINE own == job[f].txn = t /\ Act(f) = a
  <2>2. /\ sent'[t][a] = IF pc[f] = "dispatch" /\ own THEN sent[t][a] + 1 ELSE sent[t][a]
        /\ audited'[t][a] = IF pc[f] = "record" /\ own THEN audited[t][a] + 1
                            ELSE audited[t][a]
    <3>1. sent' = IF pc[f] = "dispatch" THEN [sent EXCEPT ![job[f].txn][Act(f)] = @ + 1]
                  ELSE sent
      BY <1>4, NodeCells
    <3>2. audited' = IF pc[f] = "record"
                     THEN [audited EXCEPT ![job[f].txn][Act(f)] = @ + 1] ELSE audited
      BY <1>4, NodeCells
    <3>3. [sent EXCEPT ![job[f].txn][Act(f)] = @ + 1][t][a] =
            IF t = job[f].txn /\ a = Act(f) THEN sent[t][a] + 1 ELSE sent[t][a]
      BY <1>1, <2>1, BumpCell
    <3>4. [audited EXCEPT ![job[f].txn][Act(f)] = @ + 1][t][a] =
            IF t = job[f].txn /\ a = Act(f) THEN audited[t][a] + 1 ELSE audited[t][a]
      BY <1>1, <2>1, BumpCell
    <3> QED
      BY <3>1, <3>2, <3>3, <3>4
  <2>3. f \in InFlight(t, a) <=> pc[f] = "record" /\ own
    BY DEF InFlight
  <2>4. m = IF own /\ pc[f] = "dispatch" THEN n + 1
            ELSE IF own /\ pc[f] = "record" THEN n - 1 ELSE n
    <3>1. InFlight(t, a)' =
            IF own THEN IF pc[f] = "dispatch" THEN InFlight(t, a) \cup {f}
                        ELSE IF pc[f] = "record" THEN InFlight(t, a) \ {f} ELSE InFlight(t, a)
            ELSE InFlight(t, a)
      BY <1>1, <1>4, NodeFlight
    <3>2. /\ Cardinality(InFlight(t, a) \cup {f}) = IF f \in InFlight(t, a) THEN n ELSE n + 1
          /\ Cardinality(InFlight(t, a) \ {f}) = IF f \in InFlight(t, a) THEN n - 1 ELSE n
      BY <1>2, FS_AddElement, FS_RemoveElement
    <3> HIDE DEF own
    <3> QED
      BY <2>3, <3>1, <3>2
  <2> HIDE DEF n, m, k, own
  <2> QED
    BY <1>1, <1>2, <1>3, <2>1, <2>2, <2>4
<1>5. ASSUME ~ \E f \in Graphs : Node(f)
      PROVE  /\ audited'[t][a] + m <= sent'[t][a]
             /\ sent'[t][a] <= audited'[t][a] + m + faults' * k
  <2>1. sent' = sent /\ audited' = audited
    BY <1>5, OthersCells
  <2>2. /\ \/ faults' = faults /\ InFlight(t, a)' = InFlight(t, a)
           \/ faults' = faults + 1
    BY <1>1, <1>5, OthersFlight
  <2>3. m \in Nat /\ m <= n
    <3>1. InFlight(t, a)' \subseteq InFlight(t, a)
      BY <1>1, <1>5, OthersFlight
    <3> QED
      BY <1>2, <3>1, FS_Subset, FS_CardinalityType
  <2>4. (faults + 1) * k = faults * k + k
    BY <1>1, <1>2
  <2>5. InFlight(t, a)' = InFlight(t, a) => m = n
    OBVIOUS
  <2>6. faults * k \in Nat
    BY <1>1, <1>2
  <2> DEFINE fk == faults * k
  <2> HIDE DEF n, m, k
  <2>7. CASE faults' = faults /\ m = n
    BY <1>3, <2>1, <2>7
  <2>8. CASE faults' = faults + 1
    <3>1. faults' * k = fk + k
      BY <2>4, <2>8
    <3>2. /\ fk \in Nat /\ sent[t][a] <= audited[t][a] + n + fk
          /\ audited[t][a] + n <= sent[t][a]
      BY <1>3, <2>6
    <3> HIDE DEF fk
    <3> QED
      BY <1>1, <1>2, <2>1, <2>3, <3>1, <3>2
  <2> QED
    BY <2>2, <2>5, <2>7, <2>8
<1> QED
  BY <1>4, <1>5 DEF m, k

\* The rows the caps are counted from trail the dispatches sent by exactly those in
\* flight, and by what faults lost: one of the request and one of each worker per fault.
THEOREM AuditTrails == Spec => []AuditTrailsDispatch
<1>1. Init => AuditInv
  <2> SUFFICES ASSUME Init, NEW t \in Txns, NEW a \in Actions
               PROVE  /\ audited[t][a] + Cardinality(InFlight(t, a)) <= sent[t][a]
                      /\ sent[t][a] <= audited[t][a] + Cardinality(InFlight(t, a))
                                         + faults * (1 + Cardinality(Cases))
    BY InitOneRun DEF AuditInv, AuditTrailsDispatch
  <2>1. InFlight(t, a) = {}
    BY GraphsAreProcs DEF Init, InFlight
  <2>2. audited[t][a] = 0 /\ sent[t][a] = 0 /\ faults = 0
    BY DEF Init
  <2>3. Cardinality(InFlight(t, a)) = 0 /\ Cardinality(Cases) \in Nat
    BY <2>1, FS_EmptySet, FiniteAssumption, FS_CardinalityType
  <2> QED
    BY <2>2, <2>3
<1>2. AuditInv => AuditTrailsDispatch
  BY DEF AuditInv
<1> QED
  BY <1>1, <1>2, NextAudit, PTL DEF Spec
-----------------------------------------------------------------------------
(* The voice cap.  A gate counts rows, so it does not see the calls under  *)
(* way: those that passed a gate and have no row.  The calls under way and *)
(* the rows together exceed the cap by the gates passed past such a call.  *)

\* A worker's case is a transaction of its own, not one a gateway event names.
FreshCases == \A c \in Cases, e \in Events : CaseTxn[c] # Mail[e].txn
Unseeded   == \A in \in CaseInputs : in.voice = Unset

Worked ==
  /\ \A r \in Requests : pc[r] # "idle" => job[r].txn = Mail[job[r].event].txn
  /\ \A c \in Cases : pc[c] # "idle" =>
       job[c].txn = CaseTxn[c] /\ state[CaseTxn[c]] # Absent
  /\ \A c, d \in Cases : pc[c] # "idle" /\ pc[d] # "idle" /\ CaseTxn[c] = CaseTxn[d] => c = d

\* The run's playbook is one of the tables', and its input was planned or is a webhook's.
Choosing == {"wait", "execute", "approve", "dispatch", "record"}
Chosen ==
  \A f \in Graphs : /\ pc[f] \in Choosing => job[f].playbook \in Playbooks
                    /\ job[f].input \in CaseInputs \cup {Webhook}

SoloInv == OneRunInv /\ Worked /\ Chosen

LEMMA StatusesKnown ==
  /\ "ABSENT" \notin LifecycleStates
  /\ \A s \in LifecycleStates : s # Absent
BY DEF LifecycleStates, Absent

\* A row is never taken back.
LEMMA RowsStay ==
  ASSUME TypeInv, [Next]_vars, NEW t \in Txns, state[t] # Absent
  PROVE  state'[t] # Absent
<1> USE GraphsAreProcs
<1>0. /\ state \in [Txns -> Statuses]
      /\ \A g \in Procs : job[g].txn \in Txns
  BY DEF TypeInv, TypeOK, JobType
<1>1. ASSUME NEW f \in Graphs, Node(f) PROVE state'[t] # Absent
  <2>1. CASE Ingest(f) \/ ScreenTerminate(f) \/ Wait(f) \/ Escalate(f) \/ Reconcile(f)
    BY <1>0, <2>1 DEF Ingest, ScreenTerminate, Wait, Escalate, Reconcile, Absent
  <2>2. CASE Defer(f) \/ Stop(f) \/ Approve(f)
    BY <1>0, <2>2 DEF Defer, Stop, Approve, Settle, Flush, Absent
  <2>3. CASE ScreenEscalate(f) \/ ScreenContinue(f) \/ Diagnose(f) \/ Execute(f)
             \/ Refuse(f) \/ Dispatch(f) \/ Record(f)
    BY <2>3 DEF ScreenEscalate, ScreenContinue, Diagnose, Execute, Refuse, Dispatch, Record
  <2> QED
    BY <1>1, <2>1, <2>2, <2>3 DEF Node
<1>2. CASE \E r \in Requests : Handler(r)
  BY <1>0, <1>2 DEF Handler, Claim, AnswerDuplicate, RejectUnmapped, Upsert, Respond, Absent
<1>3. CASE \E c \in Cases, in \in CaseInputs, p \in Policies : StartCase(c, in, p)
  BY <1>0, <1>3 DEF StartCase, Absent
<1>4. CASE \E o \in Operators, u \in Txns, s \in HandSet : SetStatus(o, u, s)
  BY <1>0, <1>4, StatusesKnown, DataAssumption DEF SetStatus
<1>5. CASE \/ \E r \in Requests, e \in Events : Deliver(r, e)
           \/ \E c \in Calls, u \in Txns : CallGate(c, u)
           \/ \E c \in Calls : CallRecord(c) \/ CallPlace(c)
           \/ \E x \in Calls \cup Operators : FileTicket(x)
           \/ \E p \in Policies : EditPolicy(p)
           \/ \E x \in Procs : Fail(x)
           \/ Crash \/ UNCHANGED vars
  BY <1>5 DEF Deliver, CallGate, CallRecord, CallPlace, FileTicket, EditPolicy, Fail, Crash, vars
<1> QED
  BY <1>1, <1>2, <1>3, <1>4, <1>5 DEF Next

\* What Deliver and StartCase put in a run's locals.
LEMMA StartedJobs ==
  ASSUME TypeInv
  PROVE  /\ \A r \in Requests, e \in Events : Deliver(r, e) =>
              /\ pc[r] = "idle" /\ pc' = [pc EXCEPT ![r] = "queued"] /\ state' = state
              /\ job'[r].event = e /\ job'[r].txn = Mail[e].txn /\ job'[r].input = Webhook
              /\ \A g \in Procs \ {r} : job'[g] = job[g]
         /\ \A c \in Cases, in \in CaseInputs, p \in Policies : StartCase(c, in, p) =>
              /\ pc[c] = "idle" /\ pc' = [pc EXCEPT ![c] = "ingest"]
              /\ state[CaseTxn[c]] = Absent /\ state'[CaseTxn[c]] # Absent
              /\ job'[c].txn = CaseTxn[c] /\ job'[c].input = in
              /\ \A g \in Procs \ {c} : job'[g] = job[g]
<1> USE GraphsAreProcs
<1>0. job \in [Procs -> JobType] /\ NoJob \in JobType /\ state \in [Txns -> Statuses]
  BY NoJobType DEF TypeInv, TypeOK
<1>1. ASSUME NEW r \in Requests, NEW e \in Events, Deliver(r, e)
      PROVE  /\ pc[r] = "idle" /\ pc' = [pc EXCEPT ![r] = "queued"] /\ state' = state
             /\ job'[r].event = e /\ job'[r].txn = Mail[e].txn /\ job'[r].input = Webhook
             /\ \A g \in Procs \ {r} : job'[g] = job[g]
  <2> DEFINE j == [NoJob EXCEPT !.event = e, !.txn = Mail[e].txn, !.policy = policy]
  <2>1. job' = [job EXCEPT ![r] = j]
    BY <1>1 DEF Deliver
  <2>2. j.event = e /\ j.txn = Mail[e].txn /\ j.input = Webhook
    BY DEF NoJob
  <2> HIDE DEF j
  <2> QED
    BY <1>0, <1>1, <2>1, <2>2 DEF Deliver
<1>2. ASSUME NEW c \in Cases, NEW in \in CaseInputs, NEW p \in Policies, StartCase(c, in, p)
      PROVE  /\ pc[c] = "idle" /\ pc' = [pc EXCEPT ![c] = "ingest"]
             /\ state[CaseTxn[c]] = Absent /\ state'[CaseTxn[c]] # Absent
             /\ job'[c].txn = CaseTxn[c] /\ job'[c].input = in
             /\ \A g \in Procs \ {c} : job'[g] = job[g]
  <2> DEFINE j == [NoJob EXCEPT !.event = c, !.txn = CaseTxn[c], !.input = in, !.policy = p]
  <2>1. job' = [job EXCEPT ![c] = j]
    BY <1>2 DEF StartCase
  <2>2. j.txn = CaseTxn[c] /\ j.input = in
    BY DEF NoJob
  <2>3. CaseTxn[c] \in Txns
    BY DataAssumption
  <2> HIDE DEF j
  <2> QED
    BY <1>0, <1>2, <2>1, <2>2, <2>3 DEF StartCase, Absent
<1> QED
  BY <1>1, <1>2

\* What every other step does to a run's place and its locals.
LEMMA RunsMove ==
  ASSUME TypeInv, [Next]_vars, NEW g \in Graphs,
         ~ \E r \in Requests, e \in Events : Deliver(r, e),
         ~ \E c \in Cases, in \in CaseInputs, p \in Policies : StartCase(c, in, p)
  PROVE  \/ /\ pc[g] = "idle" <=> pc'[g] = "idle"
            /\ job'[g].txn = job[g].txn /\ job'[g].event = job[g].event
            /\ job'[g].input = job[g].input
         \/ g \in Requests /\ pc'[g] = "idle" /\ job'[g] = NoJob
<1> USE GraphsAreProcs
<1>0. pc \in [Procs -> Steps] /\ job \in [Procs -> JobType]
  BY DEF TypeInv, TypeOK
<1>1. ASSUME NEW f \in Graphs, Node(f)
      PROVE  /\ pc[g] = "idle" <=> pc'[g] = "idle"
             /\ job'[g].txn = job[g].txn /\ job'[g].event = job[g].event
             /\ job'[g].input = job[g].input
  <2>1. Control(f) /\ Locals(f) /\ \A q \in Procs \ {f} : pc'[q] = pc[q] /\ job'[q] = job[q]
    BY <1>1, NodeMoves
  <2>2. pc[f] # "idle" /\ pc'[f] # "idle"
    BY <2>1, EndedType, VerdictType DEF Control, NodeSteps
  <2> QED
    BY <2>1, <2>2 DEF Locals
<1>2. CASE \E r \in Requests : Handler(r)
  BY <1>0, <1>2 DEF Handler, Claim, AnswerDuplicate, RejectUnmapped, Upsert, Respond
<1>3. CASE \/ \E c \in Calls, t \in Txns : CallGate(c, t)
           \/ \E c \in Calls : CallRecord(c) \/ CallPlace(c)
           \/ \E o \in Operators, t \in Txns, s \in HandSet : SetStatus(o, t, s)
           \/ \E x \in Calls \cup Operators : FileTicket(x)
           \/ \E p \in Policies : EditPolicy(p)
           \/ UNCHANGED vars
  BY <1>0, <1>3 DEF CallGate, CallRecord, CallPlace, SetStatus, FileTicket, EditPolicy, vars
<1>4. CASE (\E x \in Procs : Fail(x)) \/ Crash
  BY <1>0, <1>4 DEF Fail, Crash, Graphs
<1> QED
  BY <1>1, <1>2, <1>3, <1>4 DEF Next

\* A diagnosis picks a playbook of the tables.
LEMMA NodeChoice ==
  ASSUME TypeInv, NEW f \in Graphs, Node(f), pc'[f] \in Choosing
  PROVE  pc[f] \in Choosing \/ job'[f].playbook \in Playbooks
<1> USE GraphsAreProcs
<1>1. CASE pc[f] = "diagnose"
  <2>1. Diagnose(f)
    BY <1>1 DEF Node, Ingest, ScreenTerminate, ScreenEscalate, ScreenContinue, Wait, Execute,
         Defer, Stop, Approve, Settle, Refuse, Escalate, Dispatch, Record, Reconcile
  <2>2. PICK p \in Advice \cup {DefaultPlaybook[job[f].class]}, d \in Discounts :
          job' = [job EXCEPT
                   ![f].playbook = IF job[f].input.playbook = "NONE" THEN p
                                   ELSE job[f].input.playbook,
                   ![f].discount = d]
    BY <2>1 DEF Diagnose
  <2>3. job \in [Procs -> JobType] /\ job[f].class \in 1..4
        /\ job[f].input.playbook \in Playbooks \cup {"NONE"}
    BY <1>1 DEF TypeInv, TypeOK, ClassKnown, JobType, InputType
  <2>4. p \in Playbooks
    BY <2>3, PlaybookTables, DataAssumption
  <2> DEFINE chosen == IF job[f].input.playbook = "NONE" THEN p ELSE job[f].input.playbook
  <2>5. chosen \in Playbooks
    BY <2>3, <2>4
  <2>6. job' = [job EXCEPT ![f].playbook = chosen, ![f].discount = d]
    BY <2>2
  <2> HIDE DEF chosen
  <2>7. job'[f].playbook = chosen
    BY <2>3, <2>6 DEF JobType
  <2> QED
    BY <2>5, <2>7
<1>2. CASE pc[f] # "diagnose"
  <2>1. Control(f)
    BY NodeMoves
  <2> QED
    BY <1>2, <2>1, EndedType, VerdictType DEF Control, Choosing, NodeSteps
<1> QED
  BY <1>1, <1>2

LEMMA NextSolo == SoloInv /\ [Next]_vars => SoloInv'
<1> SUFFICES ASSUME SoloInv, [Next]_vars PROVE Worked' /\ Chosen'
  BY NextOneRun DEF SoloInv
<1> USE GraphsAreProcs
<1>0. TypeInv /\ Worked /\ Chosen /\ pc \in [Procs -> Steps] /\ TypeInv'
  BY NextType DEF SoloInv, OneRunInv, TypeInv, TypeOK
<1>1. \A c \in Cases : CaseTxn[c] \in Txns
  BY DataAssumption
<1>2. CASE \E r \in Requests, e \in Events : Deliver(r, e)
  <2>1. PICK r \in Requests, e \in Events : Deliver(r, e)
    BY <1>2
  <2>2. /\ pc' = [pc EXCEPT ![r] = "queued"] /\ state' = state
        /\ job'[r].event = e /\ job'[r].txn = Mail[e].txn /\ job'[r].input = Webhook
        /\ \A g \in Procs \ {r} : job'[g] = job[g]
    BY <1>0, <2>1, StartedJobs
  <2>3. \A g \in Procs : pc'[g] = IF g = r THEN "queued" ELSE pc[g]
    BY <1>0, <2>2
  <2>4. Worked'
    BY <1>0, <2>2, <2>3 DEF Worked
  <2>5. Chosen'
    BY <1>0, <2>2, <2>3 DEF Chosen, Choosing
  <2> QED
    BY <2>4, <2>5
<1>3. CASE \E c \in Cases, in \in CaseInputs, p \in Policies : StartCase(c, in, p)
  <2>1. PICK c \in Cases, in \in CaseInputs, p \in Policies : StartCase(c, in, p)
    BY <1>3
  <2>2. /\ pc[c] = "idle" /\ pc' = [pc EXCEPT ![c] = "ingest"]
        /\ state[CaseTxn[c]] = Absent /\ state'[CaseTxn[c]] # Absent
        /\ job'[c].txn = CaseTxn[c] /\ job'[c].input = in
        /\ \A g \in Procs \ {c} : job'[g] = job[g]
    BY <1>0, <2>1, StartedJobs
  <2>3. \A g \in Procs : pc'[g] = IF g = c THEN "ingest" ELSE pc[g]
    BY <1>0, <2>2
  <2>4. \A d \in Cases : pc[d] # "idle" => state'[CaseTxn[d]] # Absent
    BY <1>0, <1>1, RowsStay DEF Worked
  <2>5. Worked'
    BY <1>0, <2>2, <2>3, <2>4 DEF Worked
  <2>6. Chosen'
    BY <1>0, <2>2, <2>3 DEF Chosen, Choosing
  <2> QED
    BY <2>5, <2>6
<1>4. CASE /\ ~ \E r \in Requests, e \in Events : Deliver(r, e)
           /\ ~ \E c \in Cases, in \in CaseInputs, p \in Policies : StartCase(c, in, p)
  <2>1. \A g \in Graphs :
          \/ /\ pc[g] = "idle" <=> pc'[g] = "idle"
             /\ job'[g].txn = job[g].txn /\ job'[g].event = job[g].event
             /\ job'[g].input = job[g].input
          \/ g \in Requests /\ pc'[g] = "idle" /\ job'[g] = NoJob
    BY <1>0, <1>4, RunsMove
  <2>2. \A c \in Cases : pc[c] # "idle" => state'[CaseTxn[c]] # Absent
    BY <1>0, <1>1, RowsStay DEF Worked
  <2>3. Worked'
    BY <1>0, <2>1, <2>2 DEF Worked
  <2>4. NoJob.input = Webhook
    BY DEF NoJob
  <2>5. ASSUME NEW g \in Graphs, pc'[g] \in Choosing PROVE job'[g].playbook \in Playbooks
    <3>1. CASE \E f \in Graphs : Node(f)
      <4>1. PICK f \in Graphs : Node(f)
        BY <3>1
      <4>2. Control(f) /\ Locals(f) /\ \A q \in Procs \ {f} : pc'[q] = pc[q] /\ job'[q] = job[q]
        BY <1>0, <4>1, NodeMoves
      <4>3. pc[f] \in Choosing => job'[f].playbook = job[f].playbook
        BY <4>2 DEF Locals, Choosing
      <4> QED
        BY <1>0, <2>5, <4>1, <4>2, <4>3, NodeChoice DEF Chosen
    <3>2. CASE ~ \E f \in Graphs : Node(f)
      BY <1>0, <2>5, <3>2, OthersMove DEF Chosen, Choosing
    <3> QED
      BY <3>1, <3>2
  <2>6. Chosen'
    BY <1>0, <2>1, <2>4, <2>5 DEF Chosen
  <2> QED
    BY <2>3, <2>6
<1> QED
  BY <1>2, <1>3, <1>4

\* No two runs are at a node for the same transaction.
LEMMA Alone ==
  ASSUME FreshCases, SoloInv, NEW f \in Graphs, NEW g \in Graphs,
         pc[f] \in NodeSteps, pc[g] \in NodeSteps, job[f].txn = job[g].txn
  PROVE  f = g
<1>1. pc[f] \notin {"idle", "queued"} /\ pc[g] \notin {"idle", "queued"}
  BY DEF NodeSteps
<1>2. \A r \in Requests : pc[r] # "idle" => job[r].event \in Events
  BY DEF SoloInv, OneRunInv, TypeInv, EventCarried
<1>3. CASE f \in Requests /\ g \in Requests
  BY <1>1, <1>3 DEF SoloInv, OneRunInv, EventOwned
<1>4. CASE f \in Cases /\ g \in Cases
  BY <1>1, <1>4 DEF SoloInv, Worked
<1>5. CASE (f \in Cases /\ g \in Requests) \/ (f \in Requests /\ g \in Cases)
  BY <1>1, <1>2, <1>5 DEF SoloInv, Worked, FreshCases
<1> QED
  BY <1>3, <1>4, <1>5 DEF Graphs

\* How a step may touch the calls under way for t: none is added and nothing counted,
\* a gate is passed, or one of them writes its row.
Leaves(t) ==
  /\ Dialling(t)' \subseteq Dialling(t)
  /\ VoiceAttempts(t)' = VoiceAttempts(t) /\ overlaps'[t] = overlaps[t]
Passes(t) ==
  /\ VoiceAttempts(t) + 1 <= VoiceAttemptCap /\ VoiceAttempts(t)' = VoiceAttempts(t)
  /\ \E x : Dialling(t)' \subseteq Dialling(t) \cup {x}
  /\ overlaps'[t] = IF Dialling(t) # {} THEN overlaps[t] + 1 ELSE overlaps[t]
Writes(t) ==
  /\ VoiceAttempts(t)' = VoiceAttempts(t) + 1 /\ overlaps'[t] = overlaps[t]
  /\ \E x \in Dialling(t) : Dialling(t)' \subseteq Dialling(t) \ {x}

Calling(t) == InFlight(t, "VOICE_CALL")
Placing(t) == {c \in Calls : pc[c] = "callPlace" /\ job[c].txn = t}

\* Calls under way exceed the attempts left by no more than the overlaps.
Bounded(t) ==
  /\ Cardinality(Dialling(t)) <= overlaps[t] + 1
  /\ VoiceAttempts(t) + Cardinality(Dialling(t)) <= VoiceAttemptCap + overlaps[t]
\* A run's call is told before it is audited, by one run at a time.
Told(t) ==
  \/ sent[t]["VOICE_CALL"] <= audited[t]["VOICE_CALL"] + faults
  \/ /\ sent[t]["VOICE_CALL"] <= audited[t]["VOICE_CALL"] + 1 + faults
     /\ Calling(t) # {}
\* A caller's is audited before it is placed.
Placed(t) == placed[t] + Cardinality(Placing(t)) <= callRows[t]

CapInv == SoloInv /\ \A t \in Txns : Bounded(t) /\ Told(t) /\ Placed(t)

LEMMA CallNumbers ==
  ASSUME TypeInv, NEW t \in Txns
  PROVE  /\ audited[t]["VOICE_CALL"] \in Nat /\ sent[t]["VOICE_CALL"] \in Nat
         /\ callRows[t] \in Nat /\ placed[t] \in Nat /\ overlaps[t] \in Nat
         /\ faults \in Nat /\ VoiceAttempts(t) \in Nat /\ VoiceAttemptCap \in Nat
<1>1. /\ audited \in [Txns -> [Actions -> Nat]] /\ sent \in [Txns -> [Actions -> Nat]]
      /\ callRows \in [Txns -> Nat] /\ placed \in [Txns -> Nat]
      /\ overlaps \in [Txns -> Nat] /\ faults \in Nat /\ "VOICE_CALL" \in Actions
  BY DEF TypeInv, TypeOK, Actions
<1> QED
  BY <1>1 DEF VoiceAttempts, VoiceAttemptCap

\* One request holds the loop; the workers and the callers are finitely many.
LEMMA DiallingFinite ==
  ASSUME TypeInv, EventOwned, NEW t
  PROVE  /\ IsFiniteSet(Dialling(t)) /\ Cardinality(Dialling(t)) \in Nat
         /\ IsFiniteSet(Placing(t)) /\ Cardinality(Placing(t)) \in Nat
<1>1. Dialling(t) \subseteq (Cases \cup Calls) \cup {loop}
  BY DEF Dialling, EventOwned, Graphs
<1>2. IsFiniteSet(Cases \cup Calls)
  BY FiniteAssumption, FS_Union
<1>3. IsFiniteSet((Cases \cup Calls) \cup {loop})
  BY <1>2, FS_AddElement
<1>4. Placing(t) \subseteq Calls
  BY DEF Placing
<1> QED
  BY <1>1, <1>3, <1>4, FiniteAssumption, FS_Subset, FS_CardinalityType

\* A voice gate that approves has counted fewer attempts than the cap.
LEMMA GateCounts ==
  ASSUME TypeInv, NEW f \in Graphs, NEW hour, GateVerdict(f, hour) = "approve",
         job[f].playbook \in Playbooks, Act(f) = "VOICE_CALL", job[f].input.voice = Unset
  PROVE  VoiceAttempts(job[f].txn) + 1 <= VoiceAttemptCap
<1> USE GraphsAreProcs
<1>1. Chan(f) = "VOICE"
  BY DEF Act, Chan, PlaybookAction, PlaybookChannel, Playbooks
<1>2. ~VoiceAttemptsExhausted(VoiceAttempts(job[f].txn))
  BY <1>1 DEF GateVerdict, Capped, VoiceCount
<1>3. job[f].txn \in Txns
  BY DEF TypeInv, TypeOK, JobType
<1> QED
  BY <1>2, <1>3, CallNumbers DEF VoiceAttemptsExhausted, VoiceAttemptCap

\* What a run's step does to the calls under way.
LEMMA NodeDials ==
  ASSUME Unseeded, SoloInv, NEW f \in Graphs, Node(f), NEW t \in Txns
  PROVE  Leaves(t) \/ Passes(t) \/ Writes(t)
<1> USE GraphsAreProcs
<1>0. /\ TypeInv /\ Control(f) /\ Locals(f) /\ faults' = faults
      /\ \A q \in Procs \ {f} : pc'[q] = pc[q] /\ job'[q] = job[q]
  BY NodeMoves DEF SoloInv, OneRunInv
<1>1. /\ callRows' = callRows
      /\ audited' = IF pc[f] = "record" THEN [audited EXCEPT ![job[f].txn][Act(f)] = @ + 1]
                    ELSE audited
  BY NodeCells
<1>2. ASSUME NEW x, x # f PROVE x \in Dialling(t)' <=> x \in Dialling(t)
  <2>1. x \in Procs => pc'[x] = pc[x] /\ job'[x] = job[x]
    BY <1>0, <1>2
  <2> QED
    BY <2>1 DEF Dialling, Act
<1>3. f \in Graphs /\ f \notin Calls
  OBVIOUS
<1>4. /\ f \in Dialling(t)' <=> /\ job'[f].txn = t /\ Act(f)' = "VOICE_CALL"
                               /\ pc'[f] \in {"approve", "dispatch", "record"}
      /\ f \in Dialling(t) <=> /\ job[f].txn = t /\ Act(f) = "VOICE_CALL"
                              /\ pc[f] \in {"approve", "dispatch", "record"}
  BY <1>3 DEF Dialling
<1>5. CASE pc[f] = "execute"
  <2>1. PICK h : /\ job'[f].hour = h /\ pc'[f] = GateVerdict(f, h)
                 /\ NoteOverlap(job[f].txn, Act(f) = "VOICE_CALL" /\ GateVerdict(f, h) = "approve")
    <3>1. Execute(f)
      BY <1>5 DEF Node, Ingest, ScreenTerminate, ScreenEscalate, ScreenContinue, Diagnose, Wait,
           Defer, Stop, Approve, Settle, Refuse, Escalate, Dispatch, Record, Reconcile
    <3>2. PICK h : /\ job' = [job EXCEPT ![f].hour = h, ![f].seen = state[job[f].txn]]
                   /\ pc' = [pc EXCEPT ![f] = GateVerdict(f, h)]
                   /\ NoteOverlap(job[f].txn, Act(f) = "VOICE_CALL" /\ GateVerdict(f, h) = "approve")
      BY <3>1 DEF Execute
    <3>3. job' = [job EXCEPT ![f] = [job[f] EXCEPT !.hour = h, !.seen = state[job[f].txn]]]
          /\ job[f] \in JobType /\ pc \in [Procs -> Steps] /\ job \in [Procs -> JobType]
      BY <1>0, <3>2 DEF TypeInv, TypeOK
    <3>4. job'[f].hour = h /\ pc'[f] = GateVerdict(f, h)
      BY <3>2, <3>3 DEF JobType
    <3> QED
      BY <3>2, <3>4
  <2>2. /\ job'[f].txn = job[f].txn /\ Act(f)' = Act(f) /\ f \notin Dialling(t)
        /\ VoiceAttempts(t)' = VoiceAttempts(t) /\ job[f].txn \in Txns
        /\ overlaps \in [Txns -> Nat]
    BY <1>0, <1>1, <1>4, <1>5 DEF Locals, Act, VoiceAttempts, TypeInv, TypeOK, JobType
  <2>3. CASE job[f].txn = t /\ Act(f) = "VOICE_CALL" /\ GateVerdict(f, h) = "approve"
    <3>1. job[f].playbook \in Playbooks /\ job[f].input.voice = Unset
      BY <1>5 DEF SoloInv, Chosen, Choosing, Unseeded, Webhook
    <3>2. VoiceAttempts(t) + 1 <= VoiceAttemptCap
      BY <1>0, <2>3, <3>1, GateCounts
    <3>3. Dialling(t)' \subseteq Dialling(t) \cup {f}
      BY <1>2
    <3>4. overlaps'[t] = IF Dialling(t) # {} THEN overlaps[t] + 1 ELSE overlaps[t]
      BY <2>1, <2>2, <2>3 DEF NoteOverlap
    <3> QED
      BY <2>2, <3>2, <3>3, <3>4 DEF Passes
  <2>4. CASE ~(job[f].txn = t /\ Act(f) = "VOICE_CALL" /\ GateVerdict(f, h) = "approve")
    <3>1. f \notin Dialling(t)'
      BY <1>4, <2>1, <2>2, <2>4, VerdictType
    <3>2. overlaps'[t] = overlaps[t]
      BY <2>1, <2>2, <2>4 DEF NoteOverlap
    <3> QED
      BY <1>2, <2>2, <3>1, <3>2 DEF Leaves
  <2> QED
    BY <2>3, <2>4
<1>6. pc[f] # "execute" => overlaps' = overlaps
  BY DEF Node, Ingest, ScreenTerminate, ScreenEscalate, ScreenContinue, Diagnose, Wait, Execute,
       Defer, Stop, Approve, Settle, Refuse, Escalate, Dispatch, Record, Reconcile
<1>7. CASE pc[f] = "record"
  <2>1. /\ audited \in [Txns -> [Actions -> Nat]] /\ job[f].txn \in Txns
        /\ "VOICE_CALL" \in Actions
    BY <1>0 DEF TypeInv, TypeOK, JobType, Actions
  <2>2. audited'[t]["VOICE_CALL"] = IF t = job[f].txn /\ "VOICE_CALL" = Act(f)
                                    THEN audited[t]["VOICE_CALL"] + 1
                                    ELSE audited[t]["VOICE_CALL"]
    BY <1>1, <1>7, <2>1, BumpCell
  <2>3. f \notin Dialling(t)'
    BY <1>0, <1>4, <1>7 DEF Control
  <2>4. CASE t = job[f].txn /\ "VOICE_CALL" = Act(f)
    <3>1. f \in Dialling(t) /\ Dialling(t)' \subseteq Dialling(t) \ {f}
      BY <1>2, <1>4, <1>7, <2>3, <2>4
    <3>2. VoiceAttempts(t)' = VoiceAttempts(t) + 1
      BY <1>0, <1>1, <2>2, <2>4, CallNumbers DEF VoiceAttempts
    <3> QED
      BY <1>6, <1>7, <3>1, <3>2 DEF Writes
  <2>5. CASE ~(t = job[f].txn /\ "VOICE_CALL" = Act(f))
    BY <1>1, <1>2, <1>6, <1>7, <2>2, <2>3, <2>5 DEF Leaves, VoiceAttempts
  <2> QED
    BY <2>4, <2>5
<1>8. CASE pc[f] \notin {"execute", "record"}
  <2>1. f \in Dialling(t)' => f \in Dialling(t)
    <3>1. pc'[f] \in {"approve", "dispatch", "record"} => pc[f] \in {"approve", "dispatch"}
      BY <1>0, <1>8, EndedType DEF Control, NodeSteps
    <3>2. pc[f] \in {"approve", "dispatch"} => job'[f].txn = job[f].txn /\ Act(f)' = Act(f)
      BY <1>0 DEF Locals, Act
    <3> QED
      BY <1>4, <3>1, <3>2
  <2> QED
    BY <1>1, <1>2, <1>6, <1>8, <2>1 DEF Leaves, VoiceAttempts
<1> QED
  BY <1>5, <1>7, <1>8

\* What any other step does to them, and to the calls that are to be placed.
LEMMA OthersDial ==
  ASSUME SoloInv, [Next]_vars, ~ \E f \in Graphs : Node(f), NEW t \in Txns
  PROVE  Leaves(t) \/ Passes(t) \/ Writes(t)
<1> USE GraphsAreProcs
<1>0. /\ TypeInv /\ pc \in [Procs -> Steps] /\ job \in [Procs -> JobType]
      /\ callRows \in [Txns -> Nat] /\ overlaps \in [Txns -> Nat]
      /\ \A x \in Procs : job[x].txn \in Txns
      /\ sent' = sent /\ audited' = audited
  BY OthersCells DEF SoloInv, OneRunInv, TypeInv, TypeOK, JobType
<1>1. ASSUME NEW f \in Graphs, f \in Dialling(t)' PROVE f \in Dialling(t)
  <2>1. f \notin Calls
    OBVIOUS
  <2>2. pc'[f] \in {"approve", "dispatch", "record"} /\ Act(f)' = "VOICE_CALL"
        /\ job'[f].txn = t
    BY <1>1, <2>1 DEF Dialling
  <2>3. pc'[f] = pc[f] /\ job'[f] = job[f]
    BY <1>0, <2>2, OthersMove
  <2> QED
    BY <2>2, <2>3 DEF Dialling, Act
<1>2. ASSUME NEW c \in Calls, pc'[c] = pc[c], job'[c] = job[c] \/ job'[c].txn = job[c].txn
      PROVE  c \in Dialling(t)' => c \in Dialling(t)
  <2>1. c \notin Graphs
    OBVIOUS
  <2> QED
    BY <1>2, <2>1 DEF Dialling
<1>3. ASSUME callRows' = callRows, overlaps' = overlaps,
             \A c \in Calls : pc'[c] = "callRecord" => pc'[c] = pc[c] /\ job'[c] = job[c]
      PROVE  Leaves(t)
  <2>1. ASSUME NEW c \in Calls, c \in Dialling(t)' PROVE c \in Dialling(t)
    <3>1. c \notin Graphs
      OBVIOUS
    <3> QED
      BY <1>3, <2>1, <3>1 DEF Dialling
  <2>2. Dialling(t)' \subseteq Graphs \cup Calls
    BY DEF Dialling
  <2> QED
    BY <1>0, <1>1, <1>3, <2>1, <2>2 DEF Leaves, VoiceAttempts
<1>4. CASE \/ \E r \in Requests, e \in Events : Deliver(r, e)
           \/ \E r \in Requests : Handler(r)
           \/ \E c \in Cases, in \in CaseInputs, p \in Policies : StartCase(c, in, p)
           \/ \E o \in Operators, u \in Txns, s \in HandSet : SetStatus(o, u, s)
           \/ \E p \in Policies : EditPolicy(p)
           \/ UNCHANGED vars
  <2>1. callRows' = callRows /\ overlaps' = overlaps
    BY <1>4 DEF Deliver, Handler, Claim, AnswerDuplicate, RejectUnmapped, Upsert, Respond,
         StartCase, SetStatus, EditPolicy, vars
  <2>2. \A c \in Calls : pc'[c] = pc[c] /\ job'[c] = job[c]
    <3>1. CASE \E r \in Requests, e \in Events : Deliver(r, e)
      BY <1>0, <3>1 DEF Deliver
    <3>2. CASE \E r \in Requests : Handler(r)
      BY <1>0, <3>2 DEF Handler, Claim, AnswerDuplicate, RejectUnmapped, Upsert, Respond
    <3>3. CASE \E c \in Cases, in \in CaseInputs, p \in Policies : StartCase(c, in, p)
      BY <1>0, <3>3 DEF StartCase
    <3>4. CASE \E o \in Operators, u \in Txns, s \in HandSet : SetStatus(o, u, s)
      BY <1>0, <3>4 DEF SetStatus
    <3>5. CASE (\E p \in Policies : EditPolicy(p)) \/ UNCHANGED vars
      BY <3>5 DEF EditPolicy, vars
    <3> QED
      BY <1>4, <3>1, <3>2, <3>3, <3>4, <3>5
  <2> QED
    BY <1>3, <2>1, <2>2
<1>5. CASE \/ \E c \in Calls : CallPlace(c)
           \/ \E x \in Calls \cup Operators : FileTicket(x)
           \/ \E x \in Procs : Fail(x)
           \/ Crash
  <2>1. callRows' = callRows /\ overlaps' = overlaps
    BY <1>5 DEF CallPlace, FileTicket, Fail, Crash
  <2>2. \A c \in Calls : pc'[c] = "callRecord" => pc'[c] = pc[c] /\ job'[c] = job[c]
    BY <1>0, <1>5 DEF CallPlace, FileTicket, Fail, Crash
  <2> QED
    BY <1>3, <2>1, <2>2
<1>6. ASSUME NEW c \in Calls, NEW u \in Txns, CallGate(c, u)
      PROVE  Leaves(t) \/ Passes(t)
  <2>1. PICK h : /\ pc' = [pc EXCEPT ![c] = CallVerdict(u, h)]
                 /\ NoteOverlap(u, CallVerdict(u, h) = "callRecord")
    BY <1>6 DEF CallGate
  <2>2. /\ job' = [job EXCEPT ![c] = [job[c] EXCEPT !.txn = u]] /\ callRows' = callRows
        /\ pc[c] = "idle" /\ job[c] \in JobType
    BY <1>0, <1>6 DEF CallGate
  <2>3. /\ pc'[c] = CallVerdict(u, h) /\ job'[c].txn = u
        /\ \A d \in Procs \ {c} : pc'[d] = pc[d] /\ job'[d] = job[d]
    BY <1>0, <2>1, <2>2 DEF JobType
  <2>4. c \notin Graphs
    OBVIOUS
  <2>5. VoiceAttempts(t)' = VoiceAttempts(t)
    BY <1>0, <2>2 DEF VoiceAttempts
  <2>6. \A x : x # c /\ x \in Dialling(t)' => x \in Dialling(t)
    BY <1>1, <2>3 DEF Dialling
  <2>7. CASE u = t /\ CallVerdict(u, h) = "callRecord"
    <3>1. ~VoiceAttemptsExhausted(VoiceAttempts(t))
      BY <2>7 DEF CallVerdict
    <3>2. VoiceAttempts(t) + 1 <= VoiceAttemptCap
      BY <1>0, <3>1, CallNumbers DEF VoiceAttemptsExhausted, VoiceAttemptCap
    <3>3. Dialling(t)' \subseteq Dialling(t) \cup {c}
      BY <2>6
    <3>4. overlaps'[t] = IF Dialling(t) # {} THEN overlaps[t] + 1 ELSE overlaps[t]
      BY <1>0, <2>1, <2>7 DEF NoteOverlap
    <3> QED
      BY <2>5, <3>2, <3>3, <3>4 DEF Passes
  <2>8. CASE ~(u = t /\ CallVerdict(u, h) = "callRecord")
    <3>1. c \notin Dialling(t)'
      BY <2>3, <2>4, <2>8 DEF Dialling
    <3>2. overlaps'[t] = overlaps[t]
      BY <1>0, <2>1, <2>8 DEF NoteOverlap
    <3> QED
      BY <2>5, <2>6, <3>1, <3>2 DEF Leaves
  <2> QED
    BY <2>7, <2>8
<1>7. ASSUME NEW c \in Calls, CallRecord(c) PROVE Leaves(t) \/ Writes(t)
  <2>1. /\ pc[c] = "callRecord" /\ pc' = [pc EXCEPT ![c] = "callPlace"] /\ job' = job
        /\ callRows' = [callRows EXCEPT ![job[c].txn] = @ + 1] /\ overlaps' = overlaps
        /\ job[c].txn \in Txns /\ c \notin Graphs
    BY <1>0, <1>7 DEF CallRecord
  <2>2. c \notin Dialling(t)' /\ \A x : x # c /\ x \in Dialling(t)' => x \in Dialling(t)
    <3>1. pc'[c] = "callPlace" /\ \A d \in Procs \ {c} : pc'[d] = pc[d]
      BY <1>0, <2>1
    <3> QED
      BY <1>1, <2>1, <3>1 DEF Dialling
  <2>3. callRows'[t] = IF job[c].txn = t THEN callRows[t] + 1 ELSE callRows[t]
    BY <1>0, <2>1
  <2>4. CASE job[c].txn = t
    <3>1. c \in Dialling(t) /\ Dialling(t)' \subseteq Dialling(t) \ {c}
      BY <2>1, <2>2, <2>4 DEF Dialling
    <3>2. audited[t]["VOICE_CALL"] \in Nat /\ callRows[t] \in Nat
      BY <1>0, CallNumbers
    <3>3. VoiceAttempts(t)' = audited[t]["VOICE_CALL"] + (callRows[t] + 1)
      BY <1>0, <2>3, <2>4 DEF VoiceAttempts
    <3>4. VoiceAttempts(t)' = VoiceAttempts(t) + 1
      BY <3>2, <3>3 DEF VoiceAttempts
    <3> QED
      BY <2>1, <3>1, <3>4 DEF Writes
  <2>5. CASE job[c].txn # t
    BY <1>0, <2>1, <2>2, <2>3, <2>5 DEF Leaves, VoiceAttempts
  <2> QED
    BY <2>4, <2>5
<1> QED
  BY <1>4, <1>5, <1>6, <1>7 DEF Next

LEMMA NextBounded ==
  ASSUME Unseeded, SoloInv, [Next]_vars, NEW t \in Txns, Bounded(t)
  PROVE  Bounded(t)'
<1> USE GraphsAreProcs
<1>0. /\ TypeInv /\ EventOwned /\ TypeInv' /\ EventOwned'
      /\ Leaves(t) \/ Passes(t) \/ Writes(t)
  BY NextSolo, NodeDials, OthersDial DEF SoloInv, OneRunInv
<1> DEFINE D == Cardinality(Dialling(t))
           E == Cardinality(Dialling(t)')
           V == VoiceAttempts(t)
           W == VoiceAttempts(t)'
           o == overlaps[t]
           n == overlaps'[t]
<1>1. IsFiniteSet(Dialling(t)) /\ D \in Nat
  BY <1>0, DiallingFinite
<1>2. V \in Nat /\ o \in Nat /\ VoiceAttemptCap \in Nat
  BY <1>0, CallNumbers
<1>3. D <= o + 1 /\ V + D <= VoiceAttemptCap + o
  BY DEF Bounded
<1>4. CASE Leaves(t)
  <2>1. E \in Nat /\ E <= D /\ W = V /\ n = o
    BY <1>1, <1>4, FS_Subset, FS_CardinalityType DEF Leaves
  <2> HIDE DEF D, E, V, W, o, n
  <2>2. E <= n + 1 /\ W + E <= VoiceAttemptCap + n
    BY <1>1, <1>2, <1>3, <2>1
  <2> QED
    BY <2>2 DEF Bounded, D, E, V, W, o, n
<1>5. CASE Passes(t)
  <2>1. E \in Nat /\ E <= D + 1 /\ W = V /\ V + 1 <= VoiceAttemptCap
    <3>1. PICK x : Dialling(t)' \subseteq Dialling(t) \cup {x}
      BY <1>5 DEF Passes
    <3>2. /\ IsFiniteSet(Dialling(t) \cup {x})
          /\ Cardinality(Dialling(t) \cup {x}) \in {D, D + 1}
      BY <1>1, FS_AddElement
    <3>3. E \in Nat /\ E <= Cardinality(Dialling(t) \cup {x})
      BY <3>1, <3>2, FS_Subset, FS_CardinalityType
    <3> QED
      BY <1>1, <1>5, <3>2, <3>3 DEF Passes
  <2>2. \/ D = 0 /\ n = o
        \/ D > 0 /\ n = o + 1
    BY <1>1, <1>5, FS_EmptySet DEF Passes
  <2> HIDE DEF D, E, V, W, o, n
  <2>3. E <= n + 1 /\ W + E <= VoiceAttemptCap + n
    BY <1>1, <1>2, <1>3, <2>1, <2>2
  <2> QED
    BY <2>3 DEF Bounded, D, E, V, W, o, n
<1>6. CASE Writes(t)
  <2>1. E \in Nat /\ E <= D - 1 /\ W = V + 1 /\ n = o
    <3>1. PICK x \in Dialling(t) : Dialling(t)' \subseteq Dialling(t) \ {x}
      BY <1>6 DEF Writes
    <3>2. IsFiniteSet(Dialling(t) \ {x}) /\ Cardinality(Dialling(t) \ {x}) = D - 1
      BY <1>1, FS_RemoveElement
    <3>3. E \in Nat /\ E <= Cardinality(Dialling(t) \ {x})
      BY <3>1, <3>2, FS_Subset, FS_CardinalityType
    <3> QED
      BY <1>6, <3>2, <3>3 DEF Writes
  <2> HIDE DEF D, E, V, W, o, n
  <2>2. E <= n + 1 /\ W + E <= VoiceAttemptCap + n
    BY <1>1, <1>2, <1>3, <2>1
  <2> QED
    BY <2>2 DEF Bounded, D, E, V, W, o, n
<1> QED
  BY <1>0, <1>4, <1>5, <1>6

LEMMA NextTold ==
  ASSUME FreshCases, SoloInv, [Next]_vars, NEW t \in Txns, Told(t)
  PROVE  Told(t)'
<1> USE GraphsAreProcs
<1>0. TypeInv /\ TypeInv' /\ OneRunInv
  BY NextSolo DEF SoloInv, OneRunInv
<1>1. /\ audited[t]["VOICE_CALL"] \in Nat /\ sent[t]["VOICE_CALL"] \in Nat /\ faults \in Nat
      /\ "VOICE_CALL" \in Actions
  BY <1>0, CallNumbers DEF Actions
<1>2. CASE \E f \in Graphs : Node(f)
  <2>1. PICK f \in Graphs : Node(f)
    BY <1>2
  <2>2. Control(f) /\ Locals(f) /\ faults' = faults
    BY <1>0, <2>1, NodeMoves
  <2> DEFINE own == job[f].txn = t /\ Act(f) = "VOICE_CALL"
  <2>3. /\ sent'[t]["VOICE_CALL"] = IF pc[f] = "dispatch" /\ own
                                    THEN sent[t]["VOICE_CALL"] + 1 ELSE sent[t]["VOICE_CALL"]
        /\ audited'[t]["VOICE_CALL"] = IF pc[f] = "record" /\ own
                                       THEN audited[t]["VOICE_CALL"] + 1
                                       ELSE audited[t]["VOICE_CALL"]
    <3>1. /\ sent' = IF pc[f] = "dispatch" THEN [sent EXCEPT ![job[f].txn][Act(f)] = @ + 1]
                     ELSE sent
          /\ audited' = IF pc[f] = "record"
                        THEN [audited EXCEPT ![job[f].txn][Act(f)] = @ + 1] ELSE audited
      BY <2>1, NodeCells
    <3>2. /\ audited \in [Txns -> [Actions -> Nat]] /\ sent \in [Txns -> [Actions -> Nat]]
          /\ job[f].txn \in Txns
      BY <1>0 DEF TypeInv, TypeOK, JobType
    <3>3. [sent EXCEPT ![job[f].txn][Act(f)] = @ + 1][t]["VOICE_CALL"] =
            IF t = job[f].txn /\ "VOICE_CALL" = Act(f) THEN sent[t]["VOICE_CALL"] + 1
            ELSE sent[t]["VOICE_CALL"]
      BY <1>1, <3>2, BumpCell
    <3>4. [audited EXCEPT ![job[f].txn][Act(f)] = @ + 1][t]["VOICE_CALL"] =
            IF t = job[f].txn /\ "VOICE_CALL" = Act(f) THEN audited[t]["VOICE_CALL"] + 1
            ELSE audited[t]["VOICE_CALL"]
      BY <1>1, <3>2, BumpCell
    <3> QED
      BY <3>1, <3>3, <3>4
  <2>4. Calling(t)' = IF own THEN IF pc[f] = "dispatch" THEN Calling(t) \cup {f}
                                  ELSE IF pc[f] = "record" THEN Calling(t) \ {f}
                                  ELSE Calling(t)
                      ELSE Calling(t)
    BY <1>0, <1>1, <2>1, NodeFlight DEF Calling
  <2>5. own => Calling(t) \subseteq {f}
    BY <2>2, Alone DEF Calling, InFlight, Control, NodeSteps
  <2>6. own /\ pc[f] = "dispatch" => Calling(t) = {} /\ Calling(t)' # {}
    BY <2>4, <2>5 DEF Calling, InFlight
  <2>7. own /\ pc[f] = "record" => Calling(t)' = {}
    BY <2>4, <2>5
  <2> HIDE DEF own
  <2>8. CASE own /\ pc[f] = "dispatch"
    BY <1>1, <2>2, <2>3, <2>6, <2>8 DEF Told
  <2>9. CASE own /\ pc[f] = "record"
    BY <1>1, <2>2, <2>3, <2>9 DEF Told
  <2>10. CASE ~(own /\ pc[f] \in {"dispatch", "record"})
    BY <1>1, <2>2, <2>3, <2>4, <2>10 DEF Told
  <2> QED
    BY <2>8, <2>9, <2>10
<1>3. CASE ~ \E f \in Graphs : Node(f)
  <2>1. sent' = sent /\ audited' = audited
    BY <1>3, OthersCells
  <2>2. \/ faults' = faults /\ Calling(t)' = Calling(t)
        \/ faults' = faults + 1
    BY <1>0, <1>3, OthersFlight DEF Calling
  <2> QED
    BY <1>1, <2>1, <2>2 DEF Told
<1> QED
  BY <1>2, <1>3

LEMMA NextPlaced ==
  ASSUME SoloInv, [Next]_vars, NEW t \in Txns, Placed(t)
  PROVE  Placed(t)'
<1> USE GraphsAreProcs
<1>0. /\ TypeInv /\ EventOwned /\ TypeInv' /\ EventOwned'
      /\ pc \in [Procs -> Steps] /\ job \in [Procs -> JobType]
      /\ callRows \in [Txns -> Nat] /\ placed \in [Txns -> Nat]
      /\ \A x \in Procs : job[x].txn \in Txns
  BY NextSolo DEF SoloInv, OneRunInv, TypeInv, TypeOK, JobType
<1> DEFINE P == Cardinality(Placing(t))
           Q == Cardinality(Placing(t)')
<1>1. IsFiniteSet(Placing(t)) /\ P \in Nat
  BY <1>0, DiallingFinite
<1>2. placed[t] \in Nat /\ callRows[t] \in Nat /\ placed[t] + P <= callRows[t]
  BY <1>0, CallNumbers DEF Placed
<1>3. ASSUME placed'[t] = placed[t], callRows'[t] = callRows[t],
             Placing(t)' \subseteq Placing(t)
      PROVE  Placed(t)'
  <2>1. Q \in Nat /\ Q <= P
    BY <1>1, <1>3, FS_Subset, FS_CardinalityType
  <2> HIDE DEF P, Q
  <2>2. placed'[t] + Q <= callRows'[t]
    BY <1>1, <1>2, <1>3, <2>1
  <2> QED
    BY <2>2 DEF Placed, Q
<1>4. CASE \E f \in Graphs : Node(f)
  <2>1. placed' = placed /\ callRows' = callRows
        /\ \A c \in Calls : pc'[c] = pc[c] /\ job'[c] = job[c]
    BY <1>0, <1>4, NodeCells, NodeMoves
  <2>2. Placing(t)' \subseteq Placing(t)
    BY <2>1 DEF Placing
  <2> QED
    BY <1>3, <2>1, <2>2
<1>5. CASE \/ \E r \in Requests, e \in Events : Deliver(r, e)
           \/ \E r \in Requests : Handler(r)
           \/ \E c \in Cases, in \in CaseInputs, p \in Policies : StartCase(c, in, p)
           \/ \E o \in Operators, u \in Txns, s \in HandSet : SetStatus(o, u, s)
           \/ \E p \in Policies : EditPolicy(p)
           \/ UNCHANGED vars
  <2>1. placed' = placed /\ callRows' = callRows
    BY <1>5 DEF Deliver, Handler, Claim, AnswerDuplicate, RejectUnmapped, Upsert, Respond,
         StartCase, SetStatus, EditPolicy, vars
  <2>2. \A c \in Calls : pc'[c] = pc[c] /\ job'[c] = job[c]
    <3>1. CASE \E r \in Requests, e \in Events : Deliver(r, e)
      BY <1>0, <3>1 DEF Deliver
    <3>2. CASE \E r \in Requests : Handler(r)
      BY <1>0, <3>2 DEF Handler, Claim, AnswerDuplicate, RejectUnmapped, Upsert, Respond
    <3>3. CASE \E c \in Cases, in \in CaseInputs, p \in Policies : StartCase(c, in, p)
      BY <1>0, <3>3 DEF StartCase
    <3>4. CASE \E o \in Operators, u \in Txns, s \in HandSet : SetStatus(o, u, s)
      BY <1>0, <3>4 DEF SetStatus
    <3>5. CASE (\E p \in Policies : EditPolicy(p)) \/ UNCHANGED vars
      BY <3>5 DEF EditPolicy, vars
    <3> QED
      BY <1>5, <3>1, <3>2, <3>3, <3>4, <3>5
  <2>3. Placing(t)' \subseteq Placing(t)
    BY <2>2 DEF Placing
  <2> QED
    BY <1>3, <2>1, <2>3
<1>6. CASE \/ \E x \in Calls \cup Operators : FileTicket(x)
           \/ \E x \in Procs : Fail(x)
           \/ Crash
  <2>1. placed' = placed /\ callRows' = callRows
    BY <1>6 DEF FileTicket, Fail, Crash
  <2>2. \A c \in Calls : pc'[c] = "callPlace" => pc'[c] = pc[c] /\ job'[c] = job[c]
    BY <1>0, <1>6 DEF FileTicket, Fail, Crash
  <2>3. Placing(t)' \subseteq Placing(t)
    BY <2>2 DEF Placing
  <2> QED
    BY <1>3, <2>1, <2>3
<1>7. CASE \E c \in Calls, u \in Txns : CallGate(c, u)
  <2>1. PICK c \in Calls, u \in Txns : CallGate(c, u)
    BY <1>7
  <2>2. PICK h : pc' = [pc EXCEPT ![c] = CallVerdict(u, h)]
    BY <2>1 DEF CallGate
  <2>3. /\ placed' = placed /\ callRows' = callRows /\ pc'[c] # "callPlace"
        /\ \A d \in Calls \ {c} : pc'[d] = pc[d] /\ job'[d] = job[d]
    BY <1>0, <2>1, <2>2, CallVerdictType DEF CallGate
  <2>4. Placing(t)' \subseteq Placing(t)
    BY <2>3 DEF Placing
  <2> QED
    BY <1>3, <2>3, <2>4
<1>8. CASE \E c \in Calls : CallRecord(c)
  <2>1. PICK c \in Calls : CallRecord(c)
    BY <1>8
  <2>2. /\ placed' = placed /\ job' = job
        /\ callRows' = [callRows EXCEPT ![job[c].txn] = @ + 1]
        /\ \A d \in Calls : pc'[d] = IF d = c THEN "callPlace" ELSE pc[d]
    BY <1>0, <2>1 DEF CallRecord
  <2>3. CASE job[c].txn = t
    <3>1. callRows'[t] = callRows[t] + 1
      BY <1>0, <2>2, <2>3
    <3>2. Placing(t)' = Placing(t) \cup {c}
      BY <2>2, <2>3 DEF Placing
    <3>3. Q \in Nat /\ Q <= P + 1
      <4>1. IsFiniteSet(Placing(t) \cup {c}) /\ Cardinality(Placing(t) \cup {c}) \in {P, P + 1}
        BY <1>1, FS_AddElement
      <4> QED
        BY <1>1, <3>2, <4>1
    <3> HIDE DEF P, Q
    <3>4. placed'[t] + Q <= callRows'[t]
      BY <1>1, <1>2, <2>2, <3>1, <3>3
    <3> QED
      BY <3>4 DEF Placed, Q
  <2>4. CASE job[c].txn # t
    BY <1>0, <1>3, <2>2, <2>4 DEF Placing
  <2> QED
    BY <2>3, <2>4
<1>9. CASE \E c \in Calls : CallPlace(c)
  <2>1. PICK c \in Calls : CallPlace(c)
    BY <1>9
  <2>2. /\ callRows' = callRows /\ job' = job /\ pc[c] = "callPlace"
        /\ placed' = [placed EXCEPT ![job[c].txn] = @ + 1]
        /\ \A d \in Calls : pc'[d] = IF d = c THEN "done" ELSE pc[d]
    BY <1>0, <2>1 DEF CallPlace
  <2>3. CASE job[c].txn = t
    <3>1. placed'[t] = placed[t] + 1
      BY <1>0, <2>2, <2>3
    <3>2. c \in Placing(t) /\ Placing(t)' = Placing(t) \ {c}
      BY <2>2, <2>3 DEF Placing
    <3>3. Q = P - 1
      BY <1>1, <3>2, FS_RemoveElement
    <3> HIDE DEF P, Q
    <3>4. placed'[t] + Q <= callRows'[t]
      BY <1>1, <1>2, <2>2, <3>1, <3>3
    <3> QED
      BY <3>4 DEF Placed, Q
  <2>4. CASE job[c].txn # t
    BY <1>0, <1>3, <2>2, <2>4 DEF Placing
  <2> QED
    BY <2>3, <2>4
<1> QED
  BY <1>4, <1>5, <1>6, <1>7, <1>8, <1>9 DEF Next

\* Whatever runs, callers, failures and crashes come together, a customer whose counts
\* were not seeded is called beyond the cap only for an overlap or a fault.
THEOREM VoiceCapped ==
  ASSUME FreshCases
  PROVE  Spec => []VoiceOvershoot
<1>1. ASSUME Unseeded, Init PROVE CapInv
  <2> USE <1>1
  <2>1. \A f \in Procs : pc[f] = "idle" /\ job[f] = NoJob
    BY DEF Init
  <2>2. SoloInv
    <3>1. NoJob.input = Webhook
      BY DEF NoJob
    <3>2. Worked
      BY <2>1, GraphsAreProcs DEF Worked
    <3>3. Chosen
      BY <2>1, <3>1, GraphsAreProcs DEF Chosen, Choosing
    <3> QED
      BY <3>2, <3>3, InitOneRun DEF SoloInv
  <2>3. ASSUME NEW t \in Txns PROVE Bounded(t) /\ Told(t) /\ Placed(t)
    <3>1. Dialling(t) = {} /\ Placing(t) = {}
      BY <2>1, GraphsAreProcs DEF Dialling, Placing
    <3>2. /\ audited[t]["VOICE_CALL"] = 0 /\ sent[t]["VOICE_CALL"] = 0 /\ faults = 0
          /\ callRows[t] = 0 /\ placed[t] = 0 /\ overlaps[t] = 0
      BY DEF Init, Actions
    <3>3. Cardinality(Dialling(t)) = 0 /\ Cardinality(Placing(t)) = 0
      BY <3>1, FS_EmptySet
    <3> QED
      BY <3>2, <3>3 DEF Bounded, Told, Placed, VoiceAttempts, VoiceAttemptCap
  <2> QED
    BY <2>2, <2>3 DEF CapInv
<1>2. Unseeded /\ CapInv /\ [Next]_vars => CapInv'
  <2> SUFFICES ASSUME Unseeded, CapInv, [Next]_vars PROVE CapInv'
    OBVIOUS
  <2>1. SoloInv /\ SoloInv' /\ \A t \in Txns : Bounded(t) /\ Told(t) /\ Placed(t)
    BY NextSolo DEF CapInv
  <2> QED
    BY <2>1, NextBounded, NextTold, NextPlaced DEF CapInv
<1>3. CapInv => VoiceOvershoot
  <2> SUFFICES ASSUME CapInv, NEW t \in Txns
               PROVE  sent[t]["VOICE_CALL"] + placed[t]
                        <= VoiceAttemptCap + overlaps[t] + faults
    BY DEF VoiceOvershoot
  <2>0. TypeInv /\ EventOwned /\ Bounded(t) /\ Told(t) /\ Placed(t)
    BY DEF CapInv, SoloInv, OneRunInv
  <2>1. /\ audited[t]["VOICE_CALL"] \in Nat /\ sent[t]["VOICE_CALL"] \in Nat
        /\ callRows[t] \in Nat /\ placed[t] \in Nat /\ overlaps[t] \in Nat
        /\ faults \in Nat /\ VoiceAttemptCap \in Nat
    BY <2>0, CallNumbers
  <2>2. /\ IsFiniteSet(Dialling(t)) /\ Cardinality(Dialling(t)) \in Nat
        /\ Cardinality(Placing(t)) \in Nat
    BY <2>0, DiallingFinite
  <2>3. Calling(t) # {} => Dialling(t) # {}
    BY DEF Calling, InFlight, Dialling
  <2>4. Calling(t) # {} => Cardinality(Dialling(t)) >= 1
    BY <2>2, <2>3, FS_EmptySet
  <2> QED
    BY <2>0, <2>1, <2>2, <2>4 DEF Bounded, Told, Placed, VoiceAttempts
<1>4. ~Unseeded => VoiceOvershoot
  BY DEF VoiceOvershoot, Unseeded
<1>5. CASE Unseeded
  BY <1>1, <1>2, <1>3, <1>5, PTL DEF Spec
<1>6. CASE ~Unseeded
  BY <1>4, <1>6, PTL
<1> QED
  BY <1>5, <1>6
-----------------------------------------------------------------------------
(* The inbox.  What the event loop holds is the event in hand: a claim     *)
(* takes one, the dispatch of that request acts on it, and whatever ends   *)
(* the request - an answer, a rejection, a failure, a crash - puts it down.*)

LoopHeld == loop # NoProc => loop \in Requests /\ pc[loop] \notin {"idle", "queued"}
InboxInv == OneRunInv /\ LoopHeld

\* What a step does to the event loop.
LEMMA LoopMoves ==
  ASSUME InboxInv, [Next]_vars
  PROVE  \/ \E r \in Requests : Claim(r)
         \/ loop # NoProc /\ loop' = NoProc /\ claimed' = claimed /\ acts' = acts
         \/ /\ loop' = loop /\ claimed' = claimed
            /\ loop # NoProc => /\ job'[loop].event = job[loop].event
                                /\ pc'[loop] \notin {"idle", "queued"}
            /\ acts' = acts \/ \E f \in Graphs : Dispatch(f)
<1> USE GraphsAreProcs, ProcsAssumption
<1>0. /\ pc \in [Procs -> Steps] /\ job \in [Procs -> JobType] /\ TypeInv /\ LoopHeld
      /\ loop # NoProc => loop \in Requests /\ loop \in Procs /\ loop \in Graphs
      /\ \A r \in Requests : pc[r] \notin {"idle", "queued"} => loop = r /\ r # NoProc
  BY DEF InboxInv, OneRunInv, EventOwned, TypeInv, TypeOK, LoopHeld
<1>1. CASE \E r \in Requests, e \in Events : Deliver(r, e)
  <2>1. PICK r \in Requests, e \in Events : Deliver(r, e)
    BY <1>1
  <2>2. loop # r
    BY <1>0, <2>1 DEF Deliver, LoopHeld
  <2> QED
    BY <1>0, <2>1, <2>2 DEF Deliver, LoopHeld
<1>2. CASE \E r \in Requests : Handler(r)
  <2>1. PICK r \in Requests : Handler(r)
    BY <1>2
  <2>2. CASE RejectUnmapped(r) \/ Respond(r)
    BY <1>0, <2>2 DEF RejectUnmapped, Respond
  <2>3. CASE AnswerDuplicate(r)
    BY <1>0, <2>3 DEF AnswerDuplicate
  <2>4. CASE Upsert(r)
    BY <1>0, <2>4 DEF Upsert, LoopHeld
  <2> QED
    BY <2>1, <2>2, <2>3, <2>4 DEF Handler
<1>3. CASE \E c \in Cases, in \in CaseInputs, p \in Policies : StartCase(c, in, p)
  BY <1>0, <1>3 DEF StartCase, LoopHeld
<1>4. CASE \E f \in Graphs : Node(f)
  <2>1. PICK f \in Graphs : Node(f)
    BY <1>4
  <2>2. /\ Control(f) /\ Locals(f)
        /\ \A q \in Procs \ {f} : pc'[q] = pc[q] /\ job'[q] = job[q]
    BY <1>0, <2>1, NodeMoves
  <2>3. loop' = loop /\ claimed' = claimed /\ (acts' = acts \/ Dispatch(f))
    BY <2>1 DEF Node, Ingest, ScreenTerminate, ScreenEscalate, ScreenContinue, Diagnose, Wait,
         Execute, Defer, Stop, Approve, Settle, Refuse, Escalate, Dispatch, Record, Reconcile
  <2>4. pc'[f] \notin {"idle", "queued"} /\ job'[f].event = job[f].event
    BY <2>2, EndedType, VerdictType DEF Control, Locals, NodeSteps
  <2> QED
    BY <1>0, <2>2, <2>3, <2>4 DEF LoopHeld
<1>5. CASE \/ \E c \in Calls, t \in Txns : CallGate(c, t)
           \/ \E c \in Calls : CallRecord(c) \/ CallPlace(c)
  BY <1>0, <1>5 DEF CallGate, CallRecord, CallPlace, LoopHeld
<1>6. CASE \/ \E o \in Operators, t \in Txns, s \in HandSet : SetStatus(o, t, s)
           \/ \E x \in Calls \cup Operators : FileTicket(x)
  BY <1>0, <1>6 DEF SetStatus, FileTicket, LoopHeld
<1>7. CASE (\E p \in Policies : EditPolicy(p)) \/ UNCHANGED vars
  BY <1>0, <1>7 DEF EditPolicy, LoopHeld, vars
<1>8. CASE \E x \in Procs : Fail(x)
  BY <1>0, <1>8 DEF Fail, LoopHeld
<1>9. CASE Crash
  BY <1>0, <1>9 DEF Crash
<1> QED
  BY <1>1, <1>2, <1>3, <1>4, <1>5, <1>6, <1>7, <1>8, <1>9 DEF Next

LEMMA NextInbox == InboxInv /\ [Next]_vars => InboxInv'
<1> SUFFICES ASSUME InboxInv, [Next]_vars PROVE LoopHeld'
  BY NextOneRun DEF InboxInv
<1>1. CASE \E r \in Requests : Claim(r)
  BY <1>1, GraphsAreProcs DEF Claim, LoopHeld, InboxInv, OneRunInv, TypeInv, TypeOK
<1>2. CASE loop # NoProc /\ loop' = NoProc /\ claimed' = claimed /\ acts' = acts
  BY <1>2 DEF LoopHeld
<1> QED
  BY <1>1, <1>2, LoopMoves DEF InboxInv, LoopHeld

\* What is in hand is a claimed event, of the request that holds the loop.
LEMMA HandHolds ==
  ASSUME InboxInv
  PROVE  /\ loop = NoProc => InHand = NoEvent
         /\ loop # NoProc => InHand = job[loop].event /\ InHand \in claimed /\ InHand \in Events
         /\ NoEvent \notin Events
         /\ \A e \in Events : acts[e] \in Nat /\ (e \notin claimed => acts[e] = 0)
BY GraphsAreProcs, ProcsAssumption
DEF InboxInv, OneRunInv, LoopHeld, EventOwned, TypeInv, TypeOK, EventCarried, InHand, NotYetRun,
    OneRunPerEvent

LEMMA InboxStep ==
  ASSUME InboxInv, [Next]_vars
  PROVE  [Inbox!Next]_(Inbox!vars)
<1> USE GraphsAreProcs
<1>0. /\ InboxInv' /\ \A f \in Procs : job[f] \in JobType
      /\ acts \in [Origins -> Nat] /\ TypeInv /\ EventOwned
  BY NextInbox DEF InboxInv, OneRunInv, TypeInv, TypeOK
<1> DEFINE stage == [e \in Events |-> Stage(e)]
<1>1. CASE \E r \in Requests : Claim(r)
  <2>1. PICK r \in Requests : Claim(r)
    BY <1>1
  <2>0. job[r].event \in Events
    BY <1>0, <2>1 DEF Claim, TypeInv, EventCarried
  <2>2. PICK e \in Events :
        /\ e = job[r].event /\ loop = NoProc /\ loop' = r /\ claimed' = claimed \cup {e}
        /\ e \notin claimed /\ acts' = acts /\ job' = job
    BY <2>0, <2>1 DEF Claim, Unclaimed
  <2>3. InHand = NoEvent /\ InHand' = e
    BY <2>2, ProcsAssumption DEF InHand
  <2>4. Stage(e) = "new" /\ Stage(e)' = "taken"
    BY <2>2, <2>3, HandHolds DEF Stage
  <2>5. \A x \in Events \ {e} : Stage(x)' = Stage(x)
    BY <2>2, <2>3, HandHolds DEF Stage
  <2>6. stage' = [stage EXCEPT ![e] = "taken"]
    BY <2>2, <2>4, <2>5
  <2>7. Inbox!Take(e)
    BY <2>2, <2>3, <2>4, <2>6 DEF Inbox!Take
  <2> QED
    BY <2>2, <2>7 DEF Inbox!Next
<1>2. CASE loop # NoProc /\ loop' = NoProc /\ claimed' = claimed /\ acts' = acts
  <2>0. InHand \in Events /\ InHand \in claimed
    BY <1>2, HandHolds
  <2>1. PICK e \in Events : /\ e = InHand /\ e \in claimed /\ InHand' = NoEvent
                           /\ NoEvent \notin Events
    BY <1>2, <2>0, HandHolds DEF InHand
  <2>2. Stage(e)' = (IF Stage(e) = "taken" THEN "closed" ELSE Stage(e))
    BY <1>2, <2>1, HandHolds DEF Stage
  <2>3. \A x \in Events \ {e} : Stage(x)' = Stage(x)
    BY <1>2, <2>1, HandHolds DEF Stage
  <2>4. stage' = [stage EXCEPT ![e] = IF @ = "taken" THEN "closed" ELSE @]
    BY <2>1, <2>2, <2>3
  <2>5. Inbox!PutDown(e)
    BY <2>1, <2>4 DEF Inbox!PutDown
  <2> QED
    BY <2>1, <2>5 DEF Inbox!Next
<1>3. CASE /\ loop' = loop /\ claimed' = claimed
           /\ loop # NoProc => /\ job'[loop].event = job[loop].event
                               /\ pc'[loop] \notin {"idle", "queued"}
           /\ acts' = acts \/ \E f \in Graphs : Dispatch(f)
  <2>1. InHand' = InHand
    BY <1>3 DEF InHand
  <2>2. CASE \A x \in Events : acts'[x] = acts[x]
    <3>1. \A x \in Events : Stage(x)' = Stage(x)
      BY <1>3, <2>1, <2>2 DEF Stage
    <3>2. stage' = stage
      BY <3>1
    <3> QED
      BY <2>1, <3>2 DEF Inbox!vars
  <2>3. ASSUME NEW f \in Graphs, Dispatch(f), ~ \A x \in Events : acts'[x] = acts[x]
        PROVE  [Inbox!Next]_(Inbox!vars)
    <3>1. acts' = [acts EXCEPT ![job[f].event] = @ + 1] /\ pc[f] = "dispatch"
      BY <2>3 DEF Dispatch
    <3>2. PICK e \in Events : e = job[f].event
      BY <1>0, <2>3, <3>1 DEF Origins
    <3>3. f \in Requests
      BY <1>0, <3>1, <3>2 DEF Graphs, EventOwned
    <3>4. loop = f /\ InHand = e /\ e \in claimed
      BY <1>0, <3>1, <3>2, <3>3, ProcsAssumption DEF EventOwned, InHand
    <3>5. acts[e] = 0 /\ acts'[e] = 1 /\ \A x \in Events \ {e} : acts'[x] = acts[x]
      BY <1>0, <3>1, <3>2 DEF InboxInv, OneRunInv, NotYetActed, PreDispatch, NodeSteps
    <3>6. Stage(e) = "taken" /\ Stage(e)' = "acted"
      BY <2>1, <3>4, <3>5 DEF Stage
    <3>7. \A x \in Events \ {e} : Stage(x)' = Stage(x)
      BY <1>3, <2>1, <3>5 DEF Stage
    <3>8. stage' = [stage EXCEPT ![e] = "acted"]
      BY <3>2, <3>6, <3>7
    <3>9. Inbox!Act(e)
      BY <2>1, <3>2, <3>4, <3>6, <3>8 DEF Inbox!Act
    <3> QED
      BY <3>2, <3>9 DEF Inbox!Next
  <2> QED
    BY <1>3, <2>2, <2>3
<1> QED
  BY <1>1, <1>2, <1>3, LoopMoves

\* The endpoint, with its coroutine, its graph, its workers and its failures, implements
\* the inbox: it takes each event once, one at a time, and acts only on what it holds.
THEOREM InboxImplemented == Spec => Inbox!Safety
<1>1. Init => InboxInv
  BY InitOneRun DEF Init, InboxInv, LoopHeld
<1>2. Init => Inbox!Init
  <2> SUFFICES ASSUME Init PROVE Inbox!Init
    OBVIOUS
  <2>1. InHand = NoEvent /\ claimed = {} /\ \A e \in Events : acts[e] = 0 /\ e # NoEvent
    BY GraphsAreProcs, ProcsAssumption DEF Init, InHand
  <2>2. \A e \in Events : Stage(e) = "new"
    BY <2>1 DEF Stage
  <2> QED
    BY <2>1, <2>2 DEF Inbox!Init
<1> QED
  BY <1>1, <1>2, NextInbox, InboxStep, PTL DEF Spec, Inbox!Safety
=============================================================================
