------------------------ MODULE RecoveryGraphProofs ------------------------
(***************************************************************************)
(* Type correctness of RecoveryGraph, and that however often an event is   *)
(* delivered the graph runs, and acts, at most once for it.                *)
(***************************************************************************)
EXTENDS RecoveryGraph, TLAPS

(* Values computed by the model's operators.                               *)

LEMMA ClassifyType ==
  ASSUME NEW type, NEW code
  PROVE  Classify(type, code) \in 0..4
BY DEF Classify, Unmapped

LEMMA PlaybookTables ==
  /\ PlaybookAction \in [Playbooks -> Actions]
  /\ \A c \in 1..4 : DefaultPlaybook[c] \in Playbooks
BY DEF PlaybookAction, Playbooks, Actions, DefaultPlaybook

LEMMA MonthsType ==
  ASSUME NEW day \in 1..31
  PROVE  SalaryMonthsAhead(day) \in 0..1
BY DEF SalaryMonthsAhead

LEMMA VerdictType ==
  ASSUME NEW f, NEW hour
  PROVE  GateVerdict(f, hour) \in {"defer", "stop", "refuse", "approve"}
BY DEF GateVerdict

LEMMA CallVerdictType ==
  ASSUME NEW t, NEW hour
  PROVE  CallVerdict(t, hour) \in {"done", "callRecord", "ticket"}
BY DEF CallVerdict

LEMMA EndedType ==
  ASSUME NEW f
  PROVE  Ended(f) \in {"respond", "done"}
BY DEF Ended

LEMMA BackfilledType ==
  ASSUME NEW p \in PolicyType(Nat)
  PROVE  Backfilled(p) \in PolicyType(Nat)
BY DEF Backfilled, BackfillActions, PolicyType, Actions

LEMMA NoJobType == NoJob \in JobType
<1>1. (CHOOSE t \in Txns : TRUE) \in Txns
  BY DataAssumption
<1>2. Webhook \in InputType
  BY DEF Webhook, InputType, FailureClasses, HoursOfDay
<1>3. NoPolicy \in PolicyType(Nat)
  BY DEF NoPolicy, PolicyType, None
<1> QED
  BY <1>1, <1>2, <1>3 DEF NoJob, JobType, HoursOfDay, Statuses

(* A bump of one cell of a table of counters keeps it one.                 *)
LEMMA BumpType ==
  ASSUME NEW S, NEW F \in [S -> Nat], NEW x
  PROVE  [F EXCEPT ![x] = @ + 1] \in [S -> Nat]
<1> DEFINE G == [F EXCEPT ![x] = @ + 1]
<1>1. \A s \in S : G[s] = IF s = x THEN F[s] + 1 ELSE F[s]
  OBVIOUS
<1>2. \A s \in S : G[s] \in Nat
  BY <1>1
<1> QED
  BY <1>2

LEMMA BumpTableType ==
  ASSUME NEW S, NEW T, NEW F \in [S -> [T -> Nat]], NEW x \in S, NEW y
  PROVE  [F EXCEPT ![x][y] = @ + 1] \in [S -> [T -> Nat]]
<1>1. [F[x] EXCEPT ![y] = @ + 1] \in [T -> Nat]
  BY BumpType
<1> QED
  BY <1>1
-----------------------------------------------------------------------------
(* Type correctness.  A table is indexed with a class only after the case  *)
(* has one, and an event is claimed only by a request that carries one.    *)

ClassKnown ==
  \A f \in Graphs :
    /\ pc[f] \in {"ingest", "screen"} => class[job[f].txn] \in 1..4
    /\ pc[f] = "diagnose" => job[f].class \in 1..4

EventCarried == \A r \in Requests : pc[r] # "idle" => job[r].event \in Events

TypeInv == TypeOK /\ ClassKnown /\ EventCarried

\* The count of overlaps is bumped for one transaction or left alone.
LEMMA OverlapType ==
  ASSUME overlaps \in [Txns -> Nat], NEW t \in Txns, NEW granted, NoteOverlap(t, granted)
  PROVE  overlaps' \in [Txns -> Nat]
BY DEF NoteOverlap

USE DEF caseVars, callVars, netVars, envVars, At, Goto, Put, Enqueue

\* A step of one process, which changes its job to one of the type and nothing
\* of the other variables but as given, keeps the two tables well typed.
LEMMA StepType ==
  ASSUME TypeOK, NEW f, NEW step \in Steps, NEW j \in JobType
  PROVE  /\ [pc EXCEPT ![f] = step] \in [Procs -> Steps]
         /\ [job EXCEPT ![f] = j] \in [Procs -> JobType]
BY DEF TypeOK

LEMMA StepsKnown ==
  /\ {"idle", "queued", "upsert", "respond", "done", "ticket", "callRecord",
      "callPlace"} \subseteq Steps
  /\ NodeSteps \subseteq Steps
BY DEF Steps

LEMMA GraphsAreProcs ==
  /\ Requests \subseteq Graphs /\ Cases \subseteq Graphs /\ Graphs \subseteq Procs
  /\ Calls \subseteq Procs /\ Operators \subseteq Procs
  /\ Requests \cap Cases = {} /\ Requests \cap Calls = {} /\ Requests \cap Operators = {}
  /\ Cases \cap Calls = {} /\ Cases \cap Operators = {} /\ Cases \cap Events = {}
  /\ Calls \cap Operators = {} /\ Graphs \cap (Calls \cup Operators) = {}
  /\ Events \subseteq Origins /\ Cases \subseteq Origins
BY ProcsAssumption DEF Graphs, Procs, Origins

LEMMA InitType == Init => TypeInv
<1> SUFFICES ASSUME Init PROVE TypeInv
  OBVIOUS
<1>1. policy \in PolicyType(Nat)
  BY BackfilledType, DataAssumption DEF Init
<1>2. job \in [Procs -> JobType] /\ pc \in [Procs -> Steps]
  BY NoJobType, StepsKnown DEF Init
<1>3. TypeOK
  BY <1>1, <1>2 DEF Init, TypeOK, Statuses
<1>4. ClassKnown /\ EventCarried
  BY GraphsAreProcs DEF Init, ClassKnown, EventCarried
<1> QED
  BY <1>3, <1>4 DEF TypeInv

LEMMA DeliverType ==
  ASSUME TypeInv, NEW r \in Requests, NEW e \in Events, Deliver(r, e)
  PROVE  TypeInv'
<1> DEFINE j == [NoJob EXCEPT !.event = e, !.txn = Mail[e].txn, !.policy = policy]
<1>1. j \in JobType
  BY NoJobType, GraphsAreProcs, DataAssumption DEF TypeInv, TypeOK, JobType, Signal
<1>2. TypeOK'
  BY <1>1, StepType, StepsKnown, BumpType DEF TypeInv, TypeOK, Deliver
<1>3. pc' = [pc EXCEPT ![r] = "queued"] /\ job' = [job EXCEPT ![r] = j] /\ class' = class
  BY DEF Deliver
<1>4. ClassKnown' /\ EventCarried'
  BY <1>3, GraphsAreProcs DEF TypeInv, TypeOK, ClassKnown, EventCarried
<1> QED
  BY <1>2, <1>4 DEF TypeInv

LEMMA NodeStepsKnown ==
  /\ {"ingest", "screen", "diagnose", "wait", "execute", "defer", "stop", "refuse",
      "escalate", "approve", "dispatch", "record", "reconcile"} \subseteq Steps
  /\ \A f : Ended(f) \in Steps \ NodeSteps
BY EndedType DEF Steps, NodeSteps

\* A process that leaves "idle" behind it, keeps its event and goes nowhere that
\* a class must be known, keeps the strengthening.
LEMMA AdvanceType ==
  ASSUME TypeInv, NEW f \in Procs, NEW step \in Steps \ {"ingest", "screen", "diagnose"},
         NEW j \in JobType, f \in Requests => j.event \in Events,
         pc' = [pc EXCEPT ![f] = step], job' = [job EXCEPT ![f] = j], class' = class
  PROVE  /\ pc' \in [Procs -> Steps] /\ job' \in [Procs -> JobType]
         /\ ClassKnown' /\ EventCarried'
<1>1. pc' \in [Procs -> Steps] /\ job' \in [Procs -> JobType]
  BY StepType DEF TypeInv
<1>2. \A g \in Procs : /\ pc'[g] = IF g = f THEN step ELSE pc[g]
                       /\ job'[g] = IF g = f THEN j ELSE job[g]
  BY DEF TypeInv, TypeOK
<1>3. ClassKnown'
  BY <1>2, GraphsAreProcs DEF TypeInv, ClassKnown
<1>4. EventCarried'
  BY <1>2, GraphsAreProcs DEF TypeInv, EventCarried
<1> QED
  BY <1>1, <1>3, <1>4

LEMMA HandlerType ==
  ASSUME TypeInv, NEW r \in Requests, Handler(r)
  PROVE  TypeInv'
<1> USE GraphsAreProcs, StepsKnown
<1>0. job[r] \in JobType /\ (pc[r] # "idle" => job[r].event \in Events) /\ r \in Procs
  BY DEF TypeInv, TypeOK, EventCarried
<1>1. CASE Claim(r)
  <2>1. pc' = [pc EXCEPT ![r] = "upsert"] /\ job' = [job EXCEPT ![r] = job[r]]
        /\ class' = class /\ pc[r] = "queued"
    BY <1>1 DEF Claim, TypeInv, TypeOK
  <2>2. pc' \in [Procs -> Steps] /\ job' \in [Procs -> JobType] /\ ClassKnown' /\ EventCarried'
    BY <1>0, <2>1, AdvanceType
  <2> QED
    BY <1>0, <1>1, <2>1, <2>2 DEF Claim, TypeInv, TypeOK
<1>2. ASSUME pc' = [pc EXCEPT ![r] = "idle"], job' = [job EXCEPT ![r] = NoJob], class' = class
      PROVE  /\ pc' \in [Procs -> Steps] /\ job' \in [Procs -> JobType]
             /\ ClassKnown' /\ EventCarried'
  <2>1. pc' \in [Procs -> Steps] /\ job' \in [Procs -> JobType]
    BY <1>2, StepType, NoJobType DEF TypeInv
  <2>2. \A g \in Procs : /\ pc'[g] = IF g = r THEN "idle" ELSE pc[g]
                         /\ job'[g] = IF g = r THEN NoJob ELSE job[g]
    BY <1>2 DEF TypeInv, TypeOK
  <2>3. ClassKnown' /\ EventCarried'
    BY <1>2, <2>2 DEF TypeInv, ClassKnown, EventCarried
  <2> QED
    BY <2>1, <2>3
<1>3. CASE AnswerDuplicate(r)
  BY <1>2, <1>3 DEF AnswerDuplicate, TypeInv, TypeOK
<1>4. CASE RejectUnmapped(r)
  BY <1>2, <1>4 DEF RejectUnmapped, TypeInv, TypeOK
<1>5. CASE Respond(r)
  BY <1>2, <1>5 DEF Respond, TypeInv, TypeOK
<1>6. CASE Upsert(r)
  <2>1. ClassOf(job[r].event) \in 1..4
    BY <1>6, ClassifyType DEF Upsert, ClassOf, Unmapped
  <2>2. /\ class' = [class EXCEPT ![job[r].txn] = ClassOf(job[r].event)]
        /\ pc' = [pc EXCEPT ![r] = "ingest"] /\ job' = job /\ pc[r] = "upsert"
    BY <1>6 DEF Upsert
  <2>3. \A t \in Txns : class'[t] = IF t = job[r].txn THEN ClassOf(job[r].event) ELSE class[t]
    BY <2>2 DEF TypeInv, TypeOK
  <2>4. \A g \in Procs : pc'[g] = IF g = r THEN "ingest" ELSE pc[g]
    BY <2>2 DEF TypeInv, TypeOK
  <2>5. \A g \in Procs : job[g].txn \in Txns
    BY DEF TypeInv, TypeOK, JobType
  <2>6. ClassKnown' /\ EventCarried'
    BY <1>0, <2>1, <2>2, <2>3, <2>4, <2>5 DEF TypeInv, ClassKnown, EventCarried
  <2>7. pc' \in [Procs -> Steps]
    BY <2>2, NodeStepsKnown DEF TypeInv, TypeOK
  <2>8. runs' \in [Origins -> Nat]
    BY <1>6, BumpType DEF Upsert, TypeInv, TypeOK
  <2>9. state' \in [Txns -> Statuses]
    BY <1>6 DEF Upsert, TypeInv, TypeOK, Statuses, LifecycleStates
  <2> QED
    BY <1>6, <2>1, <2>3, <2>6, <2>7, <2>8, <2>9 DEF Upsert, TypeInv, TypeOK
<1> QED
  BY <1>1, <1>3, <1>4, <1>5, <1>6 DEF Handler

LEMMA NodeType ==
  ASSUME TypeInv, NEW f \in Graphs, Node(f)
  PROVE  TypeInv'
<1> USE GraphsAreProcs, StepsKnown, NodeStepsKnown DEF NodeFrame, NoEffect
<1>0. /\ f \in Procs /\ job[f] \in JobType /\ job[f].txn \in Txns
      /\ pc[f] # "idle" => (f \in Requests => job[f].event \in Events)
      /\ pc[f] # "idle"
  <2>1. pc[f] # "idle"
    BY DEF Node, Ingest, ScreenTerminate, ScreenEscalate, ScreenContinue, Diagnose, Wait,
           Execute, Defer, Stop, Approve, Settle, Refuse, Escalate, Dispatch, Record,
           Reconcile
  <2> QED
    BY <2>1 DEF TypeInv, TypeOK, JobType, EventCarried
<1>1. job' = job => job' = [job EXCEPT ![f] = job[f]]
  BY DEF TypeInv, TypeOK
<1>2. \A status \in Statuses : [state EXCEPT ![job[f].txn] = status] \in [Txns -> Statuses]
  BY DEF TypeInv, TypeOK
<1>3. CASE Ingest(f)
  <2>1. \A g \in Procs : pc'[g] = IF g = f THEN "screen" ELSE pc[g]
    BY <1>3 DEF Ingest, TypeInv, TypeOK
  <2>2. ClassKnown' /\ EventCarried'
    BY <1>0, <1>3, <2>1 DEF Ingest, TypeInv, ClassKnown, EventCarried
  <2> QED
    BY <1>2, <1>3, <2>2 DEF Ingest, TypeInv, TypeOK, Statuses, LifecycleStates
<1>4. CASE ScreenTerminate(f)
  BY <1>0, <1>1, <1>2, <1>4, AdvanceType
  DEF ScreenTerminate, TypeInv, TypeOK, Statuses, LifecycleStates, NodeSteps
<1>5. CASE ScreenEscalate(f)
  BY <1>0, <1>1, <1>5, AdvanceType, BumpType DEF ScreenEscalate, TypeInv, TypeOK
<1>6. CASE ScreenContinue(f)
  <2> DEFINE j == [job[f] EXCEPT !.class = class[job[f].txn],
                                 !.retries = RetryCount[job[f].txn]]
  <2>1. j \in JobType
    BY <1>0, DataAssumption DEF TypeInv, TypeOK, JobType
  <2>2. j.class \in 1..4 /\ j.event = job[f].event
    BY <1>0, <1>6 DEF ScreenContinue, TypeInv, ClassKnown, JobType
  <2>3. /\ pc' = [pc EXCEPT ![f] = "diagnose"] /\ job' = [job EXCEPT ![f] = j]
        /\ class' = class
    BY <1>6 DEF ScreenContinue
  <2> HIDE DEF j
  <2>4. \A g \in Procs : /\ pc'[g] = IF g = f THEN "diagnose" ELSE pc[g]
                         /\ job'[g] = IF g = f THEN j ELSE job[g]
    BY <2>3 DEF TypeInv, TypeOK
  <2>5. ClassKnown' /\ EventCarried'
    BY <1>0, <2>2, <2>3, <2>4 DEF TypeInv, ClassKnown, EventCarried
  <2>6. pc' \in [Procs -> Steps] /\ job' \in [Procs -> JobType]
    BY <2>1, <2>3, StepType DEF TypeInv
  <2> QED
    BY <1>6, <2>5, <2>6 DEF ScreenContinue, TypeInv, TypeOK
<1>7. CASE Diagnose(f)
  <2>1. PICK p \in Advice \cup {DefaultPlaybook[job[f].class]}, d \in Discounts :
          \E chosen \in {p, job[f].input.playbook}, next \in {"wait", "execute"} :
            /\ job[f].input.playbook = "NONE" => chosen = p
            /\ job' = [job EXCEPT ![f].playbook = chosen, ![f].discount = d]
            /\ pc' = [pc EXCEPT ![f] = next]
    BY <1>7 DEF Diagnose
  <2>2. PICK chosen \in {p, job[f].input.playbook}, next \in {"wait", "execute"} :
          /\ job[f].input.playbook = "NONE" => chosen = p
          /\ job' = [job EXCEPT ![f].playbook = chosen, ![f].discount = d]
          /\ pc' = [pc EXCEPT ![f] = next]
    BY <2>1
  <2>3. p \in Playbooks
    BY <1>0, <1>7, PlaybookTables, DataAssumption DEF Diagnose, TypeInv, ClassKnown
  <2> DEFINE j == [job[f] EXCEPT !.playbook = chosen, !.discount = d]
  <2>4. job[f].input.playbook \in Playbooks \cup {"NONE"}
    BY <1>0 DEF JobType, InputType
  <2>5. j \in JobType /\ j.event = job[f].event
    BY <1>0, <2>2, <2>3, <2>4, DataAssumption DEF JobType
  <2>6. job' = [job EXCEPT ![f] = j]
    BY <2>2
  <2> HIDE DEF j
  <2>7. /\ pc' \in [Procs -> Steps] /\ job' \in [Procs -> JobType]
        /\ ClassKnown' /\ EventCarried'
    <3>1. next \in Steps \ {"ingest", "screen", "diagnose"} /\ class' = class
      BY <1>7, <2>2 DEF Diagnose
    <3> QED
      BY <1>0, <2>2, <2>5, <2>6, <3>1, AdvanceType
  <2> QED
    BY <1>7, <2>7 DEF Diagnose, TypeInv, TypeOK
<1>8. CASE Wait(f)
  <2>1. PICK day \in Days : job' = [job EXCEPT ![f].months = SalaryMonthsAhead(day)]
    BY <1>8 DEF Wait
  <2> DEFINE j == [job[f] EXCEPT !.months = SalaryMonthsAhead(day)]
  <2>2. j \in JobType /\ j.event = job[f].event
    BY <1>0, MonthsType, DataAssumption DEF JobType
  <2> QED
    BY <1>0, <1>2, <1>8, <2>1, <2>2, AdvanceType
    DEF Wait, TypeInv, TypeOK, Statuses, LifecycleStates
<1>9. CASE Execute(f)
  <2>1. PICK hour \in HoursOfDay :
          /\ job' = [job EXCEPT ![f].hour = hour, ![f].seen = state[job[f].txn]]
          /\ pc' = [pc EXCEPT ![f] = GateVerdict(f, hour)]
    BY <1>0, <1>9, DataAssumption DEF Execute, JobType, InputType
  <2> DEFINE j == [job[f] EXCEPT !.hour = hour, !.seen = state[job[f].txn]]
  <2>2. j \in JobType /\ j.event = job[f].event
    BY <1>0, <2>1 DEF JobType, TypeInv, TypeOK
  <2>3. job' = [job EXCEPT ![f] = j]
    BY <2>1
  <2> HIDE DEF j
  <2>4. /\ pc' \in [Procs -> Steps] /\ job' \in [Procs -> JobType]
        /\ ClassKnown' /\ EventCarried'
    <3>1. GateVerdict(f, hour) \in Steps \ {"ingest", "screen", "diagnose"} /\ class' = class
      BY <1>9, VerdictType DEF Execute
    <3> QED
      BY <1>0, <2>1, <2>2, <2>3, <3>1, AdvanceType
  <2>5. overlaps' \in [Txns -> Nat]
    <3>1. overlaps \in [Txns -> Nat] /\ \E granted : NoteOverlap(job[f].txn, granted)
      BY <1>9 DEF Execute, TypeInv, TypeOK
    <3> QED
      BY <1>0, <3>1, OverlapType
  <2> QED
    BY <1>9, <2>4, <2>5 DEF Execute, TypeInv, TypeOK
<1>10. ASSUME NEW status \in LifecycleStates,
              NEW next \in Steps \ {"ingest", "screen", "diagnose"},
              NEW step, Settle(f, step, status, next)
       PROVE  TypeInv'
  <2>1. Flush(job[f].seen, status, state[job[f].txn]) \in Statuses
    BY <1>0 DEF Flush, TypeInv, TypeOK, Statuses
  <2> QED
    BY <1>0, <1>1, <1>2, <1>10, <2>1, AdvanceType DEF Settle, TypeInv, TypeOK
<1>11. CASE Defer(f) \/ Stop(f) \/ Approve(f)
  BY <1>10, <1>11 DEF Defer, Stop, Approve, LifecycleStates, NodeSteps
<1>12. CASE Refuse(f)
  BY <1>0, <1>1, <1>12, AdvanceType, BumpType DEF Refuse, TypeInv, TypeOK
<1>13. CASE Escalate(f)
  BY <1>0, <1>1, <1>2, <1>13, AdvanceType
  DEF Escalate, TypeInv, TypeOK, Statuses, LifecycleStates, NodeSteps
<1>14. CASE Dispatch(f)
  BY <1>0, <1>1, <1>14, AdvanceType, BumpType, BumpTableType
  DEF Dispatch, TypeInv, TypeOK
<1>15. CASE Record(f)
  <2>1. audited' \in [Txns -> [Actions -> Nat]]
    <3>1. /\ audited' = [audited EXCEPT ![job[f].txn][Act(f)] = @ + 1]
          /\ audited \in [Txns -> [Actions -> Nat]]
      BY <1>15 DEF Record, TypeInv, TypeOK
    <3> QED
      BY <1>0, <3>1, BumpTableType
  <2>2. /\ pc' \in [Procs -> Steps] /\ job' \in [Procs -> JobType]
        /\ ClassKnown' /\ EventCarried'
    BY <1>0, <1>1, <1>15, AdvanceType DEF Record
  <2> QED
    BY <1>15, <2>1, <2>2 DEF Record, TypeInv, TypeOK
<1>16. CASE Reconcile(f)
  <2>1. state' \in [Txns -> Statuses]
    <3>1. state' = [state EXCEPT ![job[f].txn] = "RECOVERED"] \/ state' = state
      BY <1>16 DEF Reconcile
    <3>2. state \in [Txns -> Statuses] /\ "RECOVERED" \in Statuses
      BY DEF TypeInv, TypeOK, Statuses, LifecycleStates
    <3> QED
      BY <1>2, <3>1, <3>2
  <2>2. /\ pc' \in [Procs -> Steps] /\ job' \in [Procs -> JobType]
        /\ ClassKnown' /\ EventCarried'
    BY <1>0, <1>1, <1>16, AdvanceType DEF Reconcile, NodeSteps
  <2> QED
    BY <1>16, <2>1, <2>2 DEF Reconcile, TypeInv, TypeOK
<1> QED
  BY <1>3, <1>4, <1>5, <1>6, <1>7, <1>8, <1>9, <1>11, <1>12, <1>13, <1>14, <1>15, <1>16
  DEF Node

LEMMA StartCaseType ==
  ASSUME TypeInv, NEW c \in Cases, NEW in \in CaseInputs, NEW p \in Policies,
         StartCase(c, in, p)
  PROVE  TypeInv'
<1> USE GraphsAreProcs
<1> DEFINE j == [NoJob EXCEPT !.event = c, !.txn = CaseTxn[c], !.input = in, !.policy = p]
<1>1. in \in InputType /\ in.class \in 1..4 /\ CaseTxn[c] \in Txns
  BY DataAssumption DEF InputType, FailureClasses
<1>2. j \in JobType /\ j.txn = CaseTxn[c]
  BY <1>1, NoJobType, DataAssumption DEF JobType
<1>3. /\ pc' = [pc EXCEPT ![c] = "ingest"] /\ job' = [job EXCEPT ![c] = j]
      /\ class' = [class EXCEPT ![CaseTxn[c]] = in.class]
  BY DEF StartCase
<1> HIDE DEF j
<1>4. \A g \in Procs : /\ pc'[g] = IF g = c THEN "ingest" ELSE pc[g]
                       /\ job'[g] = IF g = c THEN j ELSE job[g]
  BY <1>3 DEF TypeInv, TypeOK
<1>5. \A t \in Txns : class'[t] = IF t = CaseTxn[c] THEN in.class ELSE class[t]
  BY <1>3 DEF TypeInv, TypeOK
<1>6. \A g \in Procs : job[g].txn \in Txns
  BY DEF TypeInv, TypeOK, JobType
<1>7. ClassKnown' /\ EventCarried'
  BY <1>1, <1>2, <1>4, <1>5, <1>6 DEF TypeInv, ClassKnown, EventCarried
<1>8. pc' \in [Procs -> Steps] /\ job' \in [Procs -> JobType]
  BY <1>2, <1>3, NodeStepsKnown, StepType DEF TypeInv
<1>9. runs' \in [Origins -> Nat] /\ state' \in [Txns -> Statuses] /\ class' \in [Txns -> 0..4]
  BY <1>1, <1>3, BumpType DEF StartCase, TypeInv, TypeOK, Statuses, LifecycleStates
<1> QED
  BY <1>7, <1>8, <1>9 DEF StartCase, TypeInv, TypeOK

LEMMA ThreadPoolType ==
  ASSUME TypeInv
  PROVE  /\ \A c \in Calls, t \in Txns : CallGate(c, t) => TypeInv'
         /\ \A c \in Calls : CallRecord(c) \/ CallPlace(c) => TypeInv'
         /\ \A o \in Operators, t \in Txns, s \in HandSet : SetStatus(o, t, s) => TypeInv'
         /\ \A x \in Calls \cup Operators : FileTicket(x) => TypeInv'
<1> USE GraphsAreProcs, StepsKnown DEF SideFrame
<1>0. ASSUME NEW x \in Calls \cup Operators
      PROVE  /\ x \in Procs /\ x \notin Requests /\ job[x] \in JobType /\ job[x].txn \in Txns
             /\ job' = job => job' = [job EXCEPT ![x] = job[x]]
             /\ \A t \in Txns : [job[x] EXCEPT !.txn = t] \in JobType
  <2>1. x \in Procs /\ x \notin Requests
    OBVIOUS
  <2>2. job[x] \in JobType /\ (job' = job => job' = [job EXCEPT ![x] = job[x]])
    BY <2>1 DEF TypeInv, TypeOK
  <2>3. job[x].txn \in Txns /\ \A t \in Txns : [job[x] EXCEPT !.txn = t] \in JobType
    BY <2>2 DEF JobType
  <2> QED
    BY <2>1, <2>2, <2>3
<1>1. ASSUME NEW c \in Calls, NEW t \in Txns, CallGate(c, t) PROVE TypeInv'
  <2>1. PICK hour \in Hours : pc' = [pc EXCEPT ![c] = CallVerdict(t, hour)]
    BY <1>1 DEF CallGate
  <2>2. /\ job' = [job EXCEPT ![c] = [job[c] EXCEPT !.txn = t]] /\ class' = class
        /\ CallVerdict(t, hour) \in Steps \ {"ingest", "screen", "diagnose"}
    BY <1>1, CallVerdictType DEF CallGate
  <2>3. /\ pc' \in [Procs -> Steps] /\ job' \in [Procs -> JobType]
        /\ ClassKnown' /\ EventCarried'
    BY <1>0, <2>1, <2>2, AdvanceType
  <2>4. overlaps' \in [Txns -> Nat]
    <3>1. overlaps \in [Txns -> Nat] /\ \E granted : NoteOverlap(t, granted)
      BY <1>1 DEF CallGate, TypeInv, TypeOK
    <3> QED
      BY <3>1, OverlapType
  <2> QED
    BY <1>1, <2>3, <2>4 DEF CallGate, TypeInv, TypeOK
<1>2. ASSUME NEW c \in Calls, CallRecord(c) \/ CallPlace(c) PROVE TypeInv'
  <2>1. /\ pc' \in [Procs -> Steps] /\ job' \in [Procs -> JobType]
        /\ ClassKnown' /\ EventCarried'
    BY <1>0, <1>2, AdvanceType DEF CallRecord, CallPlace
  <2>2. CASE CallRecord(c)
    BY <2>1, <2>2, BumpType DEF CallRecord, TypeInv, TypeOK
  <2>3. CASE CallPlace(c)
    BY <2>1, <2>3, BumpType DEF CallPlace, TypeInv, TypeOK
  <2> QED
    BY <1>2, <2>2, <2>3
<1>3. ASSUME NEW o \in Operators, NEW t \in Txns, NEW s \in HandSet, SetStatus(o, t, s)
      PROVE  TypeInv'
  <2>1. /\ pc' \in [Procs -> Steps] /\ job' \in [Procs -> JobType]
        /\ ClassKnown' /\ EventCarried'
    <3>1. /\ job' = [job EXCEPT ![o] = [job[o] EXCEPT !.txn = t]] /\ class' = class
          /\ \E step \in {"ticket", "done"} : pc' = [pc EXCEPT ![o] = step]
      BY <1>3 DEF SetStatus
    <3> QED
      BY <1>0, <3>1, AdvanceType
  <2>2. state' \in [Txns -> Statuses]
    BY <1>3, DataAssumption DEF SetStatus, TypeInv, TypeOK, Statuses
  <2> QED
    BY <1>3, <2>1, <2>2 DEF SetStatus, TypeInv, TypeOK
<1>4. ASSUME NEW x \in Calls \cup Operators, FileTicket(x) PROVE TypeInv'
  <2>1. /\ pc' \in [Procs -> Steps] /\ job' \in [Procs -> JobType]
        /\ ClassKnown' /\ EventCarried'
    BY <1>0, <1>4, AdvanceType DEF FileTicket
  <2> QED
    BY <1>4, <2>1, BumpType DEF FileTicket, TypeInv, TypeOK
<1> QED
  BY <1>1, <1>2, <1>3, <1>4

LEMMA EnvironmentType ==
  ASSUME TypeInv
  PROVE  /\ \A p \in Policies : EditPolicy(p) => TypeInv'
         /\ Crash => TypeInv'
         /\ UNCHANGED vars => TypeInv'
<1>1. ASSUME NEW p \in Policies, EditPolicy(p) PROVE TypeInv'
  BY <1>1, DataAssumption DEF EditPolicy, TypeInv, TypeOK, ClassKnown, EventCarried
<1>2. ASSUME Crash PROVE TypeInv'
  <2> USE GraphsAreProcs, StepsKnown
  <2>1. \A g \in Procs :
          /\ pc'[g] = IF pc[g] = "idle" \/ g \in Requests THEN "idle" ELSE "done"
          /\ job'[g] = IF g \in Requests THEN NoJob ELSE job[g]
    BY <1>2 DEF Crash
  <2>2. pc' \in [Procs -> Steps] /\ job' \in [Procs -> JobType]
    BY <1>2, <2>1, NoJobType DEF Crash, TypeInv, TypeOK
  <2>3. ClassKnown' /\ EventCarried'
    BY <2>1 DEF ClassKnown, EventCarried
  <2> QED
    BY <1>2, <2>2, <2>3, BackfilledType DEF Crash, TypeInv, TypeOK
<1>3. ASSUME UNCHANGED vars PROVE TypeInv'
  BY <1>3 DEF vars, TypeInv, TypeOK, ClassKnown, EventCarried
<1> QED
  BY <1>1, <1>2, <1>3

LEMMA FailType ==
  ASSUME TypeInv, NEW x \in Procs, Fail(x)
  PROVE  TypeInv'
<1> USE GraphsAreProcs, StepsKnown
<1>1. \A g \in Procs :
        /\ pc'[g] = IF g = x THEN IF x \in Requests THEN "idle" ELSE "done" ELSE pc[g]
        /\ job'[g] = IF g = x /\ x \in Requests THEN NoJob ELSE job[g]
  BY DEF Fail, TypeInv, TypeOK
<1>2. pc' \in [Procs -> Steps] /\ job' \in [Procs -> JobType]
  BY <1>1, NoJobType DEF Fail, TypeInv, TypeOK
<1>3. ClassKnown' /\ EventCarried'
  BY <1>1 DEF Fail, TypeInv, ClassKnown, EventCarried
<1> QED
  BY <1>2, <1>3 DEF Fail, TypeInv, TypeOK

LEMMA NextType == TypeInv /\ [Next]_vars => TypeInv'
BY DeliverType, HandlerType, NodeType, StartCaseType, ThreadPoolType, EnvironmentType,
   FailType
DEF Next

\* Every variable keeps its type in every behaviour: in particular the default
\* playbook is only ever looked up for a case that has a failure class.
THEOREM TypeCorrect == Spec => []TypeOK
<1>1. TypeInv => TypeOK
  BY DEF TypeInv
<1> QED
  BY <1>1, InitType, NextType, PTL DEF Spec
-----------------------------------------------------------------------------
(* At most one run, and one action, per event.  The event loop gives a     *)
(* claimed event to one request; an event counts no run before it is       *)
(* claimed, and no action while its run has not reached the adapter.       *)

PreDispatch == NodeSteps \ {"record", "reconcile"}

EventOwned ==
  /\ \A r \in Requests : pc[r] \notin {"idle", "queued"} =>
       loop = r /\ job[r].event \in claimed
  /\ \A c \in Cases : pc[c] # "idle" => job[c].event = c

NotYetRun ==
  /\ \A e \in Events : e \notin claimed => runs[e] = 0
  /\ \A c \in Cases : pc[c] = "idle" => runs[c] = 0
  /\ \A r \in Requests : pc[r] = "upsert" => runs[job[r].event] = 0

NotYetActed ==
  \A f \in Graphs : pc[f] \in PreDispatch =>
    runs[job[f].event] = 1 /\ acts[job[f].event] = 0

OneRunInv == TypeInv /\ EventOwned /\ NotYetRun /\ NotYetActed /\ OneRunPerEvent

\* Two runs that are both short of the adapter, or about to start, are of
\* different events.
LEMMA OwnersDiffer ==
  ASSUME TypeInv, EventOwned, NEW f \in Graphs, NEW g \in Graphs, f # g,
         pc[f] \notin {"idle", "queued"}, pc[g] \notin {"idle", "queued"}
  PROVE  job[f].event # job[g].event
BY GraphsAreProcs DEF EventOwned, TypeInv, EventCarried, Graphs

LEMMA OwnedOrigins ==
  ASSUME TypeInv, EventOwned, NEW f \in Graphs, pc[f] \notin {"idle", "queued"}
  PROVE  job[f].event \in Origins
BY GraphsAreProcs DEF EventOwned, TypeInv, EventCarried, Graphs

LEMMA InitOneRun == Init => OneRunInv
BY InitType, GraphsAreProcs
DEF Init, OneRunInv, EventOwned, NotYetRun, NotYetActed, PreDispatch, NodeSteps,
    OneRunPerEvent

\* Steps that touch neither the counters nor what is claimed, and move a run only
\* along its way, keep the invariant.
LEMMA QuietStep ==
  ASSUME OneRunInv, TypeInv', UNCHANGED <<claimed, runs, acts>>,
         \A r \in Requests : pc'[r] \notin {"idle", "queued"} => loop' = r,
         \A f \in Graphs :
           \/ pc'[f] = pc[f] /\ job'[f] = job[f]
           \/ pc'[f] = "idle" /\ f \in Requests
           \/ /\ pc[f] \notin {"idle", "queued"} /\ job'[f].event = job[f].event
              /\ pc'[f] \notin {"idle", "queued", "upsert"}
              /\ pc'[f] \in PreDispatch => pc[f] \in PreDispatch
           \/ pc'[f] = "queued" /\ f \in Requests
  PROVE  OneRunInv'
<1> USE GraphsAreProcs DEF OneRunInv
<1>1. EventOwned'
  BY DEF EventOwned, Graphs
<1>2. NotYetRun'
  BY DEF NotYetRun, EventOwned, Graphs
<1>3. NotYetActed'
  BY DEF NotYetActed, PreDispatch, NodeSteps
<1>4. OneRunPerEvent'
  BY DEF OneRunPerEvent
<1> QED
  BY <1>1, <1>2, <1>3, <1>4

LEMMA NodeOneRun ==
  ASSUME OneRunInv, NEW f \in Graphs, Node(f)
  PROVE  OneRunInv'
<1> USE GraphsAreProcs DEF NodeFrame, NoEffect
<1>1. TypeInv'
  BY NodeType DEF OneRunInv
<1>2. /\ pc[f] \in NodeSteps /\ UNCHANGED <<loop, claimed, runs>>
      /\ \E step \in (NodeSteps \ {"ingest"}) \cup {"respond", "done"} :
           pc' = [pc EXCEPT ![f] = step] /\ (step \in PreDispatch => pc[f] \in PreDispatch)
  BY EndedType, VerdictType
  DEF Node, Ingest, ScreenTerminate, ScreenEscalate, ScreenContinue, Diagnose, Wait,
      Execute, Defer, Stop, Approve, Settle, Refuse, Escalate, Dispatch, Record, Reconcile,
      NodeSteps, PreDispatch
<1>3. \A g \in Graphs : job'[g].event = job[g].event /\ (g # f => job'[g] = job[g])
  <2>1. job[f] \in JobType /\ job \in [Procs -> JobType]
    BY DEF OneRunInv, TypeInv, TypeOK
  <2>2. ASSUME NEW j, job' = [job EXCEPT ![f] = j], j.event = job[f].event
        PROVE  \A g \in Graphs : job'[g].event = job[g].event /\ (g # f => job'[g] = job[g])
    BY <2>1, <2>2
  <2>3. CASE ScreenContinue(f)
    <3>1. job' = [job EXCEPT ![f] = [job[f] EXCEPT !.class = class[job[f].txn],
                                                   !.retries = RetryCount[job[f].txn]]]
      BY <2>3 DEF ScreenContinue
    <3> QED
      BY <2>1, <2>2, <3>1 DEF JobType
  <2>4. CASE Diagnose(f)
    <3>1. PICK p \in Advice \cup {DefaultPlaybook[job[f].class]}, d \in Discounts :
            job' = [job EXCEPT
                     ![f].playbook = IF job[f].input.playbook = "NONE" THEN p
                                     ELSE job[f].input.playbook,
                     ![f].discount = d]
      BY <2>4 DEF Diagnose
    <3> DEFINE j == [job[f] EXCEPT
                      !.playbook = IF job[f].input.playbook = "NONE" THEN p
                                   ELSE job[f].input.playbook,
                      !.discount = d]
    <3>2. job' = [job EXCEPT ![f] = j] /\ j.event = job[f].event
      BY <2>1, <3>1 DEF JobType
    <3> HIDE DEF j
    <3> QED
      BY <2>2, <3>2
  <2>5. CASE Wait(f)
    <3>1. PICK m : job' = [job EXCEPT ![f] = [job[f] EXCEPT !.months = m]]
      BY <2>5 DEF Wait
    <3> QED
      BY <2>1, <2>2, <3>1 DEF JobType
  <2>6. CASE Execute(f)
    <3>1. PICK h \in Hours :
            job' = [job EXCEPT ![f].hour = IF job[f].input.hour = Unset THEN h
                                           ELSE job[f].input.hour,
                               ![f].seen = state[job[f].txn]]
      BY <2>6 DEF Execute
    <3> DEFINE j == [job[f] EXCEPT !.hour = IF job[f].input.hour = Unset THEN h
                                           ELSE job[f].input.hour,
                                   !.seen = state[job[f].txn]]
    <3>2. job' = [job EXCEPT ![f] = j] /\ j.event = job[f].event
      BY <2>1, <3>1 DEF JobType
    <3> HIDE DEF j
    <3> QED
      BY <2>2, <3>2
  <2>7. CASE job' = job
    BY <2>7
  <2>8. job' = job \/ ScreenContinue(f) \/ Diagnose(f) \/ Wait(f) \/ Execute(f)
    BY DEF Node, Ingest, ScreenTerminate, ScreenEscalate, Defer, Stop, Approve, Settle,
        Refuse, Escalate, Dispatch, Record, Reconcile
  <2> QED
    BY <2>3, <2>4, <2>5, <2>6, <2>7, <2>8
<1>4. PICK step \in (NodeSteps \ {"ingest"}) \cup {"respond", "done"} :
        /\ pc' = [pc EXCEPT ![f] = step] /\ (step \in PreDispatch => pc[f] \in PreDispatch)
  BY <1>2
<1>5. \A g \in Procs : pc'[g] = IF g = f THEN step ELSE pc[g]
  BY <1>4 DEF OneRunInv, TypeInv, TypeOK
<1>6. CASE acts' = acts
  <2>1. \A r \in Requests : pc'[r] \notin {"idle", "queued"} => loop' = r
    BY <1>2, <1>5 DEF OneRunInv, EventOwned, NodeSteps
  <2> QED
    BY <1>1, <1>2, <1>3, <1>4, <1>5, <1>6, <2>1, QuietStep DEF NodeSteps
<1>7. CASE Dispatch(f)
  <2> DEFINE o == job[f].event
  <2>1. o \in Origins /\ pc[f] \in PreDispatch /\ runs[o] = 1 /\ acts[o] = 0
    BY <1>7, OwnedOrigins DEF Dispatch, OneRunInv, NotYetActed, PreDispatch, NodeSteps
  <2>2. \A x \in Origins : acts'[x] = IF x = o THEN 1 ELSE acts[x]
    BY <1>7, <2>1 DEF Dispatch, OneRunInv, TypeInv, TypeOK
  <2>3. pc' = [pc EXCEPT ![f] = "record"] /\ job' = job
    BY <1>7 DEF Dispatch
  <2>4. \A g \in Procs : pc'[g] = IF g = f THEN "record" ELSE pc[g]
    BY <2>3 DEF OneRunInv, TypeInv, TypeOK
  <2>5. EventOwned'
    BY <1>2, <2>3, <2>4 DEF OneRunInv, EventOwned, NodeSteps
  <2>6. NotYetRun'
    BY <1>2, <2>3, <2>4 DEF OneRunInv, NotYetRun
  <2>7. ASSUME NEW g \in Graphs, pc'[g] \in PreDispatch
        PROVE  runs'[job'[g].event] = 1 /\ acts'[job'[g].event] = 0
    <3>1. g # f /\ pc[g] \in PreDispatch
      BY <2>4, <2>7 DEF PreDispatch
    <3>2. job[g].event # o /\ job[g].event \in Origins
      BY <2>1, <3>1, OwnersDiffer, OwnedOrigins DEF OneRunInv, PreDispatch, NodeSteps
    <3> QED
      BY <1>2, <2>2, <2>3, <3>1, <3>2 DEF OneRunInv, NotYetActed
  <2>8. OneRunPerEvent'
    BY <1>2, <2>1, <2>2 DEF OneRunInv, OneRunPerEvent
  <2> QED
    BY <1>1, <2>5, <2>6, <2>7, <2>8 DEF OneRunInv, NotYetActed
<1>8. acts' = acts \/ Dispatch(f)
  BY DEF Node, Ingest, ScreenTerminate, ScreenEscalate, ScreenContinue, Diagnose, Wait,
      Execute, Defer, Stop, Approve, Settle, Refuse, Escalate, Record, Reconcile
<1> QED
  BY <1>6, <1>7, <1>8

LEMMA DeliverOneRun ==
  ASSUME OneRunInv, NEW r \in Requests, NEW e \in Events, Deliver(r, e)
  PROVE  OneRunInv'
<1> USE GraphsAreProcs
<1>1. TypeInv'
  BY DeliverType DEF OneRunInv
<1>2. \A g \in Procs : /\ pc'[g] = IF g = r THEN "queued" ELSE pc[g]
                       /\ g # r => job'[g] = job[g]
  BY DEF Deliver, OneRunInv, TypeInv, TypeOK
<1>3. UNCHANGED <<claimed, runs, acts, loop>>
  BY DEF Deliver
<1> QED
  BY <1>1, <1>2, <1>3, QuietStep DEF OneRunInv, EventOwned

LEMMA HandlerOneRun ==
  ASSUME OneRunInv, NEW r \in Requests, Handler(r)
  PROVE  OneRunInv'
<1> USE GraphsAreProcs
<1> DEFINE e == job[r].event
<1>0. TypeInv'
  BY HandlerType DEF OneRunInv
<1>1. CASE Claim(r)
  <2>1. /\ claimed' = claimed \cup {e} /\ e \notin claimed /\ loop = NoProc /\ loop' = r
        /\ UNCHANGED <<job, runs, acts>> /\ pc[r] = "queued"
    BY <1>1 DEF Claim, Unclaimed
  <2>2. \A g \in Procs : pc'[g] = IF g = r THEN "upsert" ELSE pc[g]
    BY <1>1 DEF Claim, OneRunInv, TypeInv, TypeOK
  <2>3. e \in Events /\ runs[e] = 0
    BY <2>1 DEF OneRunInv, TypeInv, EventCarried, NotYetRun
  <2>4. \A g \in Requests : pc[g] \in {"idle", "queued"}
    BY <2>1, ProcsAssumption DEF OneRunInv, EventOwned
  <2>5. EventOwned'
    BY <2>1, <2>2, <2>4 DEF OneRunInv, EventOwned
  <2>6. NotYetRun'
    BY <2>1, <2>2, <2>3, <2>4 DEF OneRunInv, NotYetRun
  <2>7. NotYetActed' /\ OneRunPerEvent'
    BY <2>1, <2>2 DEF OneRunInv, NotYetActed, OneRunPerEvent, PreDispatch, NodeSteps
  <2> QED
    BY <1>0, <2>5, <2>6, <2>7 DEF OneRunInv
<1>2. CASE AnswerDuplicate(r) \/ RejectUnmapped(r) \/ Respond(r)
  <2>1. /\ UNCHANGED <<claimed, runs, acts>> /\ pc' = [pc EXCEPT ![r] = "idle"]
        /\ job' = [job EXCEPT ![r] = NoJob]
        /\ loop' = loop \/ (loop' = NoProc /\ pc[r] \in {"upsert", "respond"})
    BY <1>2 DEF AnswerDuplicate, RejectUnmapped, Respond
  <2>2. \A g \in Procs : /\ pc'[g] = IF g = r THEN "idle" ELSE pc[g]
                         /\ g # r => job'[g] = job[g]
    BY <2>1 DEF OneRunInv, TypeInv, TypeOK
  <2>3. \A g \in Requests : pc'[g] \notin {"idle", "queued"} => loop' = g
    BY <2>1, <2>2 DEF OneRunInv, EventOwned
  <2> QED
    BY <1>0, <2>1, <2>2, <2>3, QuietStep
<1>3. CASE Upsert(r)
  <2>1. /\ UNCHANGED <<claimed, acts, job, loop>> /\ pc[r] = "upsert"
        /\ pc' = [pc EXCEPT ![r] = "ingest"] /\ runs' = [runs EXCEPT ![e] = @ + 1]
    BY <1>3 DEF Upsert
  <2>2. \A g \in Procs : pc'[g] = IF g = r THEN "ingest" ELSE pc[g]
    BY <2>1 DEF OneRunInv, TypeInv, TypeOK
  <2>3. /\ e \in Events /\ e \in claimed /\ runs[e] = 0 /\ acts[e] \in Nat
        /\ acts[e] <= runs[e]
    BY <2>1 DEF OneRunInv, TypeInv, TypeOK, EventCarried, EventOwned, NotYetRun,
        OneRunPerEvent
  <2>4. \A x \in Origins : runs'[x] = IF x = e THEN 1 ELSE runs[x]
    BY <2>1, <2>3 DEF OneRunInv, TypeInv, TypeOK
  <2>5. EventOwned'
    BY <2>1, <2>2 DEF OneRunInv, EventOwned
  <2>6. NotYetRun'
    <3>1. \A c \in Cases : pc'[c] = "idle" => runs'[c] = 0
      BY <2>2, <2>3, <2>4 DEF OneRunInv, NotYetRun
    <3>2. \A g \in Requests : pc'[g] # "upsert"
      BY <2>1, <2>2 DEF OneRunInv, EventOwned
    <3> QED
      BY <2>1, <2>3, <2>4, <3>1, <3>2 DEF OneRunInv, NotYetRun
  <2>7. ASSUME NEW g \in Graphs, pc'[g] \in PreDispatch
        PROVE  runs'[job'[g].event] = 1 /\ acts'[job'[g].event] = 0
    <3>1. CASE g = r
      BY <2>1, <2>3, <2>4, <3>1
    <3>2. CASE g # r
      <4>1. job[g].event # e /\ job[g].event \in Origins
        BY <2>1, <2>2, <2>7, <3>2, OwnersDiffer, OwnedOrigins
        DEF OneRunInv, PreDispatch, NodeSteps
      <4> QED
        BY <2>1, <2>2, <2>4, <2>7, <3>2, <4>1 DEF OneRunInv, NotYetActed
    <3> QED
      BY <3>1, <3>2
  <2>8. OneRunPerEvent'
    BY <2>1, <2>3, <2>4 DEF OneRunInv, OneRunPerEvent
  <2> QED
    BY <1>0, <2>5, <2>6, <2>7, <2>8 DEF OneRunInv, NotYetActed
<1> QED
  BY <1>1, <1>2, <1>3 DEF Handler

LEMMA StartCaseOneRun ==
  ASSUME OneRunInv, NEW c \in Cases, NEW in \in CaseInputs, NEW p \in Policies,
         StartCase(c, in, p)
  PROVE  OneRunInv'
<1> USE GraphsAreProcs
<1>0. TypeInv'
  BY StartCaseType DEF OneRunInv
<1> DEFINE j == [NoJob EXCEPT !.event = c, !.txn = CaseTxn[c], !.input = in, !.policy = p]
<1>1. /\ UNCHANGED <<claimed, acts, loop>> /\ pc[c] = "idle"
      /\ pc' = [pc EXCEPT ![c] = "ingest"] /\ runs' = [runs EXCEPT ![c] = @ + 1]
      /\ job' = [job EXCEPT ![c] = j]
  BY DEF StartCase
<1>2. j.event = c
  BY NoJobType DEF JobType
<1> HIDE DEF j
<1>3. \A g \in Procs : /\ pc'[g] = IF g = c THEN "ingest" ELSE pc[g]
                       /\ job'[g] = IF g = c THEN j ELSE job[g]
  BY <1>1 DEF OneRunInv, TypeInv, TypeOK
<1>4. runs[c] = 0 /\ acts[c] \in Nat /\ acts[c] <= runs[c]
  BY <1>1 DEF OneRunInv, TypeInv, TypeOK, NotYetRun, OneRunPerEvent
<1>5. \A x \in Origins : runs'[x] = IF x = c THEN 1 ELSE runs[x]
  BY <1>1, <1>4 DEF OneRunInv, TypeInv, TypeOK
<1>6. EventOwned'
  BY <1>1, <1>2, <1>3 DEF OneRunInv, EventOwned
<1>7. NotYetRun'
  <2>1. \A r \in Requests : pc'[r] = "upsert" => runs'[job'[r].event] = 0
    BY <1>3, <1>5 DEF OneRunInv, NotYetRun, TypeInv, EventCarried
  <2> QED
    BY <1>1, <1>3, <1>5, <2>1 DEF OneRunInv, NotYetRun
<1>8. ASSUME NEW g \in Graphs, pc'[g] \in PreDispatch
      PROVE  runs'[job'[g].event] = 1 /\ acts'[job'[g].event] = 0
  <2>1. CASE g = c
    BY <1>1, <1>2, <1>3, <1>4, <1>5, <2>1
  <2>2. CASE g # c
    <3>1. pc[g] \in PreDispatch /\ pc[g] \notin {"idle", "queued"}
      BY <1>3, <1>8, <2>2 DEF PreDispatch, NodeSteps
    <3>2. job[g].event \in Origins /\ job[g].event # c
      BY <2>2, <3>1, OwnedOrigins DEF OneRunInv, EventOwned, TypeInv, EventCarried, Graphs
    <3> QED
      BY <1>1, <1>3, <1>5, <2>2, <3>1, <3>2 DEF OneRunInv, NotYetActed
  <2> QED
    BY <2>1, <2>2
<1>9. OneRunPerEvent'
  BY <1>1, <1>4, <1>5 DEF OneRunInv, OneRunPerEvent
<1> QED
  BY <1>0, <1>6, <1>7, <1>8, <1>9 DEF OneRunInv, NotYetActed

LEMMA OthersOneRun ==
  ASSUME OneRunInv,
         \/ \E c \in Calls, t \in Txns : CallGate(c, t)
         \/ \E c \in Calls : CallRecord(c) \/ CallPlace(c)
         \/ \E o \in Operators, t \in Txns, s \in HandSet : SetStatus(o, t, s)
         \/ \E x \in Calls \cup Operators : FileTicket(x)
         \/ \E p \in Policies : EditPolicy(p)
         \/ UNCHANGED vars
  PROVE  OneRunInv'
<1> USE GraphsAreProcs DEF SideFrame
<1>1. TypeInv'
  BY ThreadPoolType, EnvironmentType DEF OneRunInv
<1>2. UNCHANGED <<claimed, runs, acts, loop>>
  BY DEF CallGate, CallRecord, CallPlace, SetStatus, FileTicket, EditPolicy, vars
<1>3. \A g \in Graphs : pc'[g] = pc[g] /\ job'[g] = job[g]
  BY DEF CallGate, CallRecord, CallPlace, SetStatus, FileTicket, EditPolicy, vars,
      OneRunInv, TypeInv, TypeOK
<1> QED
  BY <1>1, <1>2, <1>3, QuietStep DEF OneRunInv, EventOwned

LEMMA CrashOneRun == OneRunInv /\ Crash => OneRunInv'
<1> SUFFICES ASSUME OneRunInv, Crash PROVE OneRunInv'
  OBVIOUS
<1> USE GraphsAreProcs
<1>1. TypeInv'
  BY EnvironmentType DEF OneRunInv
<1>2. UNCHANGED <<claimed, runs, acts>>
  BY DEF Crash
<1>3. \A g \in Procs :
        /\ pc'[g] = IF pc[g] = "idle" \/ g \in Requests THEN "idle" ELSE "done"
        /\ job'[g] = IF g \in Requests THEN NoJob ELSE job[g]
  BY DEF Crash
<1>4. EventOwned' /\ NotYetRun' /\ NotYetActed'
  BY <1>2, <1>3 DEF OneRunInv, EventOwned, NotYetRun, NotYetActed, PreDispatch, NodeSteps
<1> QED
  BY <1>1, <1>2, <1>4 DEF OneRunInv, OneRunPerEvent

LEMMA FailOneRun ==
  ASSUME OneRunInv, NEW x \in Procs, Fail(x)
  PROVE  OneRunInv'
<1> USE GraphsAreProcs
<1>1. TypeInv'
  BY FailType DEF OneRunInv
<1>2. UNCHANGED <<claimed, runs, acts>> /\ pc[x] # "idle"
      /\ loop' = IF loop = x THEN NoProc ELSE loop
  BY DEF Fail
<1>3. \A g \in Procs :
        /\ pc'[g] = IF g = x THEN IF x \in Requests THEN "idle" ELSE "done" ELSE pc[g]
        /\ job'[g] = IF g = x /\ x \in Requests THEN NoJob ELSE job[g]
  BY DEF Fail, OneRunInv, TypeInv, TypeOK
<1>4. EventOwned'
  BY <1>2, <1>3 DEF OneRunInv, EventOwned
<1>5. NotYetRun' /\ NotYetActed'
  BY <1>2, <1>3 DEF OneRunInv, NotYetRun, NotYetActed, PreDispatch, NodeSteps
<1> QED
  BY <1>1, <1>2, <1>4, <1>5 DEF OneRunInv, OneRunPerEvent

\* However many requests, deliveries, failures and crashes there are, a gateway event (and
\* a simulated case) is run at most once and acted on at most once.
THEOREM OneRun == Spec => []OneRunPerEvent
<1>1. OneRunInv /\ [Next]_vars => OneRunInv'
  BY DeliverOneRun, HandlerOneRun, NodeOneRun, StartCaseOneRun, OthersOneRun, CrashOneRun,
     FailOneRun
  DEF Next
<1>2. OneRunInv => OneRunPerEvent
  BY DEF OneRunInv
<1> QED
  BY <1>1, <1>2, InitOneRun, PTL DEF Spec
-----------------------------------------------------------------------------
(* No escalation without a ticket: a run reaches its escalation only after *)
(* it has filed one, and tickets are never taken away.                     *)

TicketFiled == \A f \in Graphs : pc[f] = "escalate" => tickets[job[f].txn] > 0

TicketInv == TypeInv /\ TicketFiled

LEMMA NodeTicket ==
  ASSUME TicketInv, NEW f \in Graphs, Node(f)
  PROVE  TicketFiled'
<1> USE GraphsAreProcs DEF NodeFrame, NoEffect
<1>1. /\ \A g \in Procs : g # f => pc'[g] = pc[g] /\ job'[g] = job[g]
      /\ job'[f].txn = job[f].txn
      /\ \A t \in Txns : tickets'[t] >= tickets[t]
      /\ pc'[f] = "escalate" => tickets'[job[f].txn] > 0
  <2>1. /\ \A g \in Procs : job[g] \in JobType /\ job[g].txn \in Txns
        /\ \A t \in Txns : tickets[t] \in Nat
        /\ pc \in [Procs -> Steps] /\ job \in [Procs -> JobType]
        /\ tickets \in [Txns -> Nat]
    BY DEF TicketInv, TypeInv, TypeOK, JobType
  <2>2. CASE ScreenEscalate(f) \/ Refuse(f)
    BY <2>1, <2>2 DEF ScreenEscalate, Refuse
  <2>3. CASE Ingest(f) \/ ScreenTerminate(f) \/ Escalate(f) \/ Dispatch(f) \/ Record(f)
             \/ Reconcile(f)
    BY <2>1, <2>3, EndedType
    DEF Ingest, ScreenTerminate, Escalate, Dispatch, Record, Reconcile
  <2>4. CASE Defer(f) \/ Stop(f) \/ Approve(f)
    BY <2>1, <2>4, EndedType DEF Defer, Stop, Approve, Settle
  <2>5. CASE ScreenContinue(f)
    BY <2>1, <2>5 DEF ScreenContinue, JobType
  <2>6. CASE Diagnose(f)
    <3>1. tickets' = tickets /\ \E step \in {"wait", "execute"} : pc' = [pc EXCEPT ![f] = step]
      BY <2>6 DEF Diagnose
    <3>2. \E b, d : job' = [job EXCEPT ![f].playbook = b, ![f].discount = d]
      BY <2>6 DEF Diagnose
    <3> QED
      BY <2>1, <3>1, <3>2 DEF JobType
  <2>7. CASE Wait(f)
    <3>1. \E m : job' = [job EXCEPT ![f].months = m]
      BY <2>7 DEF Wait
    <3> QED
      BY <2>1, <2>7, <3>1 DEF Wait, JobType
  <2>8. CASE Execute(f)
    <3>1. \E h : /\ job' = [job EXCEPT ![f].hour = h, ![f].seen = state[job[f].txn]]
                 /\ pc' = [pc EXCEPT ![f] = GateVerdict(f, h)]
      BY <2>8 DEF Execute
    <3>2. tickets' = tickets
      BY <2>8 DEF Execute
    <3>3. PICK h : /\ job' = [job EXCEPT ![f].hour = h, ![f].seen = state[job[f].txn]]
                   /\ pc' = [pc EXCEPT ![f] = GateVerdict(f, h)]
      BY <3>1
    <3>4. GateVerdict(f, h) # "escalate"
      BY VerdictType
    <3> QED
      BY <2>1, <3>2, <3>3, <3>4 DEF JobType
  <2> QED
    BY <2>2, <2>3, <2>4, <2>5, <2>6, <2>7, <2>8 DEF Node
<1>2. \A t \in Txns : tickets[t] \in Nat /\ tickets'[t] \in Nat
  BY NodeType DEF TicketInv, TypeInv, TypeOK
<1>3. \A g \in Procs : job[g].txn \in Txns
  BY DEF TicketInv, TypeInv, TypeOK, JobType
<1>4. ASSUME NEW g \in Graphs, pc'[g] = "escalate"
      PROVE  tickets'[job'[g].txn] > 0
  <2>1. CASE g = f
    BY <1>1, <1>4, <2>1
  <2>2. CASE g # f
    <3>1. tickets[job[g].txn] > 0 /\ job'[g] = job[g] /\ job[g].txn \in Txns
      BY <1>1, <1>3, <1>4, <2>2 DEF TicketInv, TicketFiled
    <3> QED
      BY <1>1, <1>2, <3>1
  <2> QED
    BY <2>1, <2>2
<1> QED
  BY <1>4 DEF TicketFiled

LEMMA NextTicket == TicketInv /\ [Next]_vars => TicketInv'
<1> SUFFICES ASSUME TicketInv, [Next]_vars PROVE TicketFiled'
  BY NextType DEF TicketInv
<1> USE GraphsAreProcs
<1>0. /\ \A g \in Procs : job[g].txn \in Txns
      /\ pc \in [Procs -> Steps] /\ job \in [Procs -> JobType]
      /\ tickets \in [Txns -> Nat]
  BY DEF TicketInv, TypeInv, TypeOK, JobType
<1>1. CASE \E f \in Graphs : Node(f)
  BY <1>1, NodeTicket
<1>2. ASSUME tickets' = tickets,
             \A g \in Graphs : pc'[g] = "escalate" => pc[g] = "escalate" /\ job'[g] = job[g]
      PROVE  TicketFiled'
  BY <1>2 DEF TicketInv, TicketFiled
<1>3. CASE \E r \in Requests, e \in Events : Deliver(r, e)
  BY <1>0, <1>2, <1>3 DEF Deliver
<1>4. CASE \E r \in Requests : Handler(r)
  BY <1>0, <1>2, <1>4
  DEF Handler, Claim, AnswerDuplicate, RejectUnmapped, Upsert, Respond
<1>5. CASE \E c \in Cases, in \in CaseInputs, p \in Policies : StartCase(c, in, p)
  BY <1>0, <1>2, <1>5 DEF StartCase
<1>6. CASE \E c \in Calls, t \in Txns : CallGate(c, t)
  BY <1>0, <1>2, <1>6 DEF CallGate, SideFrame
<1>7. CASE \E c \in Calls : CallRecord(c) \/ CallPlace(c)
  BY <1>0, <1>2, <1>7 DEF CallRecord, CallPlace, SideFrame
<1>8. CASE \E o \in Operators, t \in Txns, s \in HandSet : SetStatus(o, t, s)
  BY <1>0, <1>2, <1>8 DEF SetStatus, SideFrame
<1>9. CASE \E x \in Calls \cup Operators : FileTicket(x)
  <2>1. PICK x \in Calls \cup Operators : FileTicket(x)
    BY <1>9
  <2>2. \A g \in Graphs : pc'[g] = pc[g] /\ job'[g] = job[g]
    BY <1>0, <2>1 DEF FileTicket
  <2>3. \A t \in Txns : tickets'[t] >= tickets[t]
    BY <1>0, <2>1 DEF FileTicket
  <2>4. tickets' \in [Txns -> Nat]
    BY <1>0, <2>1, BumpType DEF FileTicket
  <2> QED
    BY <1>0, <2>2, <2>3, <2>4 DEF TicketInv, TicketFiled
<1>10. CASE (\E p \in Policies : EditPolicy(p)) \/ UNCHANGED vars
  BY <1>2, <1>10 DEF EditPolicy, vars
<1>11. CASE \E x \in Procs : Fail(x)
  BY <1>0, <1>2, <1>11 DEF Fail
<1>12. CASE Crash
  BY <1>0, <1>2, <1>12 DEF Crash
<1> QED
  BY <1>1, <1>3, <1>4, <1>5, <1>6, <1>7, <1>8, <1>9, <1>10, <1>11, <1>12 DEF Next

\* A step that makes a case ESCALATED is a run's escalation, whose ticket is
\* filed, or an operator's, whose ticket is the next thing it files.
LEMMA EscalationStep ==
  ASSUME TicketInv, Next, NEW t \in Txns, state'[t] = "ESCALATED", state[t] # "ESCALATED"
  PROVE  \/ tickets[t] > 0
         \/ \E o \in Operators : pc'[o] = "ticket" /\ job'[o].txn = t
<1> USE GraphsAreProcs
<1>0. /\ \A g \in Procs : job[g].txn \in Txns
      /\ pc \in [Procs -> Steps] /\ job \in [Procs -> JobType]
      /\ state \in [Txns -> Statuses]
  BY DEF TicketInv, TypeInv, TypeOK, JobType
<1>1. ASSUME NEW f \in Graphs, Node(f) PROVE tickets[t] > 0
  <2>1. CASE Escalate(f)
    BY <1>0, <2>1 DEF Escalate, TicketInv, TicketFiled
  <2>2. CASE Ingest(f) \/ ScreenTerminate(f) \/ Wait(f) \/ Reconcile(f)
    BY <1>0, <2>2 DEF Ingest, ScreenTerminate, Wait, Reconcile
  <2>3. CASE Defer(f) \/ Stop(f) \/ Approve(f)
    BY <1>0, <2>3 DEF Defer, Stop, Approve, Settle, Flush
  <2>4. CASE ScreenEscalate(f) \/ ScreenContinue(f) \/ Diagnose(f) \/ Execute(f)
             \/ Refuse(f) \/ Dispatch(f) \/ Record(f)
    BY <2>4 DEF ScreenEscalate, ScreenContinue, Diagnose, Execute, Refuse, Dispatch, Record
  <2> QED
    BY <1>1, <2>1, <2>2, <2>3, <2>4 DEF Node
<1>2. ASSUME NEW o \in Operators, NEW s \in HandSet, NEW u \in Txns, SetStatus(o, u, s)
      PROVE  pc'[o] = "ticket" /\ job'[o].txn = t
  <2>1. u = t /\ s = "ESCALATED"
    BY <1>0, <1>2 DEF SetStatus
  <2>2. pc'[o] = "ticket" /\ job'[o] = [job[o] EXCEPT !.txn = t]
    BY <1>0, <1>2, <2>1 DEF SetStatus
  <2> QED
    BY <1>0, <2>2 DEF JobType
<1>3. CASE \E r \in Requests : Handler(r)
  BY <1>0, <1>3 DEF Handler, Claim, AnswerDuplicate, RejectUnmapped, Upsert, Respond
<1>4. CASE \E c \in Cases, in \in CaseInputs, p \in Policies : StartCase(c, in, p)
  BY <1>0, <1>4 DEF StartCase
<1>5. CASE \/ \E r \in Requests, e \in Events : Deliver(r, e)
           \/ \E c \in Calls, u \in Txns : CallGate(c, u)
           \/ \E c \in Calls : CallRecord(c) \/ CallPlace(c)
           \/ \E x \in Calls \cup Operators : FileTicket(x)
           \/ \E p \in Policies : EditPolicy(p)
           \/ \E x \in Procs : Fail(x)
           \/ Crash
  BY <1>5 DEF Deliver, CallGate, CallRecord, CallPlace, FileTicket, EditPolicy, Fail, Crash
<1> QED
  BY <1>1, <1>2, <1>3, <1>4, <1>5 DEF Next

\* The engine never marks a case ESCALATED that has no ticket in the queue; only an
\* operator's own escalation files it afterwards.
THEOREM EscalationsSeen == Spec => EscalationHasTicket
<1>1. Init => TicketInv
  BY InitType, GraphsAreProcs DEF TicketInv, TicketFiled, Init
<1>2. TicketInv /\ [Next]_vars =>
        [\A t \in Txns : state'[t] = "ESCALATED" /\ state[t] # "ESCALATED" =>
           \/ tickets[t] > 0
           \/ \E o \in Operators : pc'[o] = "ticket" /\ job'[o].txn = t]_vars
  BY EscalationStep
<1> QED
  BY <1>1, <1>2, NextTicket, PTL DEF Spec, EscalationHasTicket
=============================================================================
