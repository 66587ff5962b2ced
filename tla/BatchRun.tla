------------------------------- MODULE BatchRun -------------------------------
(***************************************************************************)
(* What-if runs (simulation/runner.py) and what shares the tables with     *)
(* them: the bookkeeping of runs (simulation/store.py), live sessions      *)
(* opened on existing cases, and the merchant's own book.                  *)
(*                                                                         *)
(*  - A run is one POST /simulate/batch: a coroutine that streams events   *)
(*    while its cases run in worker threads, each with its own session; a  *)
(*    semaphore bounds how many at once.                                   *)
(*  - Janitors are DELETE /runs/{id} and POST /prune requests in the thread*)
(*    pool; the startup prunes too, before it serves anything.             *)
(*  - The engine's run over one case is taken as one commit; RecoveryGraph *)
(*    has the steps in between.                                            *)
(*  - Operators set the state of any row by hand, and so do the steps of a *)
(*    live session that holds one.                                         *)
(***************************************************************************)
EXTENDS ScenarioPlan

CONSTANTS
  Runs, Janitors,
  CasesOf,      \* Runs -> the ids of the cases it plans, in order
  Book,         \* the merchant's own transactions
  Scenarios,    \* Runs -> the scenarios that may be posted
  Draws,        \* the sets of cases a draw may settle
  BookStates,   \* the states the merchant's rows are in
  Saved,        \* the merchant's row at the start
  Policies,     \* the merchant rows an operator saves
  HandStates,   \* the states an operator or a live session sets
  JevSays, Weathers, Advice,   \* what Jev, the providers and the models answer
  Width,        \* the concurrency of a run
  Visited,      \* bound on the rows a live session is opened on or a hand is laid on
  Keep,         \* KEEP_RUNS, and what POST /prune may ask for
  MaxLives,     \* bound on the live sessions at a time
  MaxUpsets     \* bound on policy edits, states set by hand, deletions, prunes,
                \* failures and restarts together

Cases == UNION {Range(CasesOf[r]) : r \in Runs}
RunOf(c) == CHOOSE r \in Runs : c \in Range(CasesOf[r])
Rows  == Cases \cup Book
NoRun == "no run"
Live  == "live"      \* the run ids of live sessions

ASSUME BatchAssumption ==
  /\ \A r \in Runs : CasesOf[r] \in Seq(Cases) /\ IsInjective(CasesOf[r])
  /\ \A r, q \in Runs : r # q => Range(CasesOf[r]) \cap Range(CasesOf[q]) = {}
  /\ Cases \cap Book = {} /\ {NoRun, Live} \cap Runs = {}
  /\ \A r \in Runs : \A sc \in Scenarios[r] : Size(sc) \in 1..Len(CasesOf[r])
  /\ BookStates \cup HandStates \subseteq LifecycleStates
  /\ Policies \cup {Saved} \subseteq PolicyType(Nat)
  /\ JevSays \subseteq JevAnswers /\ Weathers \subseteq Weather
  /\ Advice \subseteq Playbooks \cup {"NONE"}
  /\ Width \in 1..32 /\ Keep \subseteq Nat /\ IsFiniteSet(Runs)

VARIABLES
  policy,     \* the merchant_policy row
  row,        \* Rows -> the transaction row
  scenario,   \* Runs -> the posted scenario
  planned,    \* Runs -> its cases
  sandbox,    \* Runs -> the policy of its sandbox
  stream,     \* Runs -> where its event stream is
  told,       \* Runs -> the cases whose event was sent
  summary,    \* Runs -> the figures of the complete event
  task,       \* Cases -> where its worker is
  result,     \* Cases -> the state its worker returned
  janitor,    \* Janitors -> the runs it has yet to delete, the ids it has read
  hands,      \* history: the cases whose state was set by hand, with the step
              \* their worker had reached
  upsets      \* what MaxUpsets bounds, so far

vars == <<policy, row, scenario, planned, sandbox, stream, told, summary, task, result,
          janitor, hands, upsets>>
runVars  == <<scenario, planned, sandbox>>
workVars == <<task, result>>
envVars  == <<policy, hands, upsets>>
-----------------------------------------------------------------------------
Unreturned == "none"
GoneRow == [state |-> "ABSENT", run |-> NoRun, live |-> FALSE, born |-> 0]
Present == {c \in Rows : row[c].state # "ABSENT"}
NoSummary == [total |-> 0, recovered |-> 0, measured |-> 0, lanes |-> [l \in Lanes |-> 0]]
IdleJanitor == [todo |-> <<>>, read |-> FALSE, ids |-> {}, pruning |-> FALSE]

TasksOf(r) == {CasesOf[r][n] : n \in DOMAIN planned[r]}
CaseAt(c)  == LET r == RunOf(c) IN planned[r][CHOOSE n \in DOMAIN CasesOf[r] : CasesOf[r][n] = c]

Init ==
  /\ policy = Saved
  /\ row \in {f \in [Rows -> {GoneRow}
                             \cup {[state |-> s, run |-> NoRun, live |-> FALSE, born |-> 0] :
                                     s \in BookStates}] :
                \A c \in Rows : f[c] = GoneRow <=> c \in Cases}
  /\ scenario = [r \in Runs |-> CHOOSE sc \in Scenarios[r] : TRUE]
  /\ planned = [r \in Runs |-> <<>>] /\ sandbox = [r \in Runs |-> policy]
  /\ stream = [r \in Runs |-> "none"] /\ told = [r \in Runs |-> {}]
  /\ summary = [r \in Runs |-> NoSummary]
  /\ task = [c \in Cases |-> "none"] /\ result = [c \in Cases |-> Unreturned]
  /\ janitor = [j \in Janitors |-> IdleJanitor]
  /\ hands = {} /\ upsets = 0
-----------------------------------------------------------------------------
Upset == upsets < MaxUpsets /\ upsets' = upsets + 1

(* The stream of a run.                                                    *)

\* The request body is a valid scenario.  The cases are planned, the policy is
\* read once and the overrides are laid over a copy; the start event goes out.
Post(r) ==
  /\ stream[r] = "none"
  /\ \E sc \in Scenarios[r], draws \in Draws :
       /\ scenario' = [scenario EXCEPT ![r] = sc]
       /\ planned' = [planned EXCEPT ![r] = Plan(sc, draws)]
       /\ sandbox' = [sandbox EXCEPT ![r] = AppliedTo(sc, policy)]
  /\ stream' = [stream EXCEPT ![r] = "posted"]
  /\ UNCHANGED <<row, told, summary, workVars, janitor, envVars>>

\* Every worker is created at once; they queue at the semaphore.
Launch(r) ==
  /\ stream[r] = "posted"
  /\ task' = [c \in Cases |-> IF c \in TasksOf(r) THEN "waiting" ELSE task[c]]
  /\ stream' = [stream EXCEPT ![r] = "open"]
  /\ UNCHANGED <<row, runVars, told, summary, result, janitor, envVars>>

\* The case event of a finished worker.
Report(r) ==
  /\ stream[r] = "open"
  /\ \E c \in TasksOf(r) \ told[r] :
       /\ task[c] = "returned"
       /\ told' = [told EXCEPT ![r] = @ \cup {c}]
  /\ UNCHANGED <<row, runVars, stream, summary, workVars, janitor, envVars>>

\* Awaiting a worker that raised raises in the stream.
Break(r) ==
  /\ stream[r] = "open" /\ \E c \in TasksOf(r) : task[c] = "raised"
  /\ stream' = [stream EXCEPT ![r] = "broken"]
  /\ UNCHANGED <<row, runVars, told, summary, workVars, janitor, envVars>>

\* compute_metrics over the rows of one run.
\* Mutant of Measured: the rows of every run are counted.
MeasuredUnscoped(r) == Cardinality({c \in Rows : row[c].state = "RECOVERED"})
Measured(r) == Cardinality({c \in Rows : row[c].run = r /\ row[c].state = "RECOVERED"})

AllTold(r) == told[r] = TasksOf(r)

\* The complete event: what the workers returned beside what the tables hold.
Complete(r) ==
  /\ stream[r] = "open" /\ AllTold(r)
  /\ summary' = [summary EXCEPT ![r] =
       [total     |-> Cardinality(told[r]),
        recovered |-> Cardinality({c \in told[r] : result[c] = "RECOVERED"}),
        measured  |-> Measured(r),
        lanes     |-> [l \in Lanes |-> Cardinality({c \in told[r] : Lane(result[c]) = l})]]]
  /\ stream' = [stream EXCEPT ![r] = "complete"]
  /\ UNCHANGED <<row, runVars, told, workVars, janitor, envVars>>

\* The client goes away: the generator is closed, workers already created go on.
Leave(r) ==
  /\ stream[r] \in {"posted", "open"}
  /\ stream' = [stream EXCEPT ![r] = "left"]
  /\ UNCHANGED <<row, runVars, told, summary, workVars, janitor, envVars>>
-----------------------------------------------------------------------------
(* A worker: _run_one, in a thread with a session of its own.              *)

Busy(r) == {c \in TasksOf(r) : task[c] \in {"work", "read"}}

Advance(c, step) == task' = [task EXCEPT ![c] = step]
WorkFrame == UNCHANGED <<runVars, stream, told, summary, janitor, envVars>>

Free(r) == Cardinality(Busy(r)) < Width
NewBorn == 1 + Max({row[c].born : c \in Rows})
\* Mutant of Stamp: the row does not carry the id of its run.
StampNothing(c) == NoRun
Stamp(c) == RunOf(c)
Insert(c) ==
  /\ task[c] = "waiting" /\ Free(RunOf(c))
  /\ row' = [row EXCEPT ![c] = [state |-> "PENDING", run |-> Stamp(c), live |-> FALSE,
                                born |-> NewBorn]]
  /\ Advance(c, "work")
  /\ UNCHANGED result /\ WorkFrame

\* Mutant of Sandbox: the merchant's row is read again for every case.
SandboxNow(r) == AppliedTo(scenario[r], policy)
Sandbox(r) == sandbox[r]

\* A column is written only where it differs from what the session loaded, so what
\* was set by hand between two steps of the engine may stand.
Ends(c, state) == {state} \cup (IF <<c, "work">> \in hands THEN {row[c].state} ELSE {})

\* The offline engine names the class default; with live_diagnosis the models are
\* asked.  A pinned playbook stands over both.
Work(c) ==
  LET r    == RunOf(c)
      case == CaseAt(c)
      End(p) == EngineEnd(case, Sandbox(r), scenario[r].hour,
                          IF case.playbook = "NONE" THEN p ELSE case.playbook)
      screened == case.message \in {"TERMINATE", "ESCALATE"}
  IN /\ task[c] = "work" /\ c \in Present
     /\ \/ /\ ~scenario[r].live \/ screened
           /\ \E s \in Ends(c, End(DefaultPlaybook[case.class])) :
                row' = [row EXCEPT ![c].state = s]
        \/ /\ scenario[r].live /\ ~screened
           /\ \E jev \in JevSays, w \in Weathers, advice \in Advice :
                \E s \in Ends(c, End(Diagnosed(case.class, jev, w, advice))) :
                  row' = [row EXCEPT ![c].state = s]
     /\ Advance(c, "read")
     /\ UNCHANGED result /\ WorkFrame

ReadBack(c) ==
  /\ task[c] = "read" /\ c \in Present
  /\ result' = [result EXCEPT ![c] = row[c].state]
  /\ Advance(c, "returned")
  /\ UNCHANGED row /\ WorkFrame

\* The row is gone: a node, or the worker itself, finds no transaction.
FindNothing(c) ==
  /\ task[c] \in {"work", "read"} /\ c \notin Present
  /\ Advance(c, "raised")
  /\ UNCHANGED <<row, result>> /\ WorkFrame

\* A database call raises: what was committed stays.
Fail(c) ==
  /\ task[c] \in {"work", "read"} /\ Upset
  /\ Advance(c, "raised")
  /\ UNCHANGED <<row, result, runVars, stream, told, summary, janitor, policy, hands>>

Worker(c) ==
  Insert(c) \/ Work(c) \/ ReadBack(c) \/ FindNothing(c)
-----------------------------------------------------------------------------
(* The bookkeeping of runs.                                                *)

\* list_runs: the runs that have rows, a live session's own left out.
\* Mutant of Listed: rows under a live session are listed like the others.
ListedLive == {c \in Present : row[c].run # NoRun}
Listed == {c \in Present : row[c].run # NoRun /\ ~row[c].live}
ListedRuns == {row[c].run : c \in Listed}
CreatedAt(r) == Min({row[c].born : c \in {d \in Listed : row[d].run = r}})
Newer(r) == {q \in ListedRuns : CreatedAt(q) > CreatedAt(r)}
\* Everything after the first keep runs, newest first.
Stale(keep) == {r \in ListedRuns : Cardinality(Newer(r)) >= keep}

JanitorFrame == UNCHANGED <<runVars, stream, told, summary, workVars, policy, hands>>
MayStart(j) == janitor[j] = IdleJanitor /\ upsets < MaxUpsets
StartJob(j, todo, pruning) ==
  /\ MayStart(j) /\ upsets' = upsets + 1
  /\ janitor' = [janitor EXCEPT ![j] = [IdleJanitor EXCEPT !.todo = todo, !.pruning = pruning]]
  /\ UNCHANGED row /\ JanitorFrame

\* The runs it found stale, in the order of the list.
Prune(j) == MayStart(j) /\ \E keep \in Keep :
  \E todo \in [1..Cardinality(Stale(keep)) -> Stale(keep)] :
  /\ Stale(keep) # {}
  /\ \A m, n \in DOMAIN todo : m < n => todo[m] \in Newer(todo[n])
  /\ StartJob(j, todo, TRUE)
AskDelete(j) == \E r \in {row[c].run : c \in Present} \ {NoRun} : StartJob(j, <<r>>, FALSE)

\* delete_run: transaction_ids is read in one statement ...
ReadIds(j) ==
  /\ janitor[j].todo # <<>> /\ ~janitor[j].read
  /\ janitor' = [janitor EXCEPT ![j].read = TRUE,
                                ![j].ids = {c \in Present : row[c].run = Head(janitor[j].todo)}]
  /\ UNCHANGED <<row, upsets>> /\ JanitorFrame

\* ... and the rows go in one transaction.
DeleteRows(j) ==
  /\ janitor[j].read
  /\ row' = [c \in Rows |-> IF c \in janitor[j].ids THEN GoneRow ELSE row[c]]
  /\ janitor' = [janitor EXCEPT ![j] =
       IF Len(janitor[j].todo) = 1 THEN IdleJanitor
       ELSE [janitor[j] EXCEPT !.todo = Tail(@), !.read = FALSE, !.ids = {}]]
  /\ UNCHANGED upsets /\ JanitorFrame

\* create_session on an existing case puts its own run id over the row's.
OpenLive(c) ==
  /\ c \in Present \cap Visited /\ ~row[c].live
  /\ Cardinality({d \in Rows : row[d].live}) < MaxLives
  /\ row' = [row EXCEPT ![c].run = Live, ![c].live = TRUE]
  /\ UNCHANGED <<runVars, stream, told, summary, workVars, janitor, envVars>>

Reached == {c \in Cases : task[c] \in {"work", "read", "returned"}}
\* set_status, or a step of the live session that holds the row.
SetState(c, s) ==
  /\ c \in Present \cap Visited /\ s # row[c].state /\ Upset
  /\ row' = [row EXCEPT ![c].state = s]
  /\ hands' = hands \cup {<<d, task[d]>> : d \in {c} \cap Reached}
  /\ UNCHANGED <<runVars, stream, told, summary, workVars, janitor, policy>>

EditPolicy(p) ==
  /\ p # policy /\ Upset
  /\ policy' = p
  /\ UNCHANGED <<row, runVars, stream, told, summary, workVars, janitor, hands>>

\* The process stops and starts again: the startup prunes before it serves.
Restart(keep) ==
  /\ Upset
  /\ stream' = [r \in Runs |-> IF stream[r] \in {"posted", "open"} THEN "dead" ELSE stream[r]]
  /\ task' = [c \in Cases |-> IF task[c] \in {"none", "returned", "raised"} THEN task[c]
                              ELSE "dead"]
  /\ row' = [c \in Rows |-> IF row[c].run \in Stale(keep) THEN GoneRow ELSE row[c]]
  /\ janitor' = [j \in Janitors |-> IdleJanitor]
  /\ UNCHANGED <<runVars, told, summary, result, policy, hands>>
-----------------------------------------------------------------------------
Next ==
  \/ \E r \in Runs : Post(r) \/ Launch(r) \/ Report(r) \/ Break(r) \/ Complete(r) \/ Leave(r)
  \/ \E c \in Cases : Worker(c) \/ Fail(c)
  \/ \E j \in Janitors : Prune(j) \/ AskDelete(j) \/ ReadIds(j) \/ DeleteRows(j)
  \/ \E c \in Rows : OpenLive(c) \/ \E s \in HandStates : SetState(c, s)
  \/ \E p \in Policies : EditPolicy(p)
  \/ \E keep \in Keep : Restart(keep)

Spec == Init /\ [][Next]_vars
-----------------------------------------------------------------------------
\* Every case is decided under the policy its run started with, whatever the
\* operator saves meanwhile (model diagnosis aside, which may name any playbook, and
\* cases whose state was set by hand while their worker was at them).
DecidedUnderSnapshot == \A r \in Runs : ~scenario[r].live =>
  \A c \in TasksOf(r) :
    (result[c] # Unreturned /\ {<<c, "work">>, <<c, "read">>} \cap hands = {}) =>
      LET case == CaseAt(c)
          playbook == IF case.playbook = "NONE" THEN DefaultPlaybook[case.class]
                      ELSE case.playbook
      IN result[c] = EngineEnd(case, sandbox[r], scenario[r].hour, playbook)

\* Unless rows of the run were deleted, taken over by a live session or set by hand
\* after their workers returned, what it measured in the tables is what its workers
\* reported.
SummaryAgrees == \A r \in Runs :
  (stream[r] = "complete"
     /\ \A c \in TasksOf(r) : row[c].run = r /\ <<c, "returned">> \notin hands)
    => summary[r].measured = summary[r].recovered

\* What the merchant's own figures are computed from changes only when a live
\* session is opened on one of its cases or the state of one is set by hand; and no
\* row of its book is ever deleted but by a DELETE that names a live session's run.
Real == [c \in {d \in Present : row[d].run = NoRun} |-> row[c].state]
LostFromBook == {c \in Book \cap Present : row'[c].state = "ABSENT"}
MerchantBookIntact ==
  [][/\ Real' = Real \/ \E c \in Book : OpenLive(c) \/ \E s \in HandStates : SetState(c, s)
     /\ \A c \in LostFromBook : row[c].live /\
          \E j \in Janitors : DeleteRows(j) /\ ~janitor[j].pruning /\ c \in janitor[j].ids]_vars

\* A prune never picks up a case a live session is held on.
PruneSparesLive == [][\A j \in Janitors :
  (janitor[j].pruning /\ ~janitor[j].read /\ janitor'[j].read) => \A c \in janitor'[j].ids : ~row[c].live]_vars
=============================================================================
