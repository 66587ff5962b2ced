------------------------------ MODULE BatchRunProofs ------------------------------
(***************************************************************************)
(* What a what-if run keeps apart, for any number of runs, cases, edits,   *)
(* deletions, prunes, failures and restarts: its cases from the operator's *)
(* edits, its figures from other runs', the merchant's own book from the   *)
(* simulated one, and the cases a live session holds from a prune.         *)
(***************************************************************************)
EXTENDS BatchRun, FiniteSetTheorems, TLAPS

USE DEF Upset, Advance, vars, runVars, workVars, envVars

RunIds  == Runs \cup {Live}
JanType == [todo : Seq(RunIds), read : BOOLEAN, ids : SUBSET Rows, pruning : BOOLEAN]
StreamSteps == {"none", "posted", "open", "complete", "broken", "left", "dead"}
TaskSteps   == {"none", "waiting", "work", "read", "returned", "raised", "dead"}

\* What the policy, the hour and the plan make of a case that no model diagnoses.
EndOf(c) ==
  LET r    == RunOf(c)
      case == CaseAt(c)
  IN EngineEnd(case, sandbox[r], scenario[r].hour,
               IF case.playbook = "NONE" THEN DefaultPlaybook[case.class] ELSE case.playbook)

Taken(x) == [x EXCEPT !.run = Live, !.live = TRUE]

RowsShaped ==
  /\ row = [c \in Rows |-> row[c]]
  /\ \A c \in Rows :
       /\ row[c] = [state |-> row[c].state, run |-> row[c].run, live |-> row[c].live,
                    born |-> row[c].born]
       /\ row[c].live \in BOOLEAN /\ (row[c].live <=> row[c].run = Live)
  /\ \A c \in Book : row[c].run \in {NoRun, Live}
  /\ \A c \in Cases : row[c] = GoneRow \/ row[c].run \in {RunOf(c), Live}

JansShaped ==
  /\ janitor \in [Janitors -> JanType]
  /\ \A j \in Janitors :
       /\ janitor[j].read => janitor[j].todo # <<>>
       /\ janitor[j].pruning => \A n \in DOMAIN janitor[j].todo : janitor[j].todo[n] # Live
       /\ \A c \in janitor[j].ids : c \in Present => row[c].run # NoRun
       /\ janitor[j].pruning => janitor[j].ids \cap Book = {}

TablesShaped ==
  /\ stream \in [Runs -> StreamSteps] /\ task \in [Cases -> TaskSteps]
  /\ result = [c \in Cases |-> result[c]] /\ told \in [Runs -> SUBSET Cases]
  /\ summary = [r \in Runs |-> summary[r]] /\ scenario = [r \in Runs |-> scenario[r]]
  /\ planned = [r \in Runs |-> planned[r]] /\ sandbox = [r \in Runs |-> sandbox[r]]
  /\ \A r \in Runs : DOMAIN planned[r] \subseteq DOMAIN CasesOf[r]

Shape == RowsShaped /\ JansShaped /\ TablesShaped
-----------------------------------------------------------------------------
(* Which run a case is of.                                                 *)

LEMMA RunOfCase ==
  ASSUME NEW c \in Cases
  PROVE  /\ RunOf(c) \in Runs /\ c \in Range(CasesOf[RunOf(c)])
         /\ RunOf(c) \notin {NoRun, Live} /\ c \notin Book /\ c \in Rows
<1>1. \E r \in Runs : c \in Range(CasesOf[r])
  BY DEF Cases
<1>2. RunOf(c) \in Runs /\ c \in Range(CasesOf[RunOf(c)])
  BY <1>1 DEF RunOf
<1> QED
  BY <1>2, BatchAssumption DEF Rows

LEMMA CaseOfRun ==
  ASSUME NEW r \in Runs, NEW c \in Range(CasesOf[r])
  PROVE  c \in Cases /\ RunOf(c) = r
<1>1. c \in Cases
  BY DEF Cases
<1>2. \A q \in Runs : q # r => c \notin Range(CasesOf[q])
  BY BatchAssumption
<1>3. RunOf(c) \in Runs /\ c \in Range(CasesOf[RunOf(c)])
  BY <1>1, RunOfCase
<1> QED
  BY <1>1, <1>2, <1>3

\* The runs a list shows are those of rows no live session holds.
LEMMA StaleRuns ==
  ASSUME Shape, NEW keep
  PROVE  Stale(keep) \subseteq Runs /\ IsFiniteSet(Stale(keep)) /\ NoRun \notin Stale(keep)
         /\ Live \notin Stale(keep)
<1>1. ASSUME NEW r \in Stale(keep) PROVE r \in Runs /\ r \notin {NoRun, Live}
  <2>1. PICK c \in Rows : row[c].run # NoRun /\ ~row[c].live /\ r = row[c].run
    BY <1>1 DEF Stale, ListedRuns, Listed, Present
  <2>2. row[c].run # Live /\ row[c] # GoneRow
    BY <2>1 DEF Shape, RowsShaped, GoneRow
  <2>3. c \in Cases /\ row[c].run = RunOf(c)
    BY <2>1, <2>2 DEF Shape, RowsShaped, Rows
  <2> QED
    BY <2>1, <2>3, RunOfCase
<1>2. Stale(keep) \subseteq Runs
  BY <1>1
<1> QED
  BY <1>1, <1>2, BatchAssumption, FS_Subset
-----------------------------------------------------------------------------
(* The initial state.                                                      *)

LEMMA InitShape == Init => Shape
<1> SUFFICES ASSUME Init PROVE Shape
  OBVIOUS
<1>1. RowsShaped
  <2>1. /\ row = [c \in Rows |-> row[c]]
        /\ \A c \in Rows : \/ row[c] = GoneRow
                           \/ \E s \in BookStates : row[c] = [state |-> s, run |-> NoRun,
                                                              live |-> FALSE, born |-> 0]
        /\ \A c \in Rows : row[c] = GoneRow <=> c \in Cases
    BY DEF Init
  <2>2. NoRun # Live
    BY DEF NoRun, Live
  <2>3. /\ GoneRow = [state |-> GoneRow.state, run |-> GoneRow.run, live |-> GoneRow.live,
                      born |-> GoneRow.born]
        /\ GoneRow.run = NoRun /\ GoneRow.live = FALSE
    BY DEF GoneRow
  <2>4. \A c \in Rows :
          /\ row[c] = [state |-> row[c].state, run |-> row[c].run, live |-> row[c].live,
                       born |-> row[c].born]
          /\ row[c].run = NoRun /\ row[c].live = FALSE
    BY <2>1, <2>3
  <2> QED
    BY <2>1, <2>2, <2>4 DEF RowsShaped, Rows
<1>2. JansShaped
  <2>1. IdleJanitor \in JanType
    BY DEF IdleJanitor, JanType
  <2>2. \A j \in Janitors : janitor[j] = IdleJanitor
    BY DEF Init
  <2> QED
    BY <2>1, <2>2 DEF Init, JansShaped, IdleJanitor
<1>3. TablesShaped
  BY DEF Init, TablesShaped, StreamSteps, TaskSteps
<1> QED
  BY <1>1, <1>2, <1>3 DEF Shape
-----------------------------------------------------------------------------
(* What a step may do to a case: nothing, or the next step of its worker.  *)
(* Its row may meanwhile be deleted, taken over by a live session, or set  *)
(* by hand.                                                                *)

Handled(c, s) ==
  /\ SetState(c, s) /\ c \in Present /\ row'[c] = [row[c] EXCEPT !.state = s]
  /\ c \in Reached => <<c, task[c]>> \in hands'

Kept(c) ==
  \/ row'[c] = row[c]
  \/ row'[c] = GoneRow /\ (c \in Present => row[c].run # NoRun)
  \/ OpenLive(c) /\ c \in Present /\ row'[c] = Taken(row[c])
  \/ \E s \in HandStates : Handled(c, s)

Launched(c) ==
  /\ task'[c] = "waiting" /\ result'[c] = result[c] /\ row'[c] = row[c]
  /\ c \in TasksOf(RunOf(c)) /\ stream[RunOf(c)] = "posted" /\ stream'[RunOf(c)] = "open"

Inserted(c) ==
  /\ task[c] = "waiting" /\ task'[c] = "work" /\ result'[c] = result[c]
  /\ row'[c] = [state |-> "PENDING", run |-> RunOf(c), live |-> FALSE, born |-> NewBorn]

WorkedOn(c) ==
  /\ task[c] = "work" /\ task'[c] = "read" /\ result'[c] = result[c] /\ c \in Present
  /\ \E x : /\ row'[c] = [row[c] EXCEPT !.state = x]
            /\ ~scenario[RunOf(c)].live /\ <<c, "work">> \notin hands => x = EndOf(c)

Returned(c) ==
  /\ task[c] = "read" /\ task'[c] = "returned" /\ c \in Present
  /\ row'[c] = row[c] /\ result'[c] = row[c].state

GivenUp(c) ==
  /\ task[c] \in {"waiting", "work", "read"} /\ task'[c] \in {"raised", "dead"}
  /\ result'[c] = result[c] /\ Kept(c)

CaseStep(c) ==
  \/ task'[c] = task[c] /\ result'[c] = result[c] /\ Kept(c)
  \/ Launched(c) \/ Inserted(c) \/ WorkedOn(c) \/ Returned(c) \/ GivenUp(c)

LEMMA TasksAreCases ==
  ASSUME Shape, NEW r \in Runs, NEW c \in TasksOf(r)
  PROVE  c \in Cases /\ RunOf(c) = r
<1>1. PICK n \in DOMAIN planned[r] : c = CasesOf[r][n]
  BY DEF TasksOf
<1>2. c \in Range(CasesOf[r])
  BY <1>1 DEF Shape, TablesShaped, Range
<1> QED
  BY <1>2, CaseOfRun

LEMMA WorkerMoves ==
  ASSUME Shape, NEW w \in Cases, Worker(w) \/ Fail(w)
  PROVE  /\ \A c \in Rows \ {w} : row'[c] = row[c]
         /\ \A c \in Cases \ {w} : task'[c] = task[c] /\ result'[c] = result[c]
         /\ Inserted(w) \/ WorkedOn(w) \/ Returned(w) \/ GivenUp(w)
         /\ row' = [c \in Rows |-> row'[c]] /\ result' = [c \in Cases |-> result'[c]]
         /\ hands' = hands
         /\ \E step \in TaskSteps : task' = [task EXCEPT ![w] = step]
<1> USE RunOfCase DEF Shape
<1>0. /\ row = [c \in Rows |-> row[c]] /\ task \in [Cases -> TaskSteps]
      /\ result = [c \in Cases |-> result[c]]
      /\ row[w] = [state |-> row[w].state, run |-> row[w].run, live |-> row[w].live,
                   born |-> row[w].born]
  BY DEF RowsShaped, TablesShaped
<1>1. CASE Insert(w)
  BY <1>0, <1>1 DEF Insert, Stamp, Inserted, TaskSteps, WorkFrame
<1>2. CASE Work(w)
  <2>1. PICK x : /\ row' = [row EXCEPT ![w].state = x]
                 /\ ~scenario[RunOf(w)].live /\ <<w, "work">> \notin hands => x = EndOf(w)
    BY <1>2 DEF Work, EndOf, Sandbox, Ends
  <2>2. row'[w] = [row[w] EXCEPT !.state = x]
    BY <1>0, <2>1
  <2>3. /\ task[w] = "work" /\ task' = [task EXCEPT ![w] = "read"] /\ result' = result
        /\ w \in Present /\ hands' = hands
    BY <1>2 DEF Work, WorkFrame
  <2>4. WorkedOn(w)
    BY <1>0, <2>1, <2>2, <2>3 DEF WorkedOn
  <2> QED
    BY <1>0, <2>1, <2>3, <2>4 DEF TaskSteps
<1>3. CASE ReadBack(w)
  BY <1>0, <1>3 DEF ReadBack, Returned, TaskSteps, WorkFrame
<1>4. CASE FindNothing(w)
  BY <1>0, <1>4 DEF FindNothing, GivenUp, Kept, TaskSteps, WorkFrame
<1>5. CASE Fail(w)
  BY <1>0, <1>5 DEF Fail, GivenUp, Kept, TaskSteps
<1> QED
  BY <1>1, <1>2, <1>3, <1>4, <1>5 DEF Worker

LEMMA RunMovesRows ==
  ASSUME Shape, NEW r \in Runs,
         Post(r) \/ Launch(r) \/ Report(r) \/ Break(r) \/ Complete(r) \/ Leave(r)
  PROVE  /\ row' = row /\ result' = result /\ hands' = hands
         /\ task' = [c \in Cases |-> task'[c]]
         /\ \A c \in Cases : task'[c] = task[c] \/ Launched(c)
<1>1. task = [c \in Cases |-> task[c]] /\ stream \in [Runs -> StreamSteps]
  BY DEF Shape, TablesShaped
<1>2. CASE Launch(r)
  <2>1. /\ task' = [c \in Cases |-> IF c \in TasksOf(r) THEN "waiting" ELSE task[c]]
        /\ row' = row /\ result' = result /\ stream[r] = "posted" /\ stream'[r] = "open"
        /\ hands' = hands
    BY <1>1, <1>2 DEF Launch
  <2>2. \A c \in TasksOf(r) : RunOf(c) = r
    BY TasksAreCases
  <2> QED
    BY <2>1, <2>2 DEF Launched
<1> QED
  BY <1>1, <1>2 DEF Post, Report, Break, Complete, Leave

LEMMA OtherMovesRows ==
  ASSUME Shape,
         \/ \E j \in Janitors : Prune(j) \/ AskDelete(j) \/ ReadIds(j) \/ DeleteRows(j)
         \/ \E c \in Rows : OpenLive(c) \/ \E s \in HandStates : SetState(c, s)
         \/ \E p \in Policies : EditPolicy(p)
         \/ \E keep \in Keep : Restart(keep)
         \/ UNCHANGED vars
  PROVE  /\ row' = [c \in Rows |-> row'[c]] /\ result' = result
         /\ task' = [c \in Cases |-> task'[c]]
         /\ hands \subseteq hands' /\ \A c \in Rows : Kept(c)
         /\ \A c \in Cases : \/ task'[c] = task[c]
                             \/ /\ task[c] \in {"waiting", "work", "read"}
                                /\ task'[c] = "dead"
<1> USE DEF Shape
<1>0. /\ row = [c \in Rows |-> row[c]] /\ task \in [Cases -> TaskSteps]
      /\ \A c \in Rows : row[c] = [state |-> row[c].state, run |-> row[c].run,
                                   live |-> row[c].live, born |-> row[c].born]
  BY DEF RowsShaped, TablesShaped
<1>1. CASE \/ \E j \in Janitors : Prune(j) \/ AskDelete(j) \/ ReadIds(j)
           \/ \E p \in Policies : EditPolicy(p)
           \/ UNCHANGED vars
  BY <1>0, <1>1 DEF Prune, AskDelete, StartJob, ReadIds, JanitorFrame, EditPolicy, Kept
<1>2. ASSUME NEW j \in Janitors, DeleteRows(j)
      PROVE  /\ row' = [c \in Rows |-> row'[c]] /\ result' = result /\ task' = task
             /\ hands' = hands /\ \A c \in Rows : Kept(c)
  <2>1. /\ row' = [c \in Rows |-> IF c \in janitor[j].ids THEN GoneRow ELSE row[c]]
        /\ result' = result /\ task' = task /\ hands' = hands
    BY <1>2 DEF DeleteRows, JanitorFrame
  <2>2. \A c \in janitor[j].ids : c \in Present => row[c].run # NoRun
    BY DEF JansShaped
  <2> QED
    BY <2>1, <2>2 DEF Kept
<1>3. ASSUME NEW o \in Rows, OpenLive(o)
      PROVE  /\ row' = [c \in Rows |-> row'[c]] /\ result' = result /\ task' = task
             /\ hands' = hands /\ \A c \in Rows : Kept(c)
  <2>1. /\ row' = [row EXCEPT ![o].run = Live, ![o].live = TRUE] /\ o \in Present
        /\ result' = result /\ task' = task /\ hands' = hands
    BY <1>3 DEF OpenLive
  <2>2. row'[o] = Taken(row[o])
    BY <1>0, <2>1 DEF Taken
  <2> QED
    BY <1>0, <1>3, <2>1, <2>2 DEF Kept
<1>4. ASSUME NEW keep \in Keep, Restart(keep)
      PROVE  /\ row' = [c \in Rows |-> row'[c]] /\ result' = result
             /\ task' = [c \in Cases |-> task'[c]] /\ hands' = hands /\ \A c \in Rows : Kept(c)
             /\ \A c \in Cases : \/ task'[c] = task[c]
                                 \/ /\ task[c] \in {"waiting", "work", "read"}
                                    /\ task'[c] = "dead"
  <2>1. /\ row' = [c \in Rows |-> IF row[c].run \in Stale(keep) THEN GoneRow ELSE row[c]]
        /\ result' = result /\ hands' = hands
        /\ task' = [c \in Cases |-> IF task[c] \in {"none", "returned", "raised"} THEN task[c]
                                    ELSE "dead"]
    BY <1>4 DEF Restart
  <2>2. \A c \in Rows : Kept(c)
    BY <2>1, StaleRuns DEF Kept
  <2> QED
    BY <1>0, <2>1, <2>2 DEF TaskSteps
<1>5. ASSUME NEW o \in Rows, NEW s \in HandStates, SetState(o, s)
      PROVE  /\ row' = [c \in Rows |-> row'[c]] /\ result' = result /\ task' = task
             /\ hands \subseteq hands' /\ \A c \in Rows : Kept(c)
  <2>1. /\ row' = [row EXCEPT ![o].state = s] /\ o \in Present
        /\ result' = result /\ task' = task
        /\ hands' = hands \cup {<<d, task[d]>> : d \in {o} \cap Reached}
    BY <1>5 DEF SetState
  <2>2. row'[o] = [row[o] EXCEPT !.state = s]
    BY <1>0, <2>1
  <2>3. o \in Reached => <<o, task[o]>> \in hands'
    BY <2>1
  <2>4. Handled(o, s)
    BY <1>5, <2>1, <2>2, <2>3 DEF Handled
  <2> QED
    BY <1>0, <2>1, <2>4 DEF Kept
<1> QED
  BY <1>0, <1>1, <1>2, <1>3, <1>4, <1>5

LEMMA CaseMoves ==
  ASSUME Shape, [Next]_vars
  PROVE  /\ row' = [c \in Rows |-> row'[c]] /\ result' = [c \in Cases |-> result'[c]]
         /\ task' = [c \in Cases |-> task'[c]]
         /\ \A c \in Cases : CaseStep(c)
         /\ \A c \in Book : Kept(c)
         /\ hands \subseteq hands'
<1>0. /\ row = [c \in Rows |-> row[c]] /\ result = [c \in Cases |-> result[c]]
      /\ task \in [Cases -> TaskSteps] /\ Book \subseteq Rows /\ Cases \subseteq Rows
      /\ Cases \cap Book = {}
  BY BatchAssumption DEF Shape, RowsShaped, TablesShaped, Rows
<1>1. ASSUME NEW w \in Cases, Worker(w) \/ Fail(w)
      PROVE  /\ row' = [c \in Rows |-> row'[c]] /\ result' = [c \in Cases |-> result'[c]]
             /\ task' = [c \in Cases |-> task'[c]]
             /\ \A c \in Cases : CaseStep(c)
             /\ \A c \in Book : Kept(c)
             /\ hands' = hands
  BY <1>0, <1>1, WorkerMoves DEF CaseStep, Kept
<1>2. ASSUME NEW r \in Runs,
             Post(r) \/ Launch(r) \/ Report(r) \/ Break(r) \/ Complete(r) \/ Leave(r)
      PROVE  /\ row' = [c \in Rows |-> row'[c]] /\ result' = [c \in Cases |-> result'[c]]
             /\ task' = [c \in Cases |-> task'[c]]
             /\ \A c \in Cases : CaseStep(c)
             /\ \A c \in Book : Kept(c)
             /\ hands' = hands
  BY <1>0, <1>2, RunMovesRows DEF CaseStep, Kept
<1>3. CASE \/ \E j \in Janitors : Prune(j) \/ AskDelete(j) \/ ReadIds(j) \/ DeleteRows(j)
           \/ \E c \in Rows : OpenLive(c) \/ \E s \in HandStates : SetState(c, s)
           \/ \E p \in Policies : EditPolicy(p)
           \/ \E keep \in Keep : Restart(keep)
           \/ UNCHANGED vars
  BY <1>0, <1>3, OtherMovesRows DEF CaseStep, GivenUp
<1> QED
  BY <1>1, <1>2, <1>3 DEF Next
-----------------------------------------------------------------------------
(* What a step may do to a run.                                            *)

SameRun(r) ==
  scenario'[r] = scenario[r] /\ planned'[r] = planned[r] /\ sandbox'[r] = sandbox[r]

Posted(r) ==
  /\ stream[r] = "none" /\ stream'[r] = "posted"
  /\ told'[r] = told[r] /\ summary'[r] = summary[r]
  /\ \E sc \in Scenarios[r] : \E draws : planned'[r] = Plan(sc, draws)

Streamed(r) ==
  /\ SameRun(r) /\ told'[r] = told[r] /\ summary'[r] = summary[r]
  /\ \/ stream'[r] = stream[r]
     \/ stream[r] = "posted" /\ stream'[r] = "open"
     \/ stream[r] \in {"posted", "open"} /\ stream'[r] \in {"broken", "left", "dead"}

Reported(r) ==
  /\ SameRun(r) /\ summary'[r] = summary[r] /\ stream'[r] = stream[r]
  /\ \E c \in TasksOf(r) : task[c] = "returned" /\ told'[r] = told[r] \cup {c}

Completed(r) ==
  /\ SameRun(r) /\ told'[r] = told[r] /\ stream[r] = "open" /\ stream'[r] = "complete"
  /\ AllTold(r)
  /\ summary'[r].recovered = Cardinality({c \in told[r] : result[c] = "RECOVERED"})
  /\ summary'[r].measured = Measured(r)

RunStep(r) == Posted(r) \/ Streamed(r) \/ Reported(r) \/ Completed(r)

RunTables ==
  /\ stream = [r \in Runs |-> stream[r]] /\ told = [r \in Runs |-> told[r]]
  /\ summary = [r \in Runs |-> summary[r]] /\ scenario = [r \in Runs |-> scenario[r]]
  /\ planned = [r \in Runs |-> planned[r]] /\ sandbox = [r \in Runs |-> sandbox[r]]

LEMMA RunMoves ==
  ASSUME Shape, [Next]_vars
  PROVE  RunTables' /\ \A r \in Runs : RunStep(r)
<1>0. RunTables /\ stream \in [Runs -> StreamSteps]
  BY DEF Shape, TablesShaped, RunTables
<1>1. ASSUME NEW q \in Runs, Post(q) PROVE RunTables' /\ \A r \in Runs : RunStep(r)
  <2>1. PICK sc \in Scenarios[q], draws \in Draws :
          /\ scenario' = [scenario EXCEPT ![q] = sc]
          /\ planned' = [planned EXCEPT ![q] = Plan(sc, draws)]
          /\ sandbox' = [sandbox EXCEPT ![q] = AppliedTo(sc, policy)]
    BY <1>1 DEF Post
  <2>2. /\ stream[q] = "none" /\ stream' = [stream EXCEPT ![q] = "posted"]
        /\ told' = told /\ summary' = summary
    BY <1>1 DEF Post
  <2>3. Posted(q)
    BY <1>0, <2>1, <2>2 DEF Posted, RunTables
  <2>4. \A r \in Runs \ {q} : Streamed(r)
    BY <1>0, <2>1, <2>2 DEF Streamed, SameRun, RunTables
  <2>5. RunTables'
    BY <1>0, <2>1, <2>2 DEF RunTables
  <2> QED
    BY <2>3, <2>4, <2>5 DEF RunStep
<1>2. ASSUME NEW q \in Runs, Launch(q) \/ Break(q) \/ Leave(q)
      PROVE  RunTables' /\ \A r \in Runs : RunStep(r)
  <2>1. /\ told' = told /\ summary' = summary /\ UNCHANGED runVars
        /\ \/ stream[q] = "posted" /\ stream' = [stream EXCEPT ![q] = "open"]
           \/ /\ stream[q] \in {"posted", "open"}
              /\ \E step \in {"broken", "left"} : stream' = [stream EXCEPT ![q] = step]
    BY <1>2 DEF Launch, Break, Leave
  <2> QED
    BY <1>0, <2>1 DEF RunTables, RunStep, Streamed, SameRun
<1>3. ASSUME NEW q \in Runs, Report(q) PROVE RunTables' /\ \A r \in Runs : RunStep(r)
  <2>1. PICK c \in TasksOf(q) : task[c] = "returned" /\ told' = [told EXCEPT ![q] = @ \cup {c}]
    BY <1>3 DEF Report
  <2>2. stream' = stream /\ summary' = summary /\ UNCHANGED runVars
    BY <1>3 DEF Report
  <2> QED
    BY <1>0, <2>1, <2>2 DEF RunTables, RunStep, Reported, Streamed, SameRun
<1>4. ASSUME NEW q \in Runs, Complete(q) PROVE RunTables' /\ \A r \in Runs : RunStep(r)
  <2> DEFINE figures ==
        [total     |-> Cardinality(told[q]),
         recovered |-> Cardinality({c \in told[q] : result[c] = "RECOVERED"}),
         measured  |-> Measured(q),
         lanes     |-> [l \in Lanes |-> Cardinality({c \in told[q] : Lane(result[c]) = l})]]
  <2>1. /\ summary' = [summary EXCEPT ![q] = figures] /\ stream[q] = "open" /\ AllTold(q)
        /\ stream' = [stream EXCEPT ![q] = "complete"] /\ told' = told /\ UNCHANGED runVars
    BY <1>4 DEF Complete
  <2>2. /\ figures.recovered = Cardinality({c \in told[q] : result[c] = "RECOVERED"})
        /\ figures.measured = Measured(q)
    OBVIOUS
  <2> HIDE DEF figures
  <2>3. Completed(q)
    BY <1>0, <2>1, <2>2 DEF Completed, SameRun, RunTables
  <2> QED
    BY <1>0, <2>1, <2>3 DEF RunTables, RunStep, Streamed, SameRun
<1>5. CASE \/ \E c \in Cases : Worker(c) \/ Fail(c)
           \/ \E j \in Janitors : Prune(j) \/ AskDelete(j) \/ ReadIds(j) \/ DeleteRows(j)
           \/ \E c \in Rows : OpenLive(c) \/ \E s \in HandStates : SetState(c, s)
           \/ \E p \in Policies : EditPolicy(p)
           \/ UNCHANGED vars
  <2>1. UNCHANGED <<stream, told, summary, scenario, planned, sandbox>>
    BY <1>5 DEF Worker, Insert, Work, ReadBack, FindNothing, Fail, WorkFrame, Prune, AskDelete,
         StartJob, ReadIds, DeleteRows, JanitorFrame, OpenLive, SetState, EditPolicy
  <2> QED
    BY <1>0, <2>1 DEF RunTables, RunStep, Streamed, SameRun
<1>6. CASE \E keep \in Keep : Restart(keep)
  BY <1>0, <1>6 DEF Restart, RunTables, RunStep, Streamed, SameRun
<1> QED
  BY <1>1, <1>2, <1>3, <1>4, <1>5, <1>6 DEF Next

LEMMA PlanFits ==
  ASSUME NEW r \in Runs, NEW sc \in Scenarios[r], NEW draws
  PROVE  DOMAIN Plan(sc, draws) \subseteq DOMAIN CasesOf[r]
<1>1. Size(sc) \in 1..Len(CasesOf[r]) /\ CasesOf[r] \in Seq(Cases)
  BY BatchAssumption
<1>2. DOMAIN Plan(sc, draws) = 1..Size(sc) /\ DOMAIN CasesOf[r] = 1..Len(CasesOf[r])
  BY <1>1 DEF Plan
<1> QED
  BY <1>1, <1>2

\* The janitors' lists.
LEMMA JanitorMoves ==
  ASSUME Shape, [Next]_vars
  PROVE  /\ janitor' \in [Janitors -> JanType]
         /\ \A j \in Janitors :
              /\ janitor'[j].read => janitor'[j].todo # <<>>
              /\ janitor'[j].pruning => janitor[j].pruning \/ janitor'[j].ids = {}
              /\ janitor'[j].pruning =>
                   \A n \in DOMAIN janitor'[j].todo : janitor'[j].todo[n] # Live
              /\ \/ janitor'[j].ids \subseteq janitor[j].ids
                 \/ /\ row' = row /\ janitor[j].todo # <<>>
                    /\ janitor'[j].ids = {c \in Present : row[c].run = Head(janitor[j].todo)}
<1> USE DEF Shape
<1>0. /\ janitor \in [Janitors -> JanType] /\ IdleJanitor \in JanType
      /\ \A j \in Janitors :
           /\ janitor[j].todo \in Seq(RunIds)
           /\ janitor[j].read => janitor[j].todo # <<>>
           /\ janitor[j].pruning =>
                \A n \in DOMAIN janitor[j].todo : janitor[j].todo[n] # Live
  BY DEF JansShaped, JanType, IdleJanitor
<1>1. ASSUME NEW k \in Janitors, NEW todo \in Seq(RunIds), NEW pruning \in BOOLEAN,
             pruning => \A n \in DOMAIN todo : todo[n] # Live, StartJob(k, todo, pruning)
      PROVE  /\ janitor' \in [Janitors -> JanType]
             /\ \A j \in Janitors :
                  /\ janitor'[j].read => janitor'[j].todo # <<>>
                  /\ janitor'[j].pruning => janitor[j].pruning \/ janitor'[j].ids = {}
                  /\ janitor'[j].pruning =>
                       \A n \in DOMAIN janitor'[j].todo : janitor'[j].todo[n] # Live
                  /\ janitor'[j].ids \subseteq janitor[j].ids
  <2> DEFINE job == [IdleJanitor EXCEPT !.todo = todo, !.pruning = pruning]
  <2>1. janitor' = [janitor EXCEPT ![k] = job]
    BY <1>1 DEF StartJob
  <2>2. job \in JanType /\ job.todo = todo /\ job.pruning = pruning /\ job.ids = {} /\ ~job.read
    BY DEF IdleJanitor, JanType
  <2> HIDE DEF job
  <2> QED
    BY <1>0, <1>1, <2>1, <2>2
<1>2. ASSUME NEW k \in Janitors, Prune(k)
      PROVE  \E todo \in Seq(RunIds) : /\ StartJob(k, todo, TRUE)
                                       /\ \A n \in DOMAIN todo : todo[n] # Live
  <2>1. PICK keep \in Keep : \E todo \in [1..Cardinality(Stale(keep)) -> Stale(keep)] :
          StartJob(k, todo, TRUE)
    BY <1>2 DEF Prune
  <2>2. PICK todo \in [1..Cardinality(Stale(keep)) -> Stale(keep)] : StartJob(k, todo, TRUE)
    BY <2>1
  <2>3. /\ Stale(keep) \subseteq Runs /\ Live \notin Stale(keep)
        /\ Cardinality(Stale(keep)) \in Nat
    BY StaleRuns, FS_CardinalityType
  <2>4. todo \in Seq(RunIds) /\ \A n \in DOMAIN todo : todo[n] # Live
    BY <2>2, <2>3 DEF RunIds
  <2> QED
    BY <2>2, <2>4
<1>3. ASSUME NEW k \in Janitors, AskDelete(k)
      PROVE  \E todo \in Seq(RunIds) : StartJob(k, todo, FALSE)
  <2>1. PICK c \in Rows : row[c].run # NoRun /\ StartJob(k, <<row[c].run>>, FALSE)
    BY <1>3 DEF AskDelete, Present
  <2>2. row[c].run \in RunIds
    BY <2>1, RunOfCase DEF RowsShaped, RunIds, Rows, GoneRow
  <2>3. \A x \in RunIds : <<x>> \in Seq(RunIds)
    OBVIOUS
  <2>4. <<row[c].run>> \in Seq(RunIds)
    BY <2>2, <2>3
  <2> QED
    BY <2>1, <2>4
<1>4. ASSUME NEW k \in Janitors, ReadIds(k)
      PROVE  /\ janitor' \in [Janitors -> JanType]
             /\ \A j \in Janitors :
                  /\ janitor'[j].read => janitor'[j].todo # <<>>
                  /\ janitor'[j].pruning => janitor[j].pruning \/ janitor'[j].ids = {}
                  /\ janitor'[j].pruning =>
                       \A n \in DOMAIN janitor'[j].todo : janitor'[j].todo[n] # Live
                  /\ \/ janitor'[j].ids \subseteq janitor[j].ids
                     \/ /\ row' = row /\ janitor[j].todo # <<>>
                        /\ janitor'[j].ids
                             = {c \in Present : row[c].run = Head(janitor[j].todo)}
  <2> DEFINE found == {c \in Present : row[c].run = Head(janitor[k].todo)}
             job   == [janitor[k] EXCEPT !.read = TRUE, !.ids = found]
  <2>1. janitor' = [janitor EXCEPT ![k] = job] /\ janitor[k].todo # <<>> /\ row' = row
    BY <1>4 DEF ReadIds
  <2>2. found \subseteq Rows
    BY DEF Present
  <2>3. /\ job \in JanType /\ job.todo = janitor[k].todo /\ job.pruning = janitor[k].pruning
        /\ job.ids = found
    BY <1>0, <2>2 DEF JanType
  <2> HIDE DEF job
  <2> QED
    BY <1>0, <2>1, <2>3
<1>5. ASSUME NEW k \in Janitors, DeleteRows(k)
      PROVE  /\ janitor' \in [Janitors -> JanType]
             /\ \A j \in Janitors :
                  /\ janitor'[j].read => janitor'[j].todo # <<>>
                  /\ janitor'[j].pruning => janitor[j].pruning \/ janitor'[j].ids = {}
                  /\ janitor'[j].pruning =>
                       \A n \in DOMAIN janitor'[j].todo : janitor'[j].todo[n] # Live
                  /\ janitor'[j].ids \subseteq janitor[j].ids
  <2> DEFINE job == IF Len(janitor[k].todo) = 1 THEN IdleJanitor
                    ELSE [janitor[k] EXCEPT !.todo = Tail(janitor[k].todo), !.read = FALSE,
                                            !.ids = {}]
  <2>1. /\ janitor' = [janitor EXCEPT ![k] =
             IF Len(janitor[k].todo) = 1 THEN IdleJanitor
             ELSE [janitor[k] EXCEPT !.todo = Tail(@), !.read = FALSE, !.ids = {}]]
        /\ janitor[k].read
    BY <1>5 DEF DeleteRows
  <2>2. job = IF Len(janitor[k].todo) = 1 THEN IdleJanitor
              ELSE [janitor[k] EXCEPT !.todo = Tail(@), !.read = FALSE, !.ids = {}]
    BY <1>0
  <2>3. janitor' = [janitor EXCEPT ![k] = job]
    BY <2>1, <2>2
  <2>4. /\ \A j \in Janitors : janitor'[j] = IF j = k THEN job ELSE janitor[j]
        /\ DOMAIN janitor' = Janitors /\ janitor' = [j \in Janitors |-> janitor'[j]]
    <3> HIDE DEF job
    <3> QED
      BY <1>0, <2>3
  <2>5. Tail(janitor[k].todo) \in Seq(RunIds)
        /\ \A n \in DOMAIN Tail(janitor[k].todo) :
             /\ Tail(janitor[k].todo)[n] = janitor[k].todo[n + 1]
             /\ n + 1 \in DOMAIN janitor[k].todo
    BY <1>0, <2>1
  <2>6. /\ job \in JanType /\ ~job.read /\ job.ids = {}
        /\ job.pruning => \A n \in DOMAIN job.todo : job.todo[n] # Live
    <3>1. CASE Len(janitor[k].todo) = 1
      BY <1>0, <3>1 DEF IdleJanitor
    <3>2. CASE Len(janitor[k].todo) # 1
      <4>1. /\ job \in JanType /\ job.todo = Tail(janitor[k].todo) /\ ~job.read /\ job.ids = {}
            /\ job.pruning = janitor[k].pruning
        BY <1>0, <2>5, <3>2 DEF JanType
      <4> HIDE DEF job
      <4>2. \A n \in DOMAIN job.todo :
              /\ job.todo[n] = janitor[k].todo[n + 1] /\ n + 1 \in DOMAIN janitor[k].todo
        BY <2>5, <4>1
      <4> QED
        BY <1>0, <4>1, <4>2
    <3> QED
      BY <3>1, <3>2
  <2> HIDE DEF job
  <2>7. janitor' \in [Janitors -> JanType]
    BY <1>0, <2>4, <2>6
  <2>8. ASSUME NEW j \in Janitors
        PROVE  /\ janitor'[j].read => janitor'[j].todo # <<>>
               /\ janitor'[j].pruning => janitor[j].pruning \/ janitor'[j].ids = {}
               /\ janitor'[j].pruning =>
                    \A n \in DOMAIN janitor'[j].todo : janitor'[j].todo[n] # Live
               /\ janitor'[j].ids \subseteq janitor[j].ids
    <3>1. CASE j = k
      <4>1. janitor'[j] = job
        BY <2>4, <3>1
      <4> QED
        BY <2>6, <4>1
    <3>2. CASE j # k
      <4>1. janitor'[j] = janitor[j]
        BY <2>4, <3>2
      <4> QED
        BY <1>0, <4>1
    <3> QED
      BY <3>1, <3>2
  <2> QED
    BY <2>7, <2>8
<1>6. CASE \E keep \in Keep : Restart(keep)
  BY <1>0, <1>6 DEF Restart, IdleJanitor
<1>7. CASE \/ \E r \in Runs : \/ Post(r) \/ Launch(r) \/ Report(r) \/ Break(r) \/ Complete(r)
                             \/ Leave(r)
           \/ \E c \in Cases : Worker(c) \/ Fail(c)
           \/ \E c \in Rows : OpenLive(c) \/ \E s \in HandStates : SetState(c, s)
           \/ \E p \in Policies : EditPolicy(p)
           \/ UNCHANGED vars
  <2>1. janitor' = janitor
    BY <1>7 DEF Post, Launch, Report, Break, Complete, Leave, Worker, Insert, Work, ReadBack,
         FindNothing, Fail, WorkFrame, OpenLive, SetState, EditPolicy
  <2> QED
    BY <1>0, <2>1
<1> QED
  BY <1>1, <1>2, <1>3, <1>4, <1>5, <1>6, <1>7 DEF Next
-----------------------------------------------------------------------------
(* The tables keep their shape.                                            *)

LEMMA TakenRow ==
  ASSUME NEW x, x = [state |-> x.state, run |-> x.run, live |-> x.live, born |-> x.born]
  PROVE  Taken(x) = [state |-> x.state, run |-> Live, live |-> TRUE, born |-> x.born]
<1> DEFINE S == {x.state, x.run, x.live, x.born, Live, TRUE}
           y == Taken(x)
<1>1. x \in [state : S, run : S, live : S, born : S]
  OBVIOUS
<1>2. y = [x EXCEPT !.run = Live, !.live = TRUE]
  BY DEF Taken
<1> HIDE DEF S, y
<1>3. /\ y.state = x.state /\ y.run = Live /\ y.live = TRUE /\ y.born = x.born
      /\ y = [state |-> y.state, run |-> y.run, live |-> y.live, born |-> y.born]
  BY <1>1, <1>2
<1> QED
  BY <1>3 DEF y

LEMMA NextRows ==
  ASSUME Shape, [Next]_vars
  PROVE  RowsShaped'
<1> USE CaseMoves DEF Shape, RowsShaped
<1>0. /\ GoneRow = [state |-> GoneRow.state, run |-> GoneRow.run, live |-> GoneRow.live,
                    born |-> GoneRow.born]
      /\ GoneRow.run = NoRun /\ GoneRow.live = FALSE /\ GoneRow.state = "ABSENT" /\ NoRun # Live
  BY DEF GoneRow, NoRun, Live
<1>1. ASSUME NEW c \in Rows
      PROVE  Taken(row[c]) = [state |-> row[c].state, run |-> Live, live |-> TRUE,
                              born |-> row[c].born]
  BY TakenRow
<1>2. ASSUME NEW c \in Rows, Kept(c)
      PROVE  /\ row'[c] = [state |-> row'[c].state, run |-> row'[c].run, live |-> row'[c].live,
                           born |-> row'[c].born]
             /\ row'[c].live \in BOOLEAN /\ (row'[c].live <=> row'[c].run = Live)
             /\ \/ row'[c] = row[c] \/ row'[c] = GoneRow \/ row'[c].run = Live
                \/ row[c] # GoneRow /\ row'[c].run = row[c].run
  <2>1. CASE row'[c] = row[c]
    BY <2>1
  <2>2. CASE row'[c] = GoneRow
    BY <1>0, <2>2
  <2>3. CASE row'[c] = Taken(row[c])
    <3>1. PICK s, b : row'[c] = [state |-> s, run |-> Live, live |-> TRUE, born |-> b]
      BY <1>1, <2>3
    <3> HIDE CaseMoves DEF Shape, RowsShaped
    <3> QED
      BY <3>1
  <2>4. ASSUME NEW s, row'[c] = [row[c] EXCEPT !.state = s], c \in Present
        PROVE  /\ row'[c] = [state |-> s, run |-> row[c].run, live |-> row[c].live,
                             born |-> row[c].born]
               /\ row[c] # GoneRow
    BY <1>0, <2>4 DEF Present
  <2> QED
    BY <1>2, <2>1, <2>2, <2>3, <2>4 DEF Kept, Handled
<1>3. ASSUME NEW c \in Cases
      PROVE  /\ row'[c] = [state |-> row'[c].state, run |-> row'[c].run, live |-> row'[c].live,
                           born |-> row'[c].born]
             /\ row'[c].live \in BOOLEAN /\ (row'[c].live <=> row'[c].run = Live)
             /\ row'[c] = GoneRow \/ row'[c].run \in {RunOf(c), Live}
  <2>1. c \in Rows /\ RunOf(c) # Live
    BY RunOfCase
  <2>2. CASE Kept(c)
    BY <1>2, <2>1, <2>2
  <2>3. CASE Inserted(c)
    BY <2>1, <2>3 DEF Inserted
  <2>4. CASE WorkedOn(c)
    <3>1. PICK x : row'[c] = [row[c] EXCEPT !.state = x] /\ row[c] # GoneRow
      BY <1>0, <2>4 DEF WorkedOn, Present
    <3> QED
      BY <2>1, <3>1
  <2>5. CASE row'[c] = row[c]
    BY <2>1, <2>5
  <2> QED
    BY <2>2, <2>3, <2>4, <2>5 DEF CaseStep, Launched, Returned, GivenUp
<1>4. \A c \in Book : c \in Rows /\ row'[c].run \in {NoRun, Live}
  BY <1>0, <1>2 DEF Rows
<1> QED
  BY <1>2, <1>3, <1>4 DEF Rows

LEMMA NextJans ==
  ASSUME Shape, [Next]_vars
  PROVE  JansShaped'
<1>0. RowsShaped' /\ NoRun # Live /\ GoneRow.state = "ABSENT"
  BY NextRows DEF NoRun, Live, GoneRow
<1>1. NoRun \notin RunIds /\ \A c \in Cases : RunOf(c) # NoRun
  BY <1>0, BatchAssumption, RunOfCase DEF RunIds
<1>2. ASSUME NEW j \in Janitors, NEW c \in janitor'[j].ids, c \in Present'
      PROVE  row'[c].run # NoRun
  <2>1. c \in Rows /\ row'[c].state # "ABSENT"
    BY <1>2 DEF Present
  <2>2. CASE c \in Cases
    BY <1>0, <1>1, <2>1, <2>2 DEF RowsShaped
  <2>3. CASE c \in Book /\ c \in janitor[j].ids
    <3>1. Kept(c)
      BY <2>3, CaseMoves
    <3>2. CASE row'[c] = row[c]
      BY <2>1, <2>3, <3>2 DEF Shape, JansShaped, Present
    <3>3. CASE row'[c] = Taken(row[c])
      BY <1>0, <2>1, <3>3 DEF Shape, RowsShaped, Taken
    <3>4. ASSUME NEW s, row'[c] = [row[c] EXCEPT !.state = s], c \in Present
          PROVE  row'[c].run = row[c].run
      BY <2>1, <3>4 DEF Shape, RowsShaped
    <3> QED
      BY <1>0, <2>1, <2>3, <3>1, <3>2, <3>3, <3>4 DEF Kept, Handled, Shape, JansShaped
  <2>4. CASE c \notin janitor[j].ids
    <3>1. /\ row' = row /\ janitor[j].todo # <<>>
          /\ janitor'[j].ids = {d \in Present : row[d].run = Head(janitor[j].todo)}
      BY <1>2, <2>4, JanitorMoves
    <3>2. janitor[j].todo \in Seq(RunIds)
      BY DEF Shape, JansShaped, JanType
    <3>3. Head(janitor[j].todo) \in RunIds
      BY <3>1, <3>2
    <3> QED
      BY <1>1, <1>2, <3>1, <3>3
  <2> QED
    BY <2>1, <2>2, <2>3, <2>4 DEF Rows
<1>3. ASSUME NEW j \in Janitors, janitor'[j].pruning, NEW c \in janitor'[j].ids
      PROVE  c \notin Book
  <2>1. janitor[j].pruning /\ janitor[j].todo \in Seq(RunIds)
    BY <1>3, JanitorMoves DEF Shape, JansShaped, JanType
  <2>2. CASE c \in janitor[j].ids
    BY <2>1, <2>2 DEF Shape, JansShaped
  <2>3. CASE c \notin janitor[j].ids
    <3>1. /\ janitor[j].todo # <<>>
          /\ janitor'[j].ids = {d \in Present : row[d].run = Head(janitor[j].todo)}
      BY <1>3, <2>3, JanitorMoves
    <3>2. Head(janitor[j].todo) \in RunIds /\ Head(janitor[j].todo) # Live
      BY <2>1, <3>1 DEF Shape, JansShaped
    <3>3. row[c].run \notin {NoRun, Live}
      BY <1>1, <1>3, <3>1, <3>2
    <3> QED
      BY <3>3 DEF Shape, RowsShaped
  <2> QED
    BY <2>2, <2>3
<1> QED
  BY <1>2, <1>3, JanitorMoves DEF JansShaped

LEMMA NextTables ==
  ASSUME Shape, [Next]_vars
  PROVE  TablesShaped'
<1>1. ASSUME NEW c \in Cases PROVE task'[c] \in TaskSteps
  BY CaseMoves DEF Shape, TablesShaped, CaseStep, Launched, Inserted, WorkedOn, Returned,
     GivenUp, TaskSteps
<1>2. ASSUME NEW r \in Runs
      PROVE  /\ stream'[r] \in StreamSteps /\ told'[r] \subseteq Cases
             /\ DOMAIN planned'[r] \subseteq DOMAIN CasesOf[r]
  <2>0. /\ stream[r] \in StreamSteps /\ told[r] \subseteq Cases
        /\ DOMAIN planned[r] \subseteq DOMAIN CasesOf[r]
    BY DEF Shape, TablesShaped
  <2>1. RunStep(r)
    BY RunMoves
  <2>2. CASE Posted(r)
    BY <2>0, <2>2, PlanFits DEF Posted, StreamSteps
  <2>3. CASE Streamed(r)
    BY <2>0, <2>3 DEF Streamed, SameRun, StreamSteps
  <2>4. CASE Reported(r)
    BY <2>0, <2>4, TasksAreCases DEF Reported, SameRun
  <2>5. CASE Completed(r)
    BY <2>0, <2>5 DEF Completed, SameRun, StreamSteps
  <2> QED
    BY <2>1, <2>2, <2>3, <2>4, <2>5 DEF RunStep
<1>3. task' = [c \in Cases |-> task'[c]] /\ result' = [c \in Cases |-> result'[c]]
  BY CaseMoves
<1>4. RunTables'
  BY RunMoves
<1>5. task' \in [Cases -> TaskSteps]
  BY <1>1, <1>3
<1>6. stream' \in [Runs -> StreamSteps] /\ told' \in [Runs -> SUBSET Cases]
  BY <1>2, <1>4 DEF RunTables
<1> QED
  BY <1>2, <1>3, <1>4, <1>5, <1>6 DEF TablesShaped, RunTables

LEMMA NextShape == Shape /\ [Next]_vars => Shape'
BY NextRows, NextJans, NextTables DEF Shape
-----------------------------------------------------------------------------
(* The stream, the workers and the rows of a run in step with each other.  *)

\* A run plans nothing before it is posted, tells what its workers returned, and is
\* complete when it has told all of it.
Staged == \A r \in Runs :
  /\ stream[r] = "none" => planned[r] = <<>>
  /\ told[r] \subseteq TasksOf(r) /\ \A c \in told[r] : task[c] = "returned"
  /\ stream[r] = "complete" => AllTold(r)

\* A worker belongs to its launched run, has no result before it returns and has no
\* row before it starts.
Manned == \A c \in Cases :
  /\ stream[RunOf(c)] \in {"none", "posted"} => task[c] = "none"
  /\ task[c] # "none" => c \in TasksOf(RunOf(c))
  /\ task[c] # "returned" => result[c] = Unreturned
  /\ task[c] \in {"none", "waiting"} => row[c] = GoneRow

\* Nobody set the case by hand while its worker was at it.
Unhandled(c) == <<c, "work">> \notin hands /\ <<c, "read">> \notin hands

\* What a worker has decided, and what of it the row still shows.
Decided == \A c \in Cases :
  /\ ~scenario[RunOf(c)].live =>
       /\ task[c] = "read" /\ c \in Present /\ Unhandled(c) => row[c].state = EndOf(c)
       /\ result[c] # Unreturned /\ Unhandled(c) => result[c] = EndOf(c)
  /\ task[c] = "returned" /\ row[c].run = RunOf(c) /\ <<c, "returned">> \notin hands
       => row[c].state = result[c]

BatchInv == Shape /\ Staged /\ Manned /\ Decided

LEMMA InitBatch == Init => BatchInv
<1> SUFFICES ASSUME Init PROVE BatchInv
  OBVIOUS
<1>1. Shape
  BY InitShape
<1>2. Staged
  BY DEF Init, Staged, TasksOf
<1>3. Manned /\ Decided
  <2>1. ASSUME NEW c \in Cases
        PROVE  /\ task[c] = "none" /\ result[c] = Unreturned /\ row[c] = GoneRow
               /\ RunOf(c) \in Runs
    BY RunOfCase DEF Init
  <2> QED
    BY <2>1 DEF Manned, Decided
<1> QED
  BY <1>1, <1>2, <1>3 DEF BatchInv

\* The plan of a run stands once it is posted.
LEMMA PlanStands ==
  ASSUME BatchInv, [Next]_vars, NEW r \in Runs
  PROVE  \/ SameRun(r) /\ TasksOf(r)' = TasksOf(r)
         \/ Posted(r) /\ TasksOf(r) = {} /\ told[r] = {}
<1>1. RunStep(r)
  BY RunMoves DEF BatchInv
<1>2. CASE Posted(r)
  <2>1. planned[r] = <<>>
    BY <1>2 DEF BatchInv, Staged, Posted
  <2>2. TasksOf(r) = {}
    BY <2>1 DEF TasksOf
  <2> QED
    BY <1>2, <2>2 DEF BatchInv, Staged
<1>3. CASE SameRun(r)
  BY <1>3 DEF SameRun, TasksOf
<1> QED
  BY <1>1, <1>2, <1>3 DEF RunStep, Streamed, Reported, Completed

\* A worker that has returned is done: its run was launched before.
LEMMA ReturnedStays ==
  ASSUME BatchInv, [Next]_vars, NEW c \in Cases, task[c] = "returned"
  PROVE  task'[c] = "returned" /\ Kept(c)
<1>1. CaseStep(c)
  BY CaseMoves DEF BatchInv
<1>2. stream[RunOf(c)] # "posted"
  BY DEF BatchInv, Manned
<1> QED
  BY <1>1, <1>2 DEF CaseStep, Launched, Inserted, WorkedOn, Returned, GivenUp

LEMMA NextStaged ==
  ASSUME BatchInv, [Next]_vars
  PROVE  Staged'
<1> SUFFICES ASSUME NEW r \in Runs
             PROVE  /\ stream'[r] = "none" => planned'[r] = <<>>
                    /\ told'[r] \subseteq TasksOf(r)' /\ \A c \in told'[r] : task'[c] = "returned"
                    /\ stream'[r] = "complete" => told'[r] = TasksOf(r)'
  BY DEF Staged, AllTold
<1>0. /\ stream[r] = "none" => planned[r] = <<>>
      /\ told[r] \subseteq TasksOf(r) /\ \A c \in told[r] : task[c] = "returned"
      /\ stream[r] = "complete" => told[r] = TasksOf(r)
      /\ Shape
  BY DEF BatchInv, Staged, AllTold
<1>1. \A c \in TasksOf(r) : task[c] = "returned" => task'[c] = "returned"
  BY <1>0, TasksAreCases, ReturnedStays
<1>2. RunStep(r)
  BY <1>0, RunMoves
<1>3. CASE Posted(r)
  BY <1>0, <1>1, <1>3, PlanStands DEF Posted
<1>4. ASSUME SameRun(r) PROVE TasksOf(r)' = TasksOf(r) /\ planned'[r] = planned[r]
  BY <1>4 DEF SameRun, TasksOf
<1>5. CASE Streamed(r)
  BY <1>0, <1>1, <1>4, <1>5 DEF Streamed
<1>6. CASE Reported(r)
  BY <1>0, <1>1, <1>4, <1>6 DEF Reported
<1>7. CASE Completed(r)
  BY <1>0, <1>1, <1>4, <1>7 DEF Completed, AllTold
<1> QED
  BY <1>2, <1>3, <1>5, <1>6, <1>7 DEF RunStep

\* The stream of a run that is not launched stays so until it is.
LEMMA NextManned ==
  ASSUME BatchInv, [Next]_vars
  PROVE  Manned'
<1> SUFFICES ASSUME NEW c \in Cases
             PROVE  /\ stream'[RunOf(c)] \in {"none", "posted"} => task'[c] = "none"
                    /\ task'[c] # "none" => c \in TasksOf(RunOf(c))'
                    /\ task'[c] # "returned" => result'[c] = Unreturned
                    /\ task'[c] \in {"none", "waiting"} => row'[c] = GoneRow
  BY DEF Manned
<1>0. /\ stream[RunOf(c)] \in {"none", "posted"} => task[c] = "none"
      /\ task[c] # "none" => c \in TasksOf(RunOf(c))
      /\ task[c] # "returned" => result[c] = Unreturned
      /\ task[c] \in {"none", "waiting"} => row[c] = GoneRow
      /\ RunOf(c) \in Runs /\ Shape
  BY RunOfCase DEF BatchInv, Manned
<1>1. CaseStep(c) /\ RunStep(RunOf(c))
  BY <1>0, CaseMoves, RunMoves
<1>2. stream'[RunOf(c)] \in {"none", "posted"} => stream[RunOf(c)] \in {"none", "posted"}
  BY <1>1 DEF RunStep, Posted, Streamed, Reported, Completed
<1>3. stream'[RunOf(c)] \in {"none", "posted"} => task'[c] = "none"
  BY <1>0, <1>1, <1>2 DEF CaseStep, Launched, Inserted, WorkedOn, Returned, GivenUp
<1>4. task'[c] # "none" => c \in TasksOf(RunOf(c))'
  <2>1. CASE Posted(RunOf(c))
    BY <1>3, <2>1 DEF Posted
  <2>2. CASE TasksOf(RunOf(c))' = TasksOf(RunOf(c))
    BY <1>0, <1>1, <2>2 DEF CaseStep, Launched, Inserted, WorkedOn, Returned, GivenUp
  <2> QED
    BY <1>0, <2>1, <2>2, PlanStands
<1>5. task'[c] # "returned" => result'[c] = Unreturned
  BY <1>0, <1>1 DEF CaseStep, Launched, Inserted, WorkedOn, Returned, GivenUp
<1>6. task'[c] \in {"none", "waiting"} => row'[c] = GoneRow
  <2>1. row[c] = GoneRow => ~(c \in Present)
    BY DEF Present, GoneRow
  <2>2. CASE task'[c] = task[c] /\ Kept(c)
    BY <1>0, <2>1, <2>2 DEF Kept, Handled
  <2>3. CASE Launched(c)
    BY <1>0, <2>3 DEF Launched
  <2>4. CASE Inserted(c) \/ WorkedOn(c) \/ Returned(c) \/ GivenUp(c)
    BY <2>4 DEF Inserted, WorkedOn, Returned, GivenUp
  <2> QED
    BY <1>1, <2>2, <2>3, <2>4 DEF CaseStep
<1> QED
  BY <1>3, <1>4, <1>5, <1>6

\* What was decided is not decided again: the plan, the hour and the sandbox of the
\* run are those it was posted with.
LEMMA NextDecided ==
  ASSUME BatchInv, [Next]_vars
  PROVE  Decided'
<1> SUFFICES ASSUME NEW c \in Cases
             PROVE  /\ ~scenario'[RunOf(c)].live =>
                         /\ task'[c] = "read" /\ (c \in Present)' /\ Unhandled(c)'
                              => row'[c].state = EndOf(c)'
                         /\ result'[c] # Unreturned /\ Unhandled(c)' => result'[c] = EndOf(c)'
                    /\ task'[c] = "returned" /\ row'[c].run = RunOf(c)
                       /\ <<c, "returned">> \notin hands' => row'[c].state = result'[c]
  BY DEF Decided
<1>0. /\ ~scenario[RunOf(c)].live =>
           /\ task[c] = "read" /\ c \in Present /\ Unhandled(c) => row[c].state = EndOf(c)
           /\ result[c] # Unreturned /\ Unhandled(c) => result[c] = EndOf(c)
      /\ task[c] = "returned" /\ row[c].run = RunOf(c) /\ <<c, "returned">> \notin hands
           => row[c].state = result[c]
      /\ RunOf(c) \in Runs /\ Shape /\ c \in Rows /\ RunOf(c) \notin {NoRun, Live}
  BY RunOfCase DEF BatchInv, Decided
<1>1. CaseStep(c) /\ hands \subseteq hands' /\ (Unhandled(c)' => Unhandled(c))
  BY <1>0, CaseMoves DEF Unhandled
<1>2. ASSUME Kept(c), c \in Reached => <<c, task[c]>> \notin hands'
      PROVE  c \in Reached =>
               /\ (c \in Present)' => c \in Present /\ row'[c].state = row[c].state
               /\ row'[c].run = RunOf(c) => row'[c] = row[c]
  <2>1. GoneRow.state = "ABSENT" /\ GoneRow.run = NoRun
    BY DEF GoneRow
  <2>2. Taken(row[c]).run = Live /\ Taken(row[c]).state = row[c].state
    BY <1>0, TakenRow DEF Shape, RowsShaped
  <2> QED
    BY <1>0, <1>2, <2>1, <2>2 DEF Kept, Handled, Present
<1>3. ASSUME SameRun(RunOf(c))
      PROVE  EndOf(c)' = EndOf(c) /\ scenario'[RunOf(c)] = scenario[RunOf(c)]
  BY <1>3 DEF SameRun, EndOf, CaseAt
<1>4. CASE Posted(RunOf(c))
  <2>1. task[c] = "none" /\ result[c] = Unreturned
    BY <1>0, <1>4 DEF BatchInv, Manned, Posted
  <2>2. task'[c] = "none" /\ result'[c] = Unreturned
    BY <1>1, <1>4, <2>1 DEF CaseStep, Launched, Inserted, WorkedOn, Returned, GivenUp, Posted
  <2> QED
    BY <2>2
<1>5. CASE SameRun(RunOf(c))
  <2>1. CASE task'[c] = task[c] /\ result'[c] = result[c] /\ Kept(c)
    <3>1. CASE c \in Reached => <<c, task[c]>> \notin hands'
      BY <1>0, <1>1, <1>2, <1>3, <1>5, <2>1, <3>1 DEF Reached
    <3>2. CASE <<c, task[c]>> \in hands' /\ c \in Reached
      BY <1>0, <1>1, <1>3, <1>5, <2>1, <3>2 DEF Reached, Unhandled
    <3> QED
      BY <3>1, <3>2
  <2>2. CASE Launched(c)
    BY <1>0, <1>1, <1>3, <1>5, <2>2 DEF Launched
  <2>3. CASE Inserted(c)
    BY <1>0, <1>1, <1>3, <1>5, <2>3 DEF Inserted
  <2>4. CASE WorkedOn(c)
    <3>1. PICK x : /\ row'[c] = [row[c] EXCEPT !.state = x]
                   /\ ~scenario[RunOf(c)].live /\ <<c, "work">> \notin hands => x = EndOf(c)
      BY <2>4 DEF WorkedOn
    <3>2. row'[c].state = x
      BY <1>0, <3>1 DEF Shape, RowsShaped
    <3> QED
      BY <1>0, <1>1, <1>3, <1>5, <2>4, <3>1, <3>2 DEF WorkedOn, Unhandled
  <2>5. CASE Returned(c)
    BY <1>0, <1>1, <1>3, <1>5, <2>5 DEF Returned
  <2>6. CASE GivenUp(c)
    BY <1>0, <1>1, <1>3, <1>5, <2>6 DEF GivenUp
  <2> QED
    BY <1>1, <2>1, <2>2, <2>3, <2>4, <2>5, <2>6 DEF CaseStep
<1> QED
  BY <1>0, <1>4, <1>5, PlanStands

LEMMA NextBatch == BatchInv /\ [Next]_vars => BatchInv'
BY NextShape, NextStaged, NextManned, NextDecided DEF BatchInv

LEMMA AlwaysBatch == Spec => []BatchInv
<1>1. Init => BatchInv
  BY InitBatch
<1>2. BatchInv /\ [Next]_vars => BatchInv'
  BY NextBatch
<1> QED
  BY <1>1, <1>2, PTL DEF Spec
-----------------------------------------------------------------------------
(* The theorems.                                                           *)

\* Whatever the operator saves while a run is under way, each of its cases ends where
\* the policy of its start puts it, unless its state was set by hand meanwhile.
THEOREM SnapshotDecides == Spec => []DecidedUnderSnapshot
<1>1. BatchInv => DecidedUnderSnapshot
  <2> SUFFICES ASSUME BatchInv, NEW r \in Runs, ~scenario[r].live, NEW c \in TasksOf(r),
                      result[c] # Unreturned,
                      {<<c, "work">>, <<c, "read">>} \cap hands = {}
               PROVE  result[c] = EngineEnd(CaseAt(c), sandbox[r], scenario[r].hour,
                        IF CaseAt(c).playbook = "NONE" THEN DefaultPlaybook[CaseAt(c).class]
                        ELSE CaseAt(c).playbook)
    BY DEF DecidedUnderSnapshot
  <2>1. c \in Cases /\ RunOf(c) = r
    BY TasksAreCases DEF BatchInv
  <2>2. result[c] = EndOf(c)
    BY <2>1 DEF BatchInv, Decided, Unhandled
  <2> QED
    BY <2>1, <2>2 DEF EndOf
<1> QED
  BY <1>1, AlwaysBatch, PTL

\* The rows of a run that is told whole, none of them deleted, taken over or set by
\* hand, show what its workers returned, and no other row carries its id.
LEMMA RowsAgree ==
  ASSUME BatchInv, NEW r \in Runs, AllTold(r),
         \A c \in TasksOf(r) : row[c].run = r /\ <<c, "returned">> \notin hands
  PROVE  {c \in told[r] : result[c] = "RECOVERED"}
           = {c \in Rows : row[c].run = r /\ row[c].state = "RECOVERED"}
<1>1. ASSUME NEW c \in TasksOf(r)
      PROVE  c \in Rows /\ row[c].state = result[c]
  <2>1. c \in Cases /\ RunOf(c) = r /\ c \in Rows
    BY TasksAreCases, RunOfCase DEF BatchInv
  <2>2. task[c] = "returned"
    BY DEF BatchInv, Staged, AllTold
  <2> QED
    BY <2>1, <2>2 DEF BatchInv, Decided
<1>2. ASSUME NEW c \in Rows, row[c].run = r
      PROVE  c \in TasksOf(r)
  <2>1. r \notin {NoRun, Live} /\ GoneRow.run = NoRun
    BY BatchAssumption DEF GoneRow
  <2>2. c \in Cases /\ row[c] # GoneRow /\ RunOf(c) = r
    BY <1>2, <2>1 DEF BatchInv, Shape, RowsShaped, Rows
  <2> QED
    BY <2>2 DEF BatchInv, Manned
<1> QED
  BY <1>1, <1>2 DEF AllTold

\* Once a run is complete the rows it still has are those it had.
LEMMA RowsRest ==
  ASSUME BatchInv, [Next]_vars, NEW r \in Runs, AllTold(r), NEW c \in TasksOf(r),
         row'[c].run = r, <<c, "returned">> \notin hands'
  PROVE  row'[c] = row[c]
<1>1. c \in Cases /\ c \in Rows /\ RunOf(c) = r /\ Shape /\ r \notin {NoRun, Live}
  BY TasksAreCases, RunOfCase DEF BatchInv
<1>2. task[c] = "returned"
  BY DEF BatchInv, Staged, AllTold
<1>3. Kept(c)
  BY <1>1, <1>2, ReturnedStays
<1>4. GoneRow.run = NoRun /\ Taken(row[c]).run = Live
  BY <1>1, TakenRow DEF GoneRow, Shape, RowsShaped
<1> QED
  BY <1>1, <1>2, <1>3, <1>4 DEF Kept, Handled, Reached

\* What a complete run measured in the tables is what its workers reported to it,
\* unless some of its rows were deleted, taken over or set by hand.
THEOREM SummariesAgree == Spec => []SummaryAgrees
<1>1. Init => SummaryAgrees
  BY DEF Init, SummaryAgrees
<1>2. BatchInv /\ SummaryAgrees /\ [Next]_vars => SummaryAgrees'
  <2> SUFFICES ASSUME BatchInv, SummaryAgrees, [Next]_vars, NEW r \in Runs,
                      stream'[r] = "complete",
                      \A c \in TasksOf(r)' : row'[c].run = r /\ <<c, "returned">> \notin hands'
               PROVE  summary'[r].measured = summary'[r].recovered
    BY DEF SummaryAgrees
  <2>1. RunStep(r)
    BY RunMoves DEF BatchInv
  <2>2. SameRun(r) /\ TasksOf(r)' = TasksOf(r)
    BY <2>1, PlanStands DEF Posted
  <2>3. AllTold(r)
    BY <2>1 DEF RunStep, Posted, Streamed, Reported, Completed, BatchInv, Staged
  <2>4. \A c \in TasksOf(r) : row[c].run = r /\ <<c, "returned">> \notin hands
    BY <2>2, <2>3, RowsRest, CaseMoves DEF BatchInv
  <2>5. CASE Completed(r)
    BY <2>3, <2>4, <2>5, RowsAgree DEF Completed, Measured
  <2>6. CASE Streamed(r) \/ Reported(r)
    BY <2>4, <2>6 DEF Streamed, Reported, SummaryAgrees
  <2> QED
    BY <2>1, <2>5, <2>6 DEF RunStep, Posted
<1> QED
  BY <1>1, <1>2, AlwaysBatch, PTL DEF Spec

\* A row of the merchant's book goes only with a DELETE of a live session's run: the
\* ids of a prune are of runs that list_runs shows.
LEMMA LostRows ==
  ASSUME BatchInv, [Next]_vars, NEW c \in LostFromBook
  PROVE  row[c].live /\
           \E j \in Janitors : DeleteRows(j) /\ ~janitor[j].pruning /\ c \in janitor[j].ids
<1>0. /\ c \in Book /\ c \in Rows /\ c \in Present /\ row'[c].state = "ABSENT"
      /\ row[c].state # "ABSENT" /\ c \notin Cases
      /\ Shape /\ row[c].run \in {NoRun, Live} /\ (row[c].live <=> row[c].run = Live)
      /\ row[c] = [state |-> row[c].state, run |-> row[c].run, live |-> row[c].live,
                   born |-> row[c].born]
      /\ row = [d \in Rows |-> row[d]]
  BY BatchAssumption DEF LostFromBook, Present, BatchInv, Shape, RowsShaped
<1>1. ASSUME NEW w \in Cases, Worker(w) \/ Fail(w) PROVE FALSE
  BY <1>0, <1>1, WorkerMoves
<1>2. CASE \/ \E r \in Runs : \/ Post(r) \/ Launch(r) \/ Report(r) \/ Break(r) \/ Complete(r)
                             \/ Leave(r)
           \/ \E j \in Janitors : Prune(j) \/ AskDelete(j) \/ ReadIds(j)
           \/ \E p \in Policies : EditPolicy(p)
           \/ UNCHANGED vars
  BY <1>0, <1>2 DEF Post, Launch, Report, Break, Complete, Leave, Prune, AskDelete, StartJob,
     ReadIds, EditPolicy
<1>3. ASSUME NEW j \in Janitors, DeleteRows(j)
      PROVE  row[c].live /\ ~janitor[j].pruning /\ c \in janitor[j].ids
  <2>1. row' = [d \in Rows |-> IF d \in janitor[j].ids THEN GoneRow ELSE row[d]]
    BY <1>3 DEF DeleteRows
  <2> QED
    BY <1>0, <2>1 DEF Shape, JansShaped
<1>4. ASSUME NEW o \in Rows, OpenLive(o) PROVE FALSE
  <2>1. row' = [row EXCEPT ![o].run = Live, ![o].live = TRUE]
    BY <1>4 DEF OpenLive
  <2>2. Taken(row[c]).state = row[c].state /\ (c = o => row'[c] = Taken(row[c]))
    BY <1>0, <2>1, TakenRow DEF Taken
  <2> QED
    BY <1>0, <2>1, <2>2
<1>5. ASSUME NEW o \in Rows, NEW s \in HandStates, SetState(o, s) PROVE FALSE
  <2>1. row' = [row EXCEPT ![o].state = s]
    BY <1>5 DEF SetState
  <2>2. s # "ABSENT"
    BY BatchAssumption DEF LifecycleStates
  <2>3. c = o => row'[c] = [row[c] EXCEPT !.state = s]
    BY <1>0, <2>1
  <2>4. c = o => row'[c].state = s
    BY <1>0, <2>3
  <2> QED
    BY <1>0, <2>1, <2>2, <2>4
<1>6. ASSUME NEW keep \in Keep, Restart(keep) PROVE FALSE
  <2>1. row' = [d \in Rows |-> IF row[d].run \in Stale(keep) THEN GoneRow ELSE row[d]]
    BY <1>6 DEF Restart
  <2> QED
    BY <1>0, <2>1, StaleRuns
<1> QED
  BY <1>1, <1>2, <1>3, <1>4, <1>5, <1>6 DEF Next

\* Runs, deletions, prunes and restarts leave the figures of the merchant's own book
\* alone: only a live session opened on one of its cases takes it out of them, and only
\* a hand changes it.  A row of the book is deleted by a DELETE of a live run only.
THEOREM MerchantBookKept == Spec => MerchantBookIntact
<1>1. BatchInv /\ [Next]_vars =>
        Real' = Real \/ \E c \in Book : OpenLive(c) \/ \E s \in HandStates : SetState(c, s)
  <2> SUFFICES ASSUME BatchInv, [Next]_vars,
                      ~\E c \in Book : OpenLive(c) \/ \E s \in HandStates : SetState(c, s)
               PROVE  Real' = Real
    OBVIOUS
  <2> DEFINE own == {d \in Present : row[d].run = NoRun}
             ownNext == {d \in Present' : row'[d].run = NoRun}
  <2>0. Shape /\ Shape' /\ GoneRow.state = "ABSENT" /\ NoRun # Live
    BY NextBatch DEF BatchInv, GoneRow, NoRun, Live
  <2>1. \A c \in Cases : c \notin own
    BY <2>0, RunOfCase DEF Shape, RowsShaped, Present
  <2>2. ASSUME NEW c \in Cases PROVE c \notin ownNext
    <3>1. row'[c] = GoneRow \/ row'[c].run \in {RunOf(c), Live}
      BY <2>0 DEF Shape, RowsShaped
    <3> QED
      BY <2>0, <3>1, RunOfCase DEF Present
  <2>3. ASSUME NEW c \in Book
        PROVE  /\ c \in own <=> c \in ownNext
               /\ c \in own => row'[c].state = row[c].state
    BY <2>0, CaseMoves DEF Kept, Handled, Present, Rows
  <2>4. own = ownNext /\ \A c \in own : row'[c].state = row[c].state
    BY <2>1, <2>2, <2>3 DEF Present, Rows
  <2>5. Real = [c \in own |-> row[c].state] /\ Real' = [c \in ownNext |-> row'[c].state]
    BY DEF Real
  <2> HIDE DEF own, ownNext
  <2> QED
    BY <2>4, <2>5
<1>2. BatchInv /\ [Next]_vars =>
        \A c \in LostFromBook : row[c].live /\
          \E j \in Janitors : DeleteRows(j) /\ ~janitor[j].pruning /\ c \in janitor[j].ids
  BY LostRows
<1> QED
  BY <1>1, <1>2, AlwaysBatch, PTL DEF Spec, MerchantBookIntact

\* The ids a prune reads are of a run that no live session holds.
LEMMA ReadsOfPrune ==
  ASSUME Shape, Shape', [Next]_vars, NEW j \in Janitors, janitor[j].pruning,
         ~janitor[j].read, janitor'[j].read, NEW c \in janitor'[j].ids
  PROVE  ~row[c].live
<1>1. ReadIds(j)
  <2>0. janitor \in [Janitors -> JanType] /\ ~IdleJanitor.read
    BY DEF Shape, JansShaped, IdleJanitor
  <2>1. ASSUME NEW k \in Janitors, NEW todo, NEW pruning, StartJob(k, todo, pruning)
        PROVE  ~janitor'[j].read
    <3> DEFINE job == [IdleJanitor EXCEPT !.todo = todo, !.pruning = pruning]
    <3>1. janitor' = [janitor EXCEPT ![k] = job]
      BY <2>1 DEF StartJob
    <3>2. ~job.read
      BY DEF IdleJanitor
    <3> HIDE DEF job
    <3> QED
      BY <2>0, <3>1, <3>2
  <2>2. ASSUME NEW k \in Janitors, ReadIds(k), k # j PROVE FALSE
    BY <2>0, <2>2 DEF ReadIds
  <2>3. ASSUME NEW k \in Janitors, DeleteRows(k) PROVE FALSE
    <3> DEFINE job == IF Len(janitor[k].todo) = 1 THEN IdleJanitor
                      ELSE [janitor[k] EXCEPT !.todo = Tail(@), !.read = FALSE, !.ids = {}]
    <3>1. janitor' = [janitor EXCEPT ![k] = job]
      BY <2>3 DEF DeleteRows
    <3>2. ~job.read
      BY <2>0 DEF JanType
    <3> HIDE DEF job
    <3> QED
      BY <2>0, <3>1, <3>2
  <2>4. CASE \E keep \in Keep : Restart(keep)
    BY <2>0, <2>4 DEF Restart
  <2>5. ~(janitor' = janitor)
    OBVIOUS
  <2> QED
    BY <2>1, <2>2, <2>3, <2>4, <2>5 DEF Next, Post, Launch, Report, Break, Complete, Leave,
       Worker, Insert, Work, ReadBack, FindNothing, Fail, WorkFrame, OpenLive, SetState,
       EditPolicy, Prune, AskDelete
<1>2. /\ janitor[j].todo # <<>> /\ janitor[j].todo \in Seq(RunIds)
      /\ janitor'[j].ids = {d \in Present : row[d].run = Head(janitor[j].todo)}
  <2>1. janitor \in [Janitors -> JanType]
    BY DEF Shape, JansShaped
  <2> DEFINE found == {d \in Present : row[d].run = Head(janitor[j].todo)}
             job   == [janitor[j] EXCEPT !.read = TRUE, !.ids = found]
  <2>2. janitor' = [janitor EXCEPT ![j] = job] /\ janitor[j].todo # <<>>
    BY <1>1 DEF ReadIds
  <2>3. job.ids = found /\ janitor[j].todo \in Seq(RunIds)
    BY <2>1 DEF JanType
  <2> HIDE DEF found, job
  <2>4. janitor'[j].ids = found
    BY <2>1, <2>2, <2>3
  <2> QED
    BY <2>2, <2>3, <2>4 DEF found
<1>3. Head(janitor[j].todo) # Live
  BY <1>2 DEF Shape, JansShaped
<1> QED
  BY <1>2, <1>3 DEF Shape, RowsShaped, Present

\* A prune never reads the id of a case that a live session holds.
THEOREM PruneSpares == Spec => PruneSparesLive
<1>1. BatchInv /\ BatchInv' /\ [Next]_vars =>
        \A j \in Janitors : (janitor[j].pruning /\ ~janitor[j].read /\ janitor'[j].read)
                              => \A c \in janitor'[j].ids : ~row[c].live
  BY ReadsOfPrune DEF BatchInv
<1> QED
  BY <1>1, AlwaysBatch, PTL DEF Spec, PruneSparesLive
=============================================================================
