------------------------ MODULE PaymentArtifactsProofs ------------------------
(***************************************************************************)
(* What holds of a case's payment links for every number of links, rows    *)
(* and failures: the case is closed only by money, an upfront part leaves  *)
(* it open, no closed artifact hides a payment, nobody is followed up      *)
(* twice without a failure or after having paid, and every payable link    *)
(* that nobody watches is accounted for.                                   *)
(***************************************************************************)
EXTENDS PaymentArtifacts, FiniteSetTheorems, TLAPS

USE DEF At, Goto, Begin, Free, Rest, fixed, moneyVars, bookVars, caseVars, history,
        Links, Rows, NoLink, NoRow

-----------------------------------------------------------------------------
(* Types, and where each process can be.                                   *)

StepsOf ==
  [p \in Procs |->
     CASE p = "session" -> {"idle", "gate", "refuse", "mcp", "sdk", "cancel", "record",
                            "book", "tell"}
       [] p = "desk"    -> {"idle", "mcp", "sdk", "remember", "ask", "settle", "fetch",
                            "write", "apply", "announce"}
       [] p = "poller"  -> {"idle", "pick", "fetch", "write", "apply", "announce"}
       [] p = "sweeper" -> {"idle", "pick", "fetch", "write", "apply", "check", "gate",
                            "refuse", "message", "mark"}]

\* Steps at which a process is working on an artifact.
OnRow(p, t) ==
  \/ t.at \in {"fetch", "write", "apply", "announce", "check", "message", "mark"}
  \/ p = "sweeper" /\ t.at \in {"gate", "refuse"}

\* A process holds only artifacts that exist.
Placed(p, t) ==
  /\ t.at \in StepsOf[p]
  /\ \A r \in t.todo \cup t.prior : r <= minted
  /\ p = "poller" => \A r \in t.todo : Real(r)
  /\ OnRow(p, t) => t.row \in Rows /\ t.row <= minted
  /\ t.at \in {"fetch", "write"} => Real(t.row)
  /\ t.at \in {"ask", "settle"} => t.link # NoLink

Unmade == \A l \in Links : l > made => links[l] = NoLinkMade

TypeInv == TypeOK /\ Unmade /\ \A p \in Procs : Placed(p, task[p])

SharedType ==
  /\ running \in Casts /\ policy \in Policies
  /\ links \in [Links -> LinkType] /\ made \in 0..MaxLinks
  /\ rows \in [Rows -> RowType] /\ minted \in 0..MaxRows
  /\ state \in LifecycleStates /\ meta \in MetaType
  /\ session \in {"open", "terminal", "gone"}
  /\ forced \subseteq Rows /\ chases \in [Rows -> Nat] /\ leaks \in Nat
  /\ faults \in 0..MaxFaults

\* What no step undoes: an artifact keeps its link and amount, a link keeps its
\* amount and its money, and one that is no longer open stays as it is.
Grows ==
  /\ minted <= minted' /\ forced \subseteq forced'
  /\ \A r \in Rows : r <= minted =>
       /\ rows'[r].link = rows[r].link /\ rows'[r].amount = rows[r].amount
       /\ rows'[r].partial = rows[r].partial
  /\ \A l \in Links :
       /\ links[l].paid <= links'[l].paid
       /\ links[l].amount > 0 =>
            /\ links'[l].amount = links[l].amount
            /\ links[l].state # "open" => links'[l] = links[l]

\* What a step of p does to the rest.
Moved(p) == TypeInv' /\ Grows /\ \A q \in Procs \ {p} : task'[q] = task[q]

LEMMA Steady ==
  ASSUME TypeInv, UNCHANGED <<moneyVars, rows, minted, forced>>
  PROVE  Grows /\ Unmade'
<1>1. /\ \A l \in Links : links[l].paid \in 0..Total
      /\ minted \in 0..MaxRows
  BY DEF TypeInv, TypeOK, LinkType
<1> QED
  BY <1>1, MoneyAssumption DEF Grows, TypeInv, Unmade

\* A step of p that leaves it with t.
LEMMA MovesTo ==
  ASSUME TypeInv, NEW p \in Procs, NEW t \in TaskType, Begin(p, t),
         SharedType', Grows, Unmade', Placed(p, t)'
  PROVE  Moved(p) /\ task'[p] = t
<1>1. /\ task' \in [Procs -> TaskType] /\ task'[p] = t
      /\ \A q \in Procs \ {p} : task'[q] = task[q]
  BY DEF TypeInv, TypeOK
<1>2. \A q \in Procs \ {p} : Placed(q, task[q])'
  <2> TAKE q \in Procs \ {p}
  <2>1. Placed(q, task[q]) /\ task'[q] = task[q] /\ task[q] \in TaskType
    BY <1>1 DEF TypeInv, TypeOK
  <2>2. minted \in Nat /\ minted' \in Nat /\ minted <= minted'
    BY MoneyAssumption DEF TypeInv, TypeOK, SharedType, Grows
  <2>3. \A r \in Rows : r <= minted => r <= minted' /\ rows'[r].link = rows[r].link
    BY <2>2, MoneyAssumption DEF Grows
  <2>4. task[q].todo \subseteq Rows /\ task[q].prior \subseteq Rows
    BY <2>1 DEF TaskType
  <2>5. \A r \in task[q].todo \cup task[q].prior : r <= minted'
    BY <2>1, <2>3, <2>4 DEF Placed
  <2>6. OnRow(q, task[q]) => task[q].row \in Rows /\ task[q].row <= minted'
    BY <2>1, <2>3 DEF Placed
  <2>7. task[q].at \in {"fetch", "write"} => rows'[task[q].row].link # NoLink
    BY <2>1, <2>3 DEF Placed, OnRow, Real
  <2>8. q = "poller" => \A r \in task[q].todo : rows'[r].link # NoLink
    BY <2>1, <2>3, <2>4 DEF Placed, Real
  <2> QED
    BY <2>1, <2>5, <2>6, <2>7, <2>8 DEF Placed, Real, OnRow
<1>3. TypeOK'
  BY <1>1 DEF SharedType, TypeOK
<1>4. \A q \in Procs : Placed(q, task[q])'
  BY <1>1, <1>2
<1> QED
  BY <1>1, <1>3, <1>4 DEF Moved, TypeInv

LEMMA NoAnswerType == NoAnswer \in AnswerType
<1>1. 0 \in 0..Total
  BY MoneyAssumption
<1> QED
  BY <1>1 DEF AnswerType, NoAnswer

LEMMA IdleType == Idle \in TaskType
<1>1. [link |-> NoLink, balance |-> None] \in MetaType
  BY MoneyAssumption DEF MetaType, None
<1> QED
  BY <1>1, NoAnswerType, MoneyAssumption
  DEF Idle, TaskType, Steps, Actions, Kinds, RowStatuses, LifecycleStates

\* A process that has finished holds nothing.
LEMMA Resting ==
  ASSUME TypeInv, NEW p \in Procs, Rest(p), SharedType', Grows, Unmade'
  PROVE  Moved(p) /\ task'[p] = Idle
<1>1. Placed(p, Idle)'
  BY DEF Placed, Idle, StepsOf, OnRow, Procs
<1> QED
  BY <1>1, IdleType, MovesTo

\* A process that goes on to another step with what it holds.
LEMMA Going ==
  ASSUME TypeInv, NEW p \in Procs, NEW s \in Steps, Goto(p, s), SharedType', Grows, Unmade',
         s \in StepsOf[p],
         OnRow(p, [task[p] EXCEPT !.at = s]) => OnRow(p, task[p]),
         s \in {"fetch", "write"} => task[p].at \in {"fetch", "write"},
         s \in {"ask", "settle"} => task[p].at \in {"ask", "settle"}
  PROVE  Moved(p) /\ task'[p] = [task[p] EXCEPT !.at = s]
<1>1. task[p] \in TaskType /\ Placed(p, task[p])
  BY DEF TypeInv, TypeOK
<1>2. PICK t \in TaskType : t = [task[p] EXCEPT !.at = s]
  BY <1>1 DEF TaskType
<1>3. /\ t.at = s /\ t.todo = task[p].todo /\ t.prior = task[p].prior
      /\ t.row = task[p].row /\ t.link = task[p].link
  BY <1>1, <1>2 DEF TaskType
<1>4. minted \in Nat /\ minted' \in Nat /\ minted <= minted'
  BY MoneyAssumption DEF TypeInv, TypeOK, SharedType, Grows
<1>5. \A r \in Rows : r <= minted => r <= minted' /\ rows'[r].link = rows[r].link
  BY <1>4, MoneyAssumption DEF Grows
<1>6. task[p].todo \subseteq Rows /\ task[p].prior \subseteq Rows
  BY <1>1 DEF TaskType
<1>7. \A r \in t.todo \cup t.prior : r <= minted'
  BY <1>1, <1>3, <1>5, <1>6 DEF Placed
<1>8. OnRow(p, t) => t.row \in Rows /\ t.row <= minted'
  BY <1>1, <1>2, <1>3, <1>5 DEF Placed
<1>9. t.at \in {"fetch", "write"} => rows'[t.row].link # NoLink
  BY <1>1, <1>3, <1>5 DEF Placed, OnRow, Real
<1>10. t.at \in {"ask", "settle"} => t.link # NoLink
  BY <1>1, <1>3 DEF Placed
<1>11. Placed(p, t)'
  <2>1. p = "poller" => \A r \in t.todo : rows'[r].link # NoLink
    BY <1>1, <1>3, <1>5, <1>6 DEF Placed, Real
  <2> QED
    BY <2>1, <1>3, <1>7, <1>8, <1>9, <1>10 DEF Placed, Real, OnRow
<1>12. Begin(p, t)
  BY <1>2
<1> QED
  BY <1>2, <1>11, <1>12, MovesTo

\* A loop that goes on to its next artifact.
LEMMA Looping ==
  ASSUME TypeInv, NEW p \in {"poller", "sweeper"}, Proceed(p), SharedType', Grows, Unmade'
  PROVE  /\ Moved(p) /\ task'[p].at = "pick" /\ task'[p].answer = NoAnswer
         /\ task'[p].todo = task[p].todo /\ task'[p].settled = task[p].settled
<1>1. p \in Procs /\ task[p] \in TaskType /\ Placed(p, task[p])
  BY DEF TypeInv, TypeOK, Procs
<1>2. PICK t \in TaskType :
        t = [Idle EXCEPT !.at = "pick", !.todo = task[p].todo, !.quiet = task[p].quiet,
                         !.settled = task[p].settled]
  BY <1>1, IdleType DEF TaskType, Steps
<1>3. /\ t.at = "pick" /\ t.todo = task[p].todo /\ t.prior = {} /\ t.answer = NoAnswer
      /\ t.settled = task[p].settled
  BY <1>1, <1>2, IdleType DEF TaskType, Idle
<1>4. task[p].todo \subseteq Rows /\ \A r \in task[p].todo : r <= minted
  BY <1>1 DEF TaskType, Placed
<1>5. minted \in Nat /\ minted' \in Nat /\ minted <= minted'
  BY MoneyAssumption DEF TypeInv, TypeOK, SharedType, Grows
<1>6. \A r \in t.todo \cup t.prior : r <= minted'
  BY <1>3, <1>4, <1>5, MoneyAssumption
<1>7. "pick" \in StepsOf[p]
  BY DEF StepsOf, Procs
<1>8. Placed(p, t)'
  <2>1. p = "poller" => \A r \in t.todo : rows'[r].link # NoLink
    BY <1>1, <1>3, <1>4, <1>5 DEF Placed, Real, Grows
  <2> QED
    BY <1>3, <1>6, <1>7, <2>1 DEF Placed, OnRow, Real
<1>9. Begin(p, t)
  BY <1>2 DEF Proceed
<1> QED
  BY <1>1, <1>3, <1>8, <1>9, MovesTo

\* Steps that leave the ledger and the artifacts as they are.
LEMMA Quiet ==
  ASSUME TypeInv, UNCHANGED <<fixed, moneyVars, bookVars, forced>>,
         state' \in LifecycleStates, meta' \in MetaType,
         session' \in {"open", "terminal", "gone"}, chases' \in [Rows -> Nat],
         leaks' \in Nat, faults' \in 0..MaxFaults
  PROVE  SharedType' /\ Grows /\ Unmade'
  BY Steady DEF TypeInv, TypeOK, SharedType

LEMMA Still ==
  ASSUME TypeInv, UNCHANGED <<fixed, moneyVars, bookVars, caseVars, session, history, faults>>
  PROVE  SharedType' /\ Grows /\ Unmade'
  BY Steady DEF TypeInv, TypeOK, SharedType

LEMMA FlushType ==
  ASSUME TypeInv, NEW loaded, NEW s \in LifecycleStates
  PROVE  Flush(loaded, s, state) \in LifecycleStates
  BY DEF Flush, TypeInv, TypeOK
-----------------------------------------------------------------------------
(* One lemma per action: types, and what a step leaves alone.              *)

LEMMA OfferTypes ==
  ASSUME NEW o \in Offers
  PROVE  /\ o.action \in Actions /\ o.kind \in Kinds /\ o.amount \in 1..Total
         /\ IsPartialAsk(o.amount, o.action) \in BOOLEAN
  BY MoneyAssumption DEF OfferType, Actions, IsPartialAsk

LEMMA AskMoves ==
  ASSUME TypeInv, NEW o \in Offers, NEW quiet \in BOOLEAN, Ask(o, quiet)
  PROVE  /\ Moved("session") /\ task'["session"].at = "gate"
         /\ task'["session"].amount = o.amount
         /\ task'["session"].partial = IsPartialAsk(o.amount, o.action)
<1>1. SharedType' /\ Grows /\ Unmade'
  BY Still DEF Ask
<1>2. /\ state \in LifecycleStates /\ o.action \in Actions /\ o.kind \in Kinds
      /\ o.amount \in 0..Total /\ "gate" \in Steps
  BY MoneyAssumption, OfferTypes DEF TypeInv, TypeOK, Steps
<1> DEFINE partial == IsPartialAsk(o.amount, o.action)
<1> partial \in BOOLEAN
  BY OfferTypes
<1> HIDE DEF partial
<1>3. PICK t \in TaskType :
        t = [Idle EXCEPT !.at = "gate", !.action = o.action, !.kind = o.kind,
               !.amount = o.amount, !.partial = partial, !.quiet = quiet, !.seen = state]
  BY <1>2, IdleType DEF TaskType
<1>4. /\ t.at = "gate" /\ t.todo = {} /\ t.prior = {} /\ t.amount = o.amount
      /\ t.partial = partial
  BY <1>3, IdleType DEF TaskType, Idle
<1>5. Placed("session", t)'
  BY <1>4 DEF Placed, OnRow, StepsOf, Procs
<1>6. Begin("session", t)
  BY <1>3 DEF Ask, partial
<1> QED
  BY <1>1, <1>4, <1>5, <1>6, MovesTo DEF Procs, partial

LEMMA GateMoves ==
  ASSUME TypeInv, NEW p \in {"session", "sweeper"}, Gate(p)
  PROVE  /\ Moved(p)
         /\ p = "session" =>
              \/ task'[p] = Idle
              \/ task'[p].at = "refuse" /\ task'[p] = [task[p] EXCEPT !.at = "refuse"]
              \/ /\ task'[p].at = "mcp" /\ task'[p].amount = task[p].amount
                 /\ task'[p].partial = task[p].partial /\ task'[p].link = NoLink
         /\ p = "sweeper" =>
              \/ /\ task'[p].at = "pick" /\ task'[p].answer = NoAnswer
                 /\ task'[p].todo = task[p].todo /\ task'[p].settled = task[p].settled
              \/ \E s \in {"refuse", "message"} : task'[p] = [task[p] EXCEPT !.at = s]
<1>1. SharedType' /\ Grows /\ Unmade'
  <2>1. state' \in LifecycleStates
    BY FlushType DEF Gate, LifecycleStates, TypeInv, TypeOK
  <2> QED
    BY <2>1, Quiet DEF Gate, TypeInv, TypeOK
<1>2. p \in Procs /\ task[p] \in TaskType
  BY DEF Procs, TypeInv, TypeOK
<1>3. CASE Rest(p)
  <2>1. Moved(p) /\ task'[p] = Idle
    BY <1>1, <1>2, <1>3, Resting
  <2>2. CASE p = "session"
    BY <2>1, <2>2
  <2>3. CASE p = "sweeper"
    \* Only the session rests at the gate.
    <3>1. Proceed(p) \/ Goto(p, "refuse") \/ Goto(p, "message")
      BY <2>3 DEF Gate
    <3>2. Idle.at = "idle"
      BY DEF Idle
    <3>3. task'[p].at # "idle"
      <4>1. CASE Proceed(p)
        BY <1>1, <2>3, <4>1, Looping
      <4>2. CASE ~Proceed(p)
        BY <1>2, <3>1, <4>2 DEF TaskType, TypeInv, TypeOK
      <4> QED
        BY <4>1, <4>2
    <3> QED
      BY <2>1, <3>2, <3>3
  <2> QED
    BY <2>2, <2>3
<1>4. CASE p = "sweeper" /\ Proceed(p)
  BY <1>1, <1>4, Looping
<1>5. CASE Goto(p, "refuse")
  <2>1. Moved(p) /\ task'[p] = [task[p] EXCEPT !.at = "refuse"]
    BY <1>1, <1>2, <1>5, Going DEF Gate, StepsOf, Procs, OnRow, Steps, TaskType
  <2>2. task'[p].at = "refuse"
    BY <1>2, <2>1 DEF TaskType
  <2> QED
    BY <2>1, <2>2
<1>6. CASE p = "sweeper" /\ Goto(p, "message")
  BY <1>1, <1>2, <1>6, Going DEF Gate, StepsOf, Procs, OnRow, Steps
<1>7. CASE p = "session" /\ Begin(p, [Idle EXCEPT !.at = "mcp", !.kind = task[p].kind,
                               !.amount = task[p].amount, !.partial = task[p].partial])
  <2>1. PICK t \in TaskType :
          t = [Idle EXCEPT !.at = "mcp", !.kind = task[p].kind,
                           !.amount = task[p].amount, !.partial = task[p].partial]
    BY <1>2, IdleType DEF TaskType, Steps
  <2>2. /\ t.at = "mcp" /\ t.todo = {} /\ t.prior = {} /\ t.amount = task[p].amount
        /\ t.partial = task[p].partial /\ t.link = NoLink
    BY <2>1, IdleType DEF TaskType, Idle
  <2>3. Placed(p, t)'
    BY <1>7, <2>2 DEF Placed, OnRow, StepsOf, Procs
  <2> QED
    BY <1>1, <1>2, <1>7, <2>1, <2>2, <2>3, MovesTo
<1> QED
  BY <1>3, <1>4, <1>5, <1>6, <1>7 DEF Gate

LEMMA RefuseMoves ==
  ASSUME TypeInv, NEW p \in {"session", "sweeper"}, Refuse(p)
  PROVE  /\ Moved(p)
         /\ p = "session" => task'[p] = Idle
         /\ p = "sweeper" => /\ task'[p].at = "pick" /\ task'[p].answer = NoAnswer
                             /\ task'[p].todo = task[p].todo
                             /\ task'[p].settled = task[p].settled
<1>1. SharedType' /\ Grows /\ Unmade'
  <2>1. state' \in LifecycleStates /\ session' \in {"open", "terminal", "gone"}
    BY FlushType DEF Refuse, LifecycleStates, TypeInv, TypeOK
  <2> QED
    BY <2>1, Quiet DEF Refuse, TypeInv, TypeOK
<1>2. p \in Procs
  BY DEF Procs
<1>3. CASE p = "sweeper"
  BY <1>1, <1>3, Looping DEF Refuse
<1>4. CASE p = "session"
  BY <1>1, <1>2, <1>4, Resting DEF Refuse
<1> QED
  BY <1>3, <1>4

LEMMA MintedStep ==
  ASSUME NEW p \in {"session", "desk"}
  PROVE  /\ p \in Procs /\ Minted(p) \in StepsOf[p] /\ Minted(p) \in {"remember", "cancel"}
         /\ "sdk" \in StepsOf[p] /\ Minted(p) \in Steps /\ "sdk" \in Steps
  BY DEF Minted, StepsOf, Procs, Steps

\* The gateway makes a link: the ledger grows by it.
LEMMA LedgerGrows ==
  ASSUME TypeInv, NEW p \in {"session", "desk"}, NEW partial \in BOOLEAN, NEW next,
         Create(p, partial, next), UNCHANGED <<fixed, bookVars, caseVars, session, forced,
                                               chases, faults>>
  PROVE  /\ SharedType' /\ Grows /\ Unmade' /\ made + 1 \in Links /\ links[made + 1] = NoLinkMade
         /\ links'[made + 1] = [amount |-> task[p].amount, partial |-> partial,
                                expires |-> partial, paid |-> 0, state |-> "open"]
         /\ \A l \in Links : l # made + 1 => links'[l] = links[l]
<1>1. /\ made \in Nat /\ MaxLinks \in Nat /\ made' = made + 1 /\ made < MaxLinks
      /\ links \in [Links -> LinkType] /\ task[p].amount \in 0..Total /\ leaks \in Nat
  BY MoneyAssumption, MintedStep DEF Create, TypeInv, TypeOK, TaskType
<1>2. made + 1 \in Links /\ made' \in 0..MaxLinks /\ made + 1 > made
  BY <1>1
<1>3. links[made + 1] = NoLinkMade
  BY <1>2 DEF TypeInv, Unmade
<1>4. PICK new : new = [amount |-> task[p].amount, partial |-> partial,
                        expires |-> partial, paid |-> 0, state |-> "open"]
  OBVIOUS
<1>5. new \in LinkType
  BY <1>1, <1>4, MoneyAssumption DEF LinkType
<1>6. links' = [links EXCEPT ![made + 1] = new]
  BY <1>4 DEF Create
<1>7. links' \in [Links -> LinkType]
  BY <1>1, <1>5, <1>6
<1>8. links'[made + 1] = new /\ \A l \in Links : l # made + 1 => links'[l] = links[l]
  BY <1>1, <1>2, <1>6
<1>9. leaks' \in Nat
  BY <1>1 DEF Create
<1>10. SharedType'
  BY <1>2, <1>7, <1>9 DEF SharedType, TypeInv, TypeOK
<1>11. Unmade'
  <2> SUFFICES ASSUME NEW l \in Links, l > made + 1
               PROVE  links'[l] = NoLinkMade
    BY <1>1 DEF Unmade
  <2>1. l > made /\ l # made + 1
    BY <1>1
  <2> QED
    BY <1>8, <2>1 DEF TypeInv, Unmade
<1>12. Grows
  <2>1. links[made + 1].amount = 0 /\ links[made + 1].paid = 0 /\ new.paid = 0
    BY <1>3, <1>4 DEF NoLinkMade
  <2>2. \A l \in Links : links[l].paid \in Nat
    BY <1>1, MoneyAssumption DEF LinkType
  <2>3. \A l \in Links : /\ links[l].paid <= links'[l].paid
                         /\ links[l].amount > 0 => links'[l] = links[l]
    BY <1>2, <1>8, <2>1, <2>2
  <2>4. minted \in Nat
    BY MoneyAssumption DEF TypeInv, TypeOK
  <2> QED
    BY <2>3, <2>4 DEF Grows
<1> QED
  BY <1>2, <1>3, <1>4, <1>8, <1>10, <1>11, <1>12

LEMMA CreateMoves ==
  ASSUME TypeInv, NEW p \in {"session", "desk"}, NEW partial \in BOOLEAN,
         NEW next \in {"sdk", Minted(p)}, Create(p, partial, next),
         UNCHANGED <<fixed, bookVars, caseVars, session, forced, chases, faults>>
  PROVE  /\ Moved(p)
         /\ \/ task'[p] = [task[p] EXCEPT !.at = Minted(p), !.link = made + 1]
            \/ task'[p] = [task[p] EXCEPT !.at = next]
<1>1. /\ SharedType' /\ Grows /\ Unmade' /\ made + 1 \in Links
      /\ p \in Procs /\ task[p] \in TaskType /\ Placed(p, task[p])
  BY LedgerGrows, MintedStep DEF TypeInv, TypeOK
<1>2. next \in Steps /\ next \in StepsOf[p] /\ next \in {"sdk", "remember", "cancel"}
  BY MintedStep
<1>3. CASE Goto(p, next)
  <2>1. OnRow(p, [task[p] EXCEPT !.at = next]) => OnRow(p, task[p])
    BY <1>1, <1>2 DEF OnRow, TaskType
  <2> QED
    BY <1>1, <1>2, <1>3, <2>1, Going
<1>4. CASE task' = [task EXCEPT ![p].at = Minted(p), ![p].link = made + 1]
  <2>1. PICK t \in TaskType : t = [task[p] EXCEPT !.at = Minted(p), !.link = made + 1]
    BY <1>1, MintedStep DEF TaskType
  <2>2. /\ t.at = Minted(p) /\ t.todo = task[p].todo /\ t.prior = task[p].prior
    BY <1>1, <2>1 DEF TaskType
  <2>3. \A r \in t.todo \cup t.prior : r <= minted
    BY <1>1, <2>2 DEF Placed
  <2>4. Placed(p, t)'
    BY <2>2, <2>3, MintedStep DEF Placed, OnRow
  <2>5. Begin(p, t)
    BY <1>4, <2>1
  <2> QED
    BY <1>1, <2>1, <2>4, <2>5, MovesTo
<1> QED
  BY <1>3, <1>4 DEF Create

LEMMA AskMcpMoves ==
  ASSUME TypeInv, NEW p \in {"session", "desk"}, AskMcp(p)
  PROVE  /\ Moved(p)
         /\ \/ task'[p] = [task[p] EXCEPT !.at = Minted(p), !.link = made + 1]
            \/ task'[p] = [task[p] EXCEPT !.at = "sdk"]
<1>1. p \in Procs /\ task[p] \in TaskType
  BY MintedStep DEF TypeInv, TypeOK
<1>2. task[p].partial \in BOOLEAN
  BY <1>1 DEF TaskType
<1>3. CASE Create(p, task[p].partial, "sdk")
  <2>1. UNCHANGED <<fixed, bookVars, caseVars, session, forced, chases, faults>>
    BY DEF AskMcp
  <2> QED
    BY <1>2, <1>3, <2>1, CreateMoves
<1>4. CASE Goto(p, "sdk") /\ UNCHANGED <<moneyVars, leaks>>
  <2>1. SharedType' /\ Grows /\ Unmade'
    BY <1>4, Still DEF AskMcp
  <2>2. OnRow(p, [task[p] EXCEPT !.at = "sdk"]) => OnRow(p, task[p])
    BY <1>1 DEF OnRow, TaskType
  <2> QED
    BY <1>1, <1>4, <2>1, <2>2, Going, MintedStep
<1> QED
  BY <1>3, <1>4 DEF AskMcp

LEMMA AskSdkMoves ==
  ASSUME TypeInv, NEW p \in {"session", "desk"}, AskSdk(p)
  PROVE  /\ Moved(p)
         /\ \/ task'[p] = [task[p] EXCEPT !.at = Minted(p), !.link = made + 1]
            \/ task'[p] = [task[p] EXCEPT !.at = Minted(p)]
<1>1. p \in Procs /\ task[p] \in TaskType
  BY MintedStep DEF TypeInv, TypeOK
<1>2. CASE Create(p, FALSE, Minted(p))
  <2>1. UNCHANGED <<fixed, bookVars, caseVars, session, forced, chases, faults>>
    BY DEF AskSdk
  <2> QED
    BY <1>2, <2>1, CreateMoves
<1>3. CASE Goto(p, Minted(p)) /\ UNCHANGED <<moneyVars, leaks>>
  <2>1. SharedType' /\ Grows /\ Unmade'
    BY <1>3, Still DEF AskSdk
  <2>2. PICK s \in Steps : s = Minted(p)
    BY MintedStep
  <2>3. OnRow(p, [task[p] EXCEPT !.at = s]) => OnRow(p, task[p])
    BY <1>1, <2>2, MintedStep DEF OnRow, TaskType
  <2>4. s \in StepsOf[p] /\ s \notin {"fetch", "write", "ask", "settle"}
    BY <2>2, MintedStep
  <2>5. Goto(p, s)
    BY <1>3, <2>2
  <2> QED
    BY <1>1, <2>1, <2>2, <2>3, <2>4, <2>5, Going
<1> QED
  BY <1>2, <1>3 DEF AskSdk

\* Cancelling changes nothing but the state of links that can be paid.
LEMMA CancelMoves ==
  ASSUME TypeInv, NEW done \in SUBSET Links, CancelAll(Active, done),
         UNCHANGED <<fixed, made, bookVars, caseVars, session, forced, chases>>
  PROVE  /\ Moved("session")
         /\ \A l \in Links : /\ links'[l].amount = links[l].amount
                             /\ links'[l].paid = links[l].paid
                             /\ l \notin done => links'[l] = links[l]
                             /\ l \in done => links'[l].state = "cancelled" /\ Live(l)
         /\ \/ task'["session"] = Idle
            \/ /\ task'["session"] = [task["session"] EXCEPT !.at = "record", !.prior = Active]
               /\ done = {rows[r].link : r \in Active} \ {NoLink}
<1>1. /\ "session" \in Procs /\ task["session"] \in TaskType /\ Placed("session", task["session"])
      /\ links \in [Links -> LinkType] /\ minted \in Nat /\ leaks \in Nat /\ faults \in 0..MaxFaults
  BY MoneyAssumption DEF TypeInv, TypeOK, Procs
<1>2. /\ \A l \in done : Live(l)
      /\ links' = [l \in Links |-> IF l \in done THEN [links[l] EXCEPT !.state = "cancelled"]
                                  ELSE links[l]]
  BY DEF CancelAll
<1>3. \A l \in Links : /\ links'[l].amount = links[l].amount
                       /\ links'[l].paid = links[l].paid
                       /\ l \notin done => links'[l] = links[l]
                       /\ l \in done => links'[l].state = "cancelled" /\ Live(l)
  BY <1>1, <1>2 DEF LinkType
<1>4. links' \in [Links -> LinkType]
  <2>1. \A l \in Links : [links[l] EXCEPT !.state = "cancelled"] \in LinkType
    BY <1>1 DEF LinkType
  <2> QED
    BY <1>1, <1>2, <2>1
<1>5. leaks' \in Nat /\ faults' \in 0..MaxFaults
  BY <1>1, MoneyAssumption DEF CancelAll
<1>6. SharedType'
  BY <1>4, <1>5 DEF SharedType, TypeInv, TypeOK
<1>7. Unmade'
  <2>1. \A l \in Links : l \in done => links[l].state = "open"
    BY <1>2 DEF Live
  <2>2. \A l \in Links : l > made => links[l].state = "cancelled"
    BY DEF TypeInv, Unmade, NoLinkMade
  <2> QED
    BY <1>3, <2>1, <2>2 DEF TypeInv, Unmade
<1>8. Grows
  <2>1. \A l \in Links : links[l].paid \in Nat
    BY <1>1, MoneyAssumption DEF LinkType
  <2> QED
    BY <1>1, <1>3, <2>1 DEF Grows, Live
<1>9. CASE Rest("session")
  BY <1>1, <1>3, <1>6, <1>7, <1>8, <1>9, Resting
<1>10. CASE /\ done = {rows[r].link : r \in Active} \ {NoLink}
            /\ task' = [task EXCEPT !["session"].at = "record", !["session"].prior = Active]
  <2>1. Active \subseteq Rows /\ \A r \in Active : r <= minted
    BY DEF Active
  <2>2. PICK t \in TaskType : t = [task["session"] EXCEPT !.at = "record", !.prior = Active]
    BY <1>1, <2>1 DEF TaskType, Steps
  <2>3. /\ t.at = "record" /\ t.todo = task["session"].todo /\ t.prior = Active
    BY <1>1, <2>2 DEF TaskType
  <2>4. \A r \in t.todo \cup t.prior : r <= minted
    BY <1>1, <2>1, <2>3 DEF Placed
  <2>5. Placed("session", t)'
    BY <2>3, <2>4 DEF Placed, OnRow, StepsOf, Procs
  <2>6. Begin("session", t)
    BY <1>10, <2>2
  <2> QED
    BY <1>1, <1>3, <1>6, <1>7, <1>8, <1>10, <2>2, <2>5, <2>6, MovesTo
<1> QED
  BY <1>9, <1>10 DEF CancelAll

LEMMA RecordMoves ==
  ASSUME TypeInv, Record
  PROVE  /\ Moved("session")
         /\ task'["session"] = [task["session"] EXCEPT !.at = "book"]
         /\ minted + 1 \in Rows /\ minted' = minted + 1
         /\ rows'[minted + 1] =
              [link |-> task["session"].link, kind |-> task["session"].kind,
               amount |-> task["session"].amount, partial |-> task["session"].partial,
               status |-> "CREATED", paid |-> 0, overdue |-> FALSE, followed |-> FALSE]
         /\ \A r \in Rows : r <= minted =>
              rows'[r] = IF r \in task["session"].prior
                         THEN [rows[r] EXCEPT !.status = "CLOSED"] ELSE rows[r]
<1> DEFINE t == task["session"]
           new == [link |-> t.link, kind |-> t.kind, amount |-> t.amount,
                   partial |-> t.partial, status |-> "CREATED", paid |-> 0,
                   overdue |-> FALSE, followed |-> FALSE]
           closed(r) == IF r \in t.prior THEN [rows[r] EXCEPT !.status = "CLOSED"] ELSE rows[r]
<1>1. /\ "session" \in Procs /\ t \in TaskType /\ minted \in Nat /\ minted < MaxRows
      /\ rows \in [Rows -> RowType] /\ MaxRows \in Nat /\ links \in [Links -> LinkType]
  BY MoneyAssumption DEF TypeInv, TypeOK, Procs, Record
<1>2. minted + 1 \in Rows /\ minted' \in 0..MaxRows /\ minted' = minted + 1
  BY <1>1 DEF Record
<1>3. rows' = [r \in Rows |-> IF r = minted + 1 THEN new ELSE closed(r)]
  BY DEF Record
<1>4. new \in RowType
  BY <1>1, MoneyAssumption DEF TaskType, RowType, RowStatuses
<1>5. \A r \in Rows : /\ closed(r) \in RowType
                      /\ closed(r).link = rows[r].link /\ closed(r).amount = rows[r].amount
                      /\ closed(r).partial = rows[r].partial
  BY <1>1 DEF RowType, RowStatuses
<1> HIDE DEF new, closed, t
<1>6. rows' \in [Rows -> RowType]
  BY <1>3, <1>4, <1>5
<1>7. rows'[minted + 1] = new /\ \A r \in Rows : r <= minted => rows'[r] = closed(r)
  BY <1>1, <1>2, <1>3
<1>8. SharedType'
  BY <1>2, <1>6 DEF SharedType, TypeInv, TypeOK, Record
<1>9. Unmade'
  BY DEF TypeInv, Unmade, Record
<1>10. Grows
  <2>1. \A l \in Links : links[l].paid \in Nat
    BY <1>1, MoneyAssumption DEF LinkType
  <2>2. links' = links /\ forced' = forced
    BY DEF Record
  <2> QED
    BY <1>1, <1>2, <1>5, <1>7, <2>1, <2>2 DEF Grows
<1>11. Goto("session", "book")
  BY DEF Record
<1>12. Moved("session") /\ task'["session"] = [task["session"] EXCEPT !.at = "book"]
  BY <1>1, <1>8, <1>9, <1>10, <1>11, Going DEF StepsOf, Procs, Steps, OnRow, TaskType, t
<1> QED
  BY <1>2, <1>7, <1>12 DEF new, closed, t

LEMMA BookMoves ==
  ASSUME TypeInv, Book
  PROVE  /\ Moved("session")
         /\ task'["session"] = [task["session"] EXCEPT !.at = "tell", !.seen = state]
<1>1. /\ "session" \in Procs /\ task["session"] \in TaskType /\ Placed("session", task["session"])
      /\ state \in LifecycleStates /\ meta \in MetaType /\ leaks \in Nat
  BY DEF TypeInv, TypeOK, Procs
<1>2. meta' \in MetaType /\ leaks' \in Nat
  <2>1. /\ task["session"].link \in Links \cup {NoLink} /\ task["session"].amount \in 0..Total
        /\ Total - task["session"].amount \in 0..Total
    BY <1>1, MoneyAssumption DEF TaskType
  <2>2. meta.balance \in (0..Total) \cup {None}
    BY <1>1 DEF MetaType
  <2>3. PICK b \in (0..Total) \cup {None} :
          b = IF task["session"].partial THEN Total - task["session"].amount ELSE meta.balance
    BY <2>1, <2>2
  <2>4. meta' = [link |-> task["session"].link, balance |-> b]
    BY <2>3 DEF Book
  <2> QED
    BY <1>1, <2>1, <2>4 DEF Book, MetaType, Forget
<1>3. SharedType' /\ Grows /\ Unmade'
  BY <1>2, Quiet DEF Book, TypeInv, TypeOK
<1>4. PICK t \in TaskType : t = [task["session"] EXCEPT !.at = "tell", !.seen = state]
  BY <1>1 DEF TaskType, Steps
<1>5. t.at = "tell" /\ t.todo = task["session"].todo /\ t.prior = task["session"].prior
  BY <1>1, <1>4 DEF TaskType
<1>6. Placed("session", t)'
  BY <1>1, <1>5 DEF Placed, OnRow, StepsOf, Procs, Book
<1>7. Begin("session", t)
  BY <1>4 DEF Book
<1> QED
  BY <1>1, <1>3, <1>4, <1>6, <1>7, MovesTo

LEMMA TellMoves ==
  ASSUME TypeInv, Tell
  PROVE  Moved("session") /\ task'["session"] = Idle
<1>1. state' \in LifecycleStates
  BY FlushType DEF Tell, LifecycleStates
<1>2. SharedType' /\ Grows /\ Unmade'
  BY <1>1, Quiet DEF Tell, TypeInv, TypeOK
<1> QED
  BY <1>2, Resting DEF Tell, Procs

\* A new errand of the desk: it works on no artifact, or on one that exists.
LEMMA DeskBegins ==
  ASSUME TypeInv, SharedType', Grows, Unmade', minted' = minted, rows' = rows,
         NEW t \in TaskType, Begin("desk", t),
         t.todo = {}, t.prior = {}, t.at \in {"mcp", "ask", "fetch"},
         t.at = "ask" => t.link # NoLink,
         t.at = "fetch" => t.row \in Rows /\ t.row <= minted /\ Real(t.row)
  PROVE  Moved("desk") /\ task'["desk"] = t
<1>1. Placed("desk", t)'
  BY DEF Placed, OnRow, StepsOf, Procs, Real
<1> QED
  BY <1>1, MovesTo DEF Procs

LEMMA DeskLinkMoves ==
  ASSUME TypeInv, DeskLink
  PROVE  /\ Moved("desk")
         /\ task'["desk"].at = "mcp"
<1>1. SharedType' /\ Grows /\ Unmade'
  BY Still DEF DeskLink
<1>2. PICK t \in TaskType : t = [Idle EXCEPT !.at = "mcp", !.amount = Total, !.meta = meta]
  <2>1. Total \in 0..Total /\ meta \in MetaType
    BY MoneyAssumption DEF TypeInv, TypeOK
  <2> QED
    BY <2>1, IdleType DEF TaskType, Steps
<1>3. t.at = "mcp" /\ t.todo = {} /\ t.prior = {}
  BY <1>2, IdleType DEF TaskType, Idle
<1>4. Begin("desk", t)
  BY <1>2 DEF DeskLink
<1> QED
  BY <1>1, <1>3, <1>4, DeskBegins DEF DeskLink

LEMMA RememberMoves ==
  ASSUME TypeInv, Remember
  PROVE  Moved("desk") /\ task'["desk"] = Idle
<1>1. meta' \in MetaType /\ leaks' \in Nat
  <2>1. /\ task["desk"].meta \in MetaType /\ task["desk"].link \in Links \cup {NoLink}
        /\ meta \in MetaType /\ leaks \in Nat
    BY DEF TypeInv, TypeOK, TaskType, Procs
  <2>2. [task["desk"].meta EXCEPT !.link = task["desk"].link] \in MetaType
    BY <2>1 DEF MetaType
  <2> QED
    BY <2>1, <2>2 DEF Remember, Flush, Forget
<1>2. SharedType' /\ Grows /\ Unmade'
  BY <1>1, Quiet DEF Remember, TypeInv, TypeOK
<1> QED
  BY <1>2, Resting DEF Remember, Procs

LEMMA DeskStatusMoves ==
  ASSUME TypeInv, DeskStatus
  PROVE  /\ Moved("desk")
         /\ task'["desk"].at = "ask"
<1>1. SharedType' /\ Grows /\ Unmade'
  BY Still DEF DeskStatus
<1>2. meta.link \in Links /\ state \in LifecycleStates
  BY DEF DeskStatus, TypeInv, TypeOK, MetaType
<1>3. PICK t \in TaskType : t = [Idle EXCEPT !.at = "ask", !.link = meta.link, !.seen = state]
  BY <1>2, IdleType DEF TaskType, Steps
<1>4. t.at = "ask" /\ t.todo = {} /\ t.prior = {} /\ t.link = meta.link
  BY <1>3, IdleType DEF TaskType, Idle
<1>5. Begin("desk", t)
  BY <1>3 DEF DeskStatus
<1> QED
  BY <1>1, <1>4, <1>5, DeskBegins DEF DeskStatus

LEMMA AnswersType ==
  ASSUME TypeInv, NEW l \in Links, NEW a \in Answers(l)
  PROVE  /\ a \in AnswerType /\ a.paid <= links[l].paid
         /\ a.status = "paid" => Settled(l)
         /\ a # NoAnswer => a.status # "none" /\ (Settled(l) => a.status = "paid")
<1>1. links[l] \in LinkType
  BY DEF TypeInv, TypeOK
<1>2. /\ links[l].paid \in 0..Total /\ links[l].paid \in Nat
      /\ links[l].state \in {"open", "cancelled", "expired"}
  BY <1>1, MoneyAssumption DEF LinkType
<1>3. \/ a = NoAnswer
      \/ a = [status |-> IF Settled(l) THEN "paid" ELSE links[l].state, paid |-> links[l].paid]
  BY DEF Answers
<1>4. CASE a = NoAnswer
  BY <1>2, <1>4, MoneyAssumption DEF NoAnswer, AnswerType
<1>5. CASE a = [status |-> IF Settled(l) THEN "paid" ELSE links[l].state,
                paid |-> links[l].paid]
  BY <1>2, <1>5 DEF AnswerType
<1> QED
  BY <1>3, <1>4, <1>5

LEMMA StatusAnsweredMoves ==
  ASSUME TypeInv, StatusAnswered
  PROVE  /\ Moved("desk")
         /\ task["desk"].link \in Links
         /\ \E a \in Answers(task["desk"].link) :
              task'["desk"] = [task["desk"] EXCEPT !.at = "settle", !.answer = a]
<1>1. SharedType' /\ Grows /\ Unmade'
  BY Still DEF StatusAnswered
<1>2. /\ "desk" \in Procs /\ task["desk"] \in TaskType /\ Placed("desk", task["desk"])
      /\ task["desk"].at = "ask"
  BY DEF TypeInv, TypeOK, Procs, StatusAnswered
<1>3. task["desk"].link \in Links
  BY <1>2 DEF TaskType, Placed
<1>4. PICK a \in Answers(task["desk"].link) :
        task' = [task EXCEPT !["desk"].at = "settle", !["desk"].answer = a]
  BY DEF StatusAnswered
<1>5. a \in AnswerType
  BY <1>3, AnswersType
<1>6. PICK t \in TaskType : t = [task["desk"] EXCEPT !.at = "settle", !.answer = a]
  BY <1>2, <1>5 DEF TaskType, Steps
<1>7. /\ t.at = "settle" /\ t.todo = task["desk"].todo /\ t.prior = task["desk"].prior
      /\ t.link = task["desk"].link
  BY <1>2, <1>6 DEF TaskType
<1>8. Placed("desk", t)'
  BY <1>2, <1>7 DEF Placed, OnRow, StepsOf, Procs, StatusAnswered
<1>9. Begin("desk", t)
  BY <1>4, <1>6
<1> QED
  BY <1>1, <1>2, <1>3, <1>6, <1>8, <1>9, MovesTo

LEMMA CloseByStatusMoves ==
  ASSUME TypeInv, CloseByStatus
  PROVE  Moved("desk") /\ task'["desk"] = Idle
<1>1. state' \in LifecycleStates
  BY FlushType DEF CloseByStatus, LifecycleStates, TypeInv, TypeOK
<1>2. SharedType' /\ Grows /\ Unmade'
  BY <1>1, Quiet DEF CloseByStatus, TypeInv, TypeOK
<1> QED
  BY <1>2, Resting DEF CloseByStatus, Procs

LEMMA CheckLatestMoves ==
  ASSUME TypeInv, CheckLatest
  PROVE  /\ Moved("desk")
         /\ task'["desk"].at = "fetch" /\ task'["desk"].row = minted
         /\ task'["desk"].was = [status |-> rows[minted].status, paid |-> rows[minted].paid]
<1>1. SharedType' /\ Grows /\ Unmade'
  BY Still DEF CheckLatest
<1>2. minted \in Rows /\ rows[minted] \in RowType /\ minted <= minted
  BY MoneyAssumption DEF CheckLatest, TypeInv, TypeOK
<1>3. PICK w \in [status : RowStatuses, paid : 0..Total] :
        w = [status |-> rows[minted].status, paid |-> rows[minted].paid]
  BY <1>2 DEF RowType
<1>4. PICK t \in TaskType : t = [Idle EXCEPT !.at = "fetch", !.row = minted, !.was = w]
  BY <1>2, IdleType DEF TaskType, Steps
<1>5. t.at = "fetch" /\ t.todo = {} /\ t.prior = {} /\ t.row = minted /\ t.was = w
  BY <1>4, IdleType DEF TaskType, Idle
<1>6. Begin("desk", t)
  BY <1>3, <1>4 DEF CheckLatest
<1>7. t.row \in Rows /\ t.row <= minted /\ Real(t.row)
  BY <1>2, <1>5 DEF CheckLatest
<1>8. Moved("desk") /\ task'["desk"] = t
  BY <1>1, <1>5, <1>6, <1>7, DeskBegins DEF CheckLatest
<1> QED
  BY <1>3, <1>5, <1>8

\* One artifact changes, but neither its link nor its amount.
LEMMA RowChanges ==
  ASSUME TypeInv, NEW r \in Rows, NEW row \in RowType, rows' = [rows EXCEPT ![r] = row],
         row.link = rows[r].link, row.amount = rows[r].amount, row.partial = rows[r].partial,
         UNCHANGED <<fixed, moneyVars, minted, caseVars, session, chases, leaks, faults>>,
         forced' \in SUBSET Rows, forced \subseteq forced'
  PROVE  /\ SharedType' /\ Grows /\ Unmade'
         /\ rows'[r] = row /\ \A q \in Rows : q # r => rows'[q] = rows[q]
<1>1. rows \in [Rows -> RowType] /\ minted \in Nat /\ links \in [Links -> LinkType]
  BY MoneyAssumption DEF TypeInv, TypeOK
<1>2. rows' \in [Rows -> RowType] /\ rows'[r] = row /\ \A q \in Rows : q # r => rows'[q] = rows[q]
  BY <1>1
<1>3. \A l \in Links : links[l].paid \in Nat
  BY <1>1, MoneyAssumption DEF LinkType
<1> QED
  BY <1>1, <1>2, <1>3 DEF SharedType, TypeInv, TypeOK, Grows, Unmade

LEMMA SimulateMoves ==
  ASSUME TypeInv, NEW r \in Rows, Simulate(r)
  PROVE  /\ Moved("desk") /\ r \in forced' /\ r <= minted
         /\ rows'[r].link = rows[r].link /\ rows'[r].status = "PAID"
         /\ \A q \in Rows : q # r => rows'[q] = rows[q]
         /\ task'["desk"].at = "apply" /\ task'["desk"].row = r
<1>1. rows[r] \in RowType /\ rows \in [Rows -> RowType]
  BY DEF TypeInv, TypeOK
<1>2. PICK row \in RowType : row = [rows[r] EXCEPT !.status = "PAID", !.paid = rows[r].amount]
  BY <1>1 DEF RowType, RowStatuses
<1>3. /\ row.link = rows[r].link /\ row.amount = rows[r].amount /\ row.partial = rows[r].partial
      /\ row.status = "PAID"
  BY <1>1, <1>2 DEF RowType
<1>4. rows' = [rows EXCEPT ![r] = row]
  BY <1>2 DEF Simulate
<1>5. forced' \in SUBSET Rows /\ forced \subseteq forced' /\ r \in forced'
  BY DEF Simulate, TypeInv, TypeOK
<1>6. /\ SharedType' /\ Grows /\ Unmade'
      /\ rows'[r] = row /\ \A q \in Rows : q # r => rows'[q] = rows[q]
  BY <1>3, <1>4, <1>5, RowChanges DEF Simulate
<1>7. PICK w \in [status : RowStatuses, paid : 0..Total] :
        w = [status |-> rows[r].status, paid |-> rows[r].paid]
  BY <1>1 DEF RowType
<1>8. PICK t \in TaskType : t = [Idle EXCEPT !.at = "apply", !.row = r, !.was = w]
  BY IdleType DEF TaskType, Steps
<1>9. t.at = "apply" /\ t.todo = {} /\ t.prior = {} /\ t.row = r
  BY <1>8, IdleType DEF TaskType, Idle
<1>10. Begin("desk", t)
  BY <1>7, <1>8 DEF Simulate
<1>11. Placed("desk", t)'
  BY <1>9 DEF Placed, OnRow, StepsOf, Procs, Simulate
<1>12. Moved("desk") /\ task'["desk"] = t
  BY <1>6, <1>10, <1>11, MovesTo DEF Procs
<1> QED
  BY <1>3, <1>5, <1>6, <1>9, <1>12 DEF Simulate

\* A loop's tick takes a set of artifacts that exist.
LEMMA LoopBegins ==
  ASSUME TypeInv, SharedType', Grows, Unmade', NEW p \in {"poller", "sweeper"},
         NEW t \in TaskType, Begin(p, t), t.at = "pick", t.prior = {},
         \A r \in t.todo : r <= minted, p = "poller" => \A r \in t.todo : Real(r),
         minted' = minted, rows' = rows
  PROVE  Moved(p) /\ task'[p] = t
<1>1. p \in Procs /\ Placed(p, t)'
  BY DEF Placed, OnRow, StepsOf, Procs, Real
<1> QED
  BY <1>1, MovesTo

LEMMA PollMoves ==
  ASSUME TypeInv, Poll
  PROVE  Moved("poller") /\ task'["poller"].at = "pick" /\ task'["poller"].settled = {}
<1> DEFINE pending == {r \in Rows : r <= minted /\ Real(r) /\ rows[r].status \in OpenStatuses}
<1>1. SharedType' /\ Grows /\ Unmade'
  BY Still DEF Poll
<1>2. PICK t \in TaskType : t = [Idle EXCEPT !.at = "pick", !.todo = pending]
  <2>1. pending \in SUBSET Rows
    OBVIOUS
  <2> HIDE DEF pending
  <2> QED
    BY <2>1, IdleType DEF TaskType, Steps
<1>3. /\ t.at = "pick" /\ t.todo = pending /\ t.prior = {} /\ t.settled = {}
  BY <1>2, IdleType DEF TaskType, Idle
<1>4. Begin("poller", t)
  BY <1>2 DEF Poll
<1> QED
  BY <1>1, <1>3, <1>4, LoopBegins DEF Poll

LEMMA TickMoves ==
  ASSUME TypeInv, NEW quiet \in BOOLEAN, Tick(quiet)
  PROVE  /\ Moved("sweeper") /\ task'["sweeper"].at = "pick"
         /\ task'["sweeper"].answer = NoAnswer
         /\ \A r \in task'["sweeper"].todo : Due(r)
         /\ task'["sweeper"].settled = IF Alone THEN {l \in Links : Settled(l)} ELSE {}
<1> DEFINE due == {r \in Rows : Due(r)}
           known == IF Alone THEN {l \in Links : Settled(l)} ELSE {}
<1>1. SharedType' /\ Grows /\ Unmade'
  BY Still DEF Tick
<1>2. due \in SUBSET Rows /\ known \in SUBSET Links /\ \A r \in due : r <= minted /\ Due(r)
  BY DEF Due
<1>3. task' = [task EXCEPT !["sweeper"] =
        [Idle EXCEPT !.at = "pick", !.todo = due, !.quiet = quiet, !.settled = known]]
  BY DEF Tick
<1> HIDE DEF due, known
<1>4. PICK t \in TaskType :
        t = [Idle EXCEPT !.at = "pick", !.todo = due, !.quiet = quiet, !.settled = known]
  BY <1>2, IdleType DEF TaskType, Steps
<1>5. /\ t.at = "pick" /\ t.todo = due /\ t.prior = {} /\ t.settled = known
      /\ t.answer = NoAnswer
  BY <1>4, IdleType DEF TaskType, Idle
<1>6. Begin("sweeper", t) /\ minted' = minted /\ rows' = rows
  BY <1>3, <1>4 DEF Tick
<1>7. Moved("sweeper") /\ task'["sweeper"] = t
  BY <1>1, <1>2, <1>5, <1>6, LoopBegins
<1> QED
  BY <1>2, <1>5, <1>7 DEF known

LEMMA PickMoves ==
  ASSUME TypeInv, NEW p \in {"poller", "sweeper"}, Pick(p)
  PROVE  /\ Moved(p)
         /\ \/ task'[p] = Idle
            \/ /\ task'[p].row \in task[p].todo
               /\ task'[p].todo = task[p].todo \ {task'[p].row}
               /\ task'[p].at = IF Real(task'[p].row) THEN "fetch" ELSE "check"
               /\ task'[p].answer = NoAnswer /\ task'[p].settled = task[p].settled
               /\ task'[p].was = [status |-> rows[task'[p].row].status,
                                  paid |-> rows[task'[p].row].paid]
               /\ p = "poller" => Real(task'[p].row)
<1>1. /\ SharedType' /\ Grows /\ Unmade' /\ p \in Procs /\ task[p] \in TaskType
      /\ Placed(p, task[p]) /\ rows \in [Rows -> RowType] /\ task[p].at = "pick"
  BY Still DEF Pick, TypeInv, TypeOK, Procs
<1>2. CASE Rest(p)
  BY <1>1, <1>2, Resting
<1>3. ASSUME NEW r \in task[p].todo,
             task' = [task EXCEPT
                        ![p].row = r, ![p].todo = @ \ {r},
                        ![p].at = IF Real(r) THEN "fetch" ELSE "check",
                        ![p].answer = NoAnswer,
                        ![p].was = [status |-> rows[r].status, paid |-> rows[r].paid]],
             p = "poller" => Real(r)
      PROVE  /\ Moved(p)
             /\ task'[p].row = r /\ task'[p].todo = task[p].todo \ {r}
             /\ task'[p].at = IF Real(r) THEN "fetch" ELSE "check"
             /\ task'[p].answer = NoAnswer /\ task'[p].settled = task[p].settled
             /\ task'[p].was = [status |-> rows[r].status, paid |-> rows[r].paid]
  <2>1. r \in Rows /\ r <= minted /\ rows[r] \in RowType
    BY <1>1 DEF TaskType, Placed
  <2>2. PICK w \in [status : RowStatuses, paid : 0..Total] :
          w = [status |-> rows[r].status, paid |-> rows[r].paid]
    BY <2>1 DEF RowType
  <2>3. PICK step \in Steps : step = IF Real(r) THEN "fetch" ELSE "check"
    BY DEF Steps
  <2>4. PICK none \in AnswerType : none = NoAnswer
    BY NoAnswerType
  <2>5. PICK t \in TaskType :
          t = [task[p] EXCEPT !.row = r, !.todo = task[p].todo \ {r}, !.at = step,
                              !.answer = none, !.was = w]
    <3>1. task[p].todo \ {r} \in SUBSET Rows
      BY <1>1 DEF TaskType
    <3> QED
      BY <1>1, <2>1, <3>1 DEF TaskType
  <2>6. /\ t.at = step /\ t.todo = task[p].todo \ {r} /\ t.prior = task[p].prior /\ t.row = r
        /\ t.settled = task[p].settled /\ t.answer = none /\ t.was = w
    BY <1>1, <2>5 DEF TaskType
  <2>7. task[p].todo \subseteq Rows /\ \A q \in t.todo \cup t.prior : q <= minted
    BY <1>1, <2>6 DEF Placed, TaskType
  <2>8. step \in StepsOf[p]
    BY <1>3, <2>3 DEF StepsOf, Procs
  <2>9. rows' = rows /\ minted' = minted
    BY DEF Pick
  <2>10. Placed(p, t)'
    <3>1. p = "poller" => \A q \in t.todo : rows'[q].link # NoLink
      BY <1>1, <2>6, <2>9 DEF Placed, Real
    <3>2. t.at = "fetch" => rows'[t.row].link # NoLink
      BY <2>3, <2>6, <2>9 DEF Real
    <3>3. t.at \in {"fetch", "check"} /\ t.row \in Rows /\ t.row <= minted'
      BY <2>1, <2>3, <2>6, <2>9
    <3>4. \A q \in t.todo \cup t.prior : q <= minted'
      BY <2>7, <2>9
    <3> QED
      BY <2>6, <2>8, <3>1, <3>2, <3>3, <3>4 DEF Placed, Real
  <2>11. Begin(p, t)
    BY <1>3, <2>2, <2>3, <2>4, <2>5
  <2>12. Moved(p) /\ task'[p] = t
    BY <1>1, <2>10, <2>11, MovesTo
  <2> QED
    BY <2>2, <2>3, <2>4, <2>6, <2>12
<1>4. CASE ~Rest(p)
  <2>1. PICK r \in task[p].todo :
          task' = [task EXCEPT
                     ![p].row = r, ![p].todo = @ \ {r},
                     ![p].at = IF Real(r) THEN "fetch" ELSE "check",
                     ![p].answer = NoAnswer,
                     ![p].was = [status |-> rows[r].status, paid |-> rows[r].paid]]
    BY <1>4 DEF Pick
  <2>2. p = "poller" => Real(r)
    BY <1>1, <2>1 DEF Placed
  <2>3. /\ Moved(p)
        /\ task'[p].row = r /\ task'[p].todo = task[p].todo \ {r}
        /\ task'[p].at = IF Real(r) THEN "fetch" ELSE "check"
        /\ task'[p].answer = NoAnswer /\ task'[p].settled = task[p].settled
        /\ task'[p].was = [status |-> rows[r].status, paid |-> rows[r].paid]
    BY <1>3, <2>1, <2>2
  <2> QED
    BY <2>2, <2>3
<1> QED
  BY <1>2, <1>4

\* The processes that reconcile.
LEMMA Reconcilers ==
  ASSUME NEW p \in {"desk", "poller", "sweeper"}
  PROVE  p \in Procs /\ {"idle", "fetch", "write", "apply"} \subseteq StepsOf[p]
  BY DEF Procs, StepsOf

LEMMA FetchMoves ==
  ASSUME TypeInv, NEW p \in {"desk", "poller", "sweeper"}, NEW a \in AnswerType, FetchAs(p, a)
  PROVE  Moved(p) /\ task'[p] = [task[p] EXCEPT !.at = "write", !.answer = a]
<1>1. /\ SharedType' /\ Grows /\ Unmade' /\ p \in Procs /\ task[p] \in TaskType
      /\ Placed(p, task[p]) /\ task[p].at = "fetch" /\ rows' = rows /\ minted' = minted
  BY Still, Reconcilers DEF FetchAs, TypeInv, TypeOK
<1>2. PICK t \in TaskType : t = [task[p] EXCEPT !.at = "write", !.answer = a]
  BY <1>1 DEF TaskType, Steps
<1>3. /\ t.at = "write" /\ t.todo = task[p].todo /\ t.prior = task[p].prior
      /\ t.row = task[p].row
  BY <1>1, <1>2 DEF TaskType
<1>4. t.row \in Rows /\ t.row <= minted /\ Real(t.row)
  BY <1>1, <1>3 DEF Placed, OnRow
<1>5. /\ \A q \in t.todo \cup t.prior : q <= minted
      /\ p = "poller" => \A q \in t.todo : Real(q)
  BY <1>1, <1>3 DEF Placed
<1>6. Placed(p, t)'
  BY <1>1, <1>3, <1>4, <1>5, Reconcilers DEF Placed, Real
<1>7. Begin(p, t)
  BY <1>2 DEF FetchAs
<1> QED
  BY <1>1, <1>2, <1>6, <1>7, MovesTo

LEMMA ReconciledType ==
  ASSUME NEW amount \in 0..Total, NEW old \in [status : RowStatuses, paid : 0..Total],
         NEW a \in AnswerType
  PROVE  Reconciled(amount, old, a) \in [status : RowStatuses, paid : 0..Total]
<1>1. /\ a.paid \in 0..Total /\ "PAID" \in RowStatuses /\ "PARTIALLY_PAID" \in RowStatuses
      /\ "EXPIRED" \in RowStatuses
  BY DEF AnswerType, RowStatuses
<1> DEFINE new == Reconciled(amount, old, a)
<1>2. \/ new = [status |-> "PAID", paid |-> amount]
      \/ new = [status |-> "PAID", paid |-> a.paid]
      \/ new = [status |-> "PARTIALLY_PAID", paid |-> a.paid]
      \/ new = [old EXCEPT !.status = "EXPIRED"]
      \/ new = old
  <2>1. a.paid > 0 => ~(a.paid = 0)
    BY <1>1, MoneyAssumption
  <2>2. a.status = "paid" => a.status # "expired"
    OBVIOUS
  <2> QED
    BY <2>1, <2>2 DEF Reconciled
<1> QED
  BY <1>1, <1>2

\* What a reconciliation writes: the status and the paid amount, each one only
\* if it differs from what was loaded.
LEMMA WriteMoves ==
  ASSUME TypeInv, NEW p \in {"desk", "poller", "sweeper"}, Write(p)
  PROVE  /\ Moved(p) /\ task'[p] = [task[p] EXCEPT !.at = "apply"]
         /\ LET r == task[p].row
                new == Reconciled(rows[r].amount, task[p].was, task[p].answer)
            IN /\ r \in Rows /\ r <= minted
               /\ new \in [status : RowStatuses, paid : 0..Total]
               /\ rows'[r] = [rows[r] EXCEPT
                                !.status = Flush(task[p].was.status, new.status, @),
                                !.paid   = Flush(task[p].was.paid, new.paid, @)]
               /\ \A q \in Rows : q # r => rows'[q] = rows[q]
<1> DEFINE r == task[p].row
           new == Reconciled(rows[r].amount, task[p].was, task[p].answer)
<1>1. /\ p \in Procs /\ task[p] \in TaskType /\ Placed(p, task[p]) /\ task[p].at = "write"
      /\ rows \in [Rows -> RowType]
  BY Reconcilers DEF Write, TypeInv, TypeOK
<1>2. r \in Rows /\ r <= minted
  BY <1>1 DEF Placed, OnRow
<1>3. rows[r] \in RowType /\ rows[r].amount \in 0..Total
  BY <1>1, <1>2 DEF RowType
<1>4. new \in [status : RowStatuses, paid : 0..Total]
  BY <1>1, <1>3, ReconciledType DEF TaskType
<1>5. rows' = [rows EXCEPT ![r] = [rows[r] EXCEPT
                             !.status = Flush(task[p].was.status, new.status, @),
                             !.paid   = Flush(task[p].was.paid, new.paid, @)]]
  BY DEF Write
<1>6. /\ UNCHANGED <<fixed, moneyVars, minted, caseVars, session, history, faults>>
      /\ Goto(p, "apply")
  BY DEF Write
<1> HIDE DEF r, new
<1>7. PICK s \in RowStatuses : s = Flush(task[p].was.status, new.status, rows[r].status)
  BY <1>3, <1>4 DEF Flush, RowType
<1>8. PICK x \in 0..Total : x = Flush(task[p].was.paid, new.paid, rows[r].paid)
  BY <1>3, <1>4 DEF Flush, RowType
<1>9. PICK row \in RowType : row = [rows[r] EXCEPT !.status = s, !.paid = x]
  BY <1>3 DEF RowType
<1>10. /\ row.link = rows[r].link /\ row.amount = rows[r].amount
       /\ row.partial = rows[r].partial
  BY <1>3, <1>9 DEF RowType
<1>11. rows' = [rows EXCEPT ![r] = row]
  BY <1>5, <1>7, <1>8, <1>9
<1>12. /\ SharedType' /\ Grows /\ Unmade'
       /\ rows'[r] = row /\ \A q \in Rows : q # r => rows'[q] = rows[q]
  <2>1. forced' \in SUBSET Rows /\ forced \subseteq forced'
    BY <1>6 DEF TypeInv, TypeOK
  <2> QED
    BY <1>2, <1>6, <1>10, <1>11, <2>1, RowChanges
<1>13. Moved(p) /\ task'[p] = [task[p] EXCEPT !.at = "apply"]
  <2>1. OnRow(p, task[p]) /\ "apply" \in Steps
    BY <1>1 DEF OnRow, Steps
  <2> QED
    BY <1>1, <1>6, <1>12, <2>1, Going, Reconcilers
<1> QED
  BY <1>2, <1>4, <1>7, <1>8, <1>9, <1>12, <1>13 DEF r, new

LEMMA ApplyMoves ==
  ASSUME TypeInv, NEW p \in {"desk", "poller", "sweeper"}, Apply(p)
  PROVE  /\ Moved(p)
         /\ task'[p] = [task[p] EXCEPT !.at = IF p = "sweeper" THEN "check" ELSE "announce"]
<1>1. /\ p \in Procs /\ task[p] \in TaskType /\ Placed(p, task[p]) /\ task[p].at = "apply"
      /\ rows \in [Rows -> RowType] /\ meta \in MetaType /\ state \in LifecycleStates
  BY Reconcilers DEF Apply, TypeInv, TypeOK
<1>2. task[p].row \in Rows
  BY <1>1 DEF Placed, OnRow
<1>3. state' \in LifecycleStates /\ meta' \in MetaType
  <2> DEFINE a == rows[task[p].row]
             balance == IF Total > a.paid THEN Total - a.paid ELSE 0
  <2>1. a.paid \in 0..Total
    BY <1>1, <1>2 DEF RowType
  <2>2. balance \in 0..Total
    BY <2>1, MoneyAssumption
  <2>3. /\ meta' = [meta EXCEPT !.balance = balance] \/ meta' = meta
        /\ a.partial => state' = CASE balance = 0 -> "RECOVERED"
             [] balance > 0 /\ a.status = "PARTIALLY_PAID" /\ state \notin {"ESCALATED", "CANCELLED"}
                  -> "WAITING"
             [] OTHER -> state
        /\ ~a.partial => state' \in {"RECOVERED", state}
    BY DEF Apply
  <2> HIDE DEF a, balance
  <2>4. state' \in {"RECOVERED", "WAITING", state}
    <3>1. ~(balance = 0 /\ balance > 0)
      BY <2>2, MoneyAssumption
    <3> QED
      BY <2>3, <3>1
  <2>5. meta' \in MetaType
    BY <1>1, <2>2, <2>3 DEF MetaType
  <2> QED
    BY <1>1, <2>4, <2>5 DEF LifecycleStates
<1>4. SharedType' /\ Grows /\ Unmade'
  BY <1>3, Quiet DEF Apply, TypeInv, TypeOK
<1>5. PICK s \in Steps : s = IF p = "sweeper" THEN "check" ELSE "announce"
  BY DEF Steps
<1>6. /\ s \in StepsOf[p] /\ OnRow(p, task[p])
      /\ s \notin {"fetch", "write", "ask", "settle"}
  BY <1>1, <1>5 DEF OnRow, StepsOf, Procs
<1>7. Goto(p, s)
  BY <1>5 DEF Apply
<1> QED
  BY <1>1, <1>4, <1>5, <1>6, <1>7, Going

LEMMA AnnounceMoves ==
  ASSUME TypeInv, NEW p \in {"desk", "poller"}, Announce(p)
  PROVE  /\ Moved(p)
         /\ \/ task'[p] = Idle
            \/ p = "poller" /\ task'[p].at = "pick"
<1>1. session' \in {"open", "terminal", "gone"}
  BY DEF Announce, TypeInv, TypeOK
<1>2. SharedType' /\ Grows /\ Unmade'
  BY <1>1, Quiet DEF Announce, TypeInv, TypeOK
<1>3. p \in Procs
  BY DEF Procs
<1>4. p = "poller" => Moved(p) /\ task'[p].at = "pick"
  BY <1>2, Looping DEF Announce
<1>5. p # "poller" => Moved(p) /\ task'[p] = Idle
  BY <1>2, <1>3, Resting DEF Announce
<1> QED
  BY <1>4, <1>5

LEMMA CheckMoves ==
  ASSUME TypeInv, Check
  PROVE  /\ Moved("sweeper")
         /\ LET t == task["sweeper"]
            IN \/ /\ StillOwing(t.row)
                  /\ task'["sweeper"] = [t EXCEPT !.at = "gate", !.action = "SEND_WHATSAPP",
                                                  !.seen = state]
               \/ /\ task'["sweeper"].at = "pick" /\ task'["sweeper"].answer = NoAnswer
                  /\ task'["sweeper"].todo = t.todo /\ task'["sweeper"].settled = t.settled
<1>1. /\ SharedType' /\ Grows /\ Unmade' /\ "sweeper" \in Procs /\ task["sweeper"] \in TaskType
      /\ Placed("sweeper", task["sweeper"]) /\ task["sweeper"].at = "check"
      /\ state \in LifecycleStates
  BY Still DEF Check, TypeInv, TypeOK, Procs
<1>2. CASE Proceed("sweeper")
  BY <1>1, <1>2, Looping
<1>3. CASE /\ StillOwing(task["sweeper"].row)
           /\ task' = [task EXCEPT !["sweeper"].at = "gate",
                     !["sweeper"].action = "SEND_WHATSAPP", !["sweeper"].seen = state]
  <2>1. PICK t \in TaskType :
          t = [task["sweeper"] EXCEPT !.at = "gate", !.action = "SEND_WHATSAPP", !.seen = state]
    BY <1>1 DEF TaskType, Steps, Actions
  <2>2. /\ t.at = "gate" /\ t.todo = task["sweeper"].todo /\ t.prior = task["sweeper"].prior
        /\ t.row = task["sweeper"].row
    BY <1>1, <2>1 DEF TaskType
  <2>3. Placed("sweeper", t)'
    BY <1>1, <2>2 DEF Placed, OnRow, StepsOf, Procs, Check
  <2>4. Begin("sweeper", t)
    BY <1>3, <2>1
  <2> QED
    BY <1>1, <1>3, <2>1, <2>3, <2>4, MovesTo
<1> QED
  BY <1>2, <1>3 DEF Check

LEMMA MessageMoves ==
  ASSUME TypeInv, Message
  PROVE  /\ Moved("sweeper") /\ task'["sweeper"] = [task["sweeper"] EXCEPT !.at = "mark"]
         /\ task["sweeper"].row \in Rows /\ task["sweeper"].row <= minted
<1>1. /\ "sweeper" \in Procs /\ task["sweeper"] \in TaskType
      /\ Placed("sweeper", task["sweeper"]) /\ task["sweeper"].at = "message"
      /\ chases \in [Rows -> Nat]
  BY DEF Message, TypeInv, TypeOK, Procs
<1>2. task["sweeper"].row \in Rows /\ task["sweeper"].row <= minted
  BY <1>1 DEF Placed, OnRow
<1>3. chases' \in [Rows -> Nat]
  BY <1>1, <1>2 DEF Message
<1>4. SharedType' /\ Grows /\ Unmade'
  BY <1>3, Quiet DEF Message, TypeInv, TypeOK
<1> QED
  BY <1>1, <1>2, <1>4, Going DEF Message, OnRow, StepsOf, Procs, Steps

LEMMA MarkMoves ==
  ASSUME TypeInv, Mark
  PROVE  /\ Moved("sweeper") /\ task'["sweeper"].at = "pick"
         /\ task'["sweeper"].answer = NoAnswer
         /\ task'["sweeper"].todo = task["sweeper"].todo
         /\ task'["sweeper"].settled = task["sweeper"].settled
         /\ LET r == task["sweeper"].row
            IN /\ r \in Rows /\ rows'[r] = [rows[r] EXCEPT !.followed = TRUE]
               /\ \A q \in Rows : q # r => rows'[q] = rows[q]
<1> DEFINE r == task["sweeper"].row
<1>1. /\ "sweeper" \in Procs /\ task["sweeper"] \in TaskType
      /\ Placed("sweeper", task["sweeper"]) /\ task["sweeper"].at = "mark"
      /\ rows \in [Rows -> RowType]
  BY DEF Mark, TypeInv, TypeOK, Procs
<1>2. r \in Rows /\ rows[r] \in RowType
  BY <1>1 DEF Placed, OnRow
<1>3. PICK row \in RowType : row = [rows[r] EXCEPT !.followed = TRUE]
  BY <1>2 DEF RowType
<1>4. /\ row.link = rows[r].link /\ row.amount = rows[r].amount
      /\ row.partial = rows[r].partial
  BY <1>2, <1>3 DEF RowType
<1>5. rows' = [rows EXCEPT ![r] = row]
  BY <1>3 DEF Mark
<1>6. /\ SharedType' /\ Grows /\ Unmade'
      /\ rows'[r] = row /\ \A q \in Rows : q # r => rows'[q] = rows[q]
  <2>1. forced' \in SUBSET Rows /\ forced \subseteq forced'
    BY DEF Mark, TypeInv, TypeOK
  <2> QED
    BY <1>2, <1>4, <1>5, <2>1, RowChanges DEF Mark
<1> QED
  BY <1>2, <1>3, <1>6, Looping DEF Mark

LEMMA FailMoves ==
  ASSUME TypeInv, NEW p \in Procs, Fail(p)
  PROVE  Moved(p) /\ task'[p] = Idle /\ faults' = faults + 1
<1>1. leaks' \in Nat /\ faults' \in 0..MaxFaults
  BY MoneyAssumption DEF Fail, TypeInv, TypeOK
<1>2. SharedType' /\ Grows /\ Unmade'
  BY <1>1, Quiet DEF Fail, TypeInv, TypeOK
<1> QED
  BY <1>2, Resting DEF Fail

LEMMA Holders == IsFiniteSet({p \in Procs : Holds(p)})
<1>1. IsFiniteSet({"session"}) /\ IsFiniteSet({"desk"})
  BY FS_Singleton
<1>2. IsFiniteSet({"poller"}) /\ IsFiniteSet({"sweeper"})
  BY FS_Singleton
<1>3. IsFiniteSet(({"session"} \cup {"desk"}) \cup ({"poller"} \cup {"sweeper"}))
  BY <1>1, <1>2, FS_Union
<1>4. Procs = ({"session"} \cup {"desk"}) \cup ({"poller"} \cup {"sweeper"})
  BY DEF Procs
<1> QED
  BY <1>3, <1>4, FS_Subset

LEMMA HolderCount == Cardinality({p \in Procs : Holds(p)}) \in Nat
  BY Holders, FS_CardinalityType

LEMMA CrashMoves ==
  ASSUME TypeInv, Crash
  PROVE  TypeInv' /\ Grows /\ \A p \in Procs : task'[p] = Idle
<1>1. leaks' \in Nat /\ faults' \in 0..MaxFaults
  BY HolderCount, MoneyAssumption DEF Crash, TypeInv, TypeOK
<1>2. SharedType' /\ Grows /\ Unmade'
  BY <1>1, Quiet DEF Crash, TypeInv, TypeOK
<1>3. task' = [p \in Procs |-> Idle]
  BY DEF Crash
<1>4. \A p \in Procs : Placed(p, Idle)'
  BY DEF Placed, Idle, StepsOf, OnRow, Procs
<1>5. \A p \in Procs : task'[p] = Idle
  BY <1>3
<1>6. task' \in [Procs -> TaskType]
  BY <1>3, IdleType
<1>7. \A p \in Procs : Placed(p, task[p])'
  BY <1>4, <1>5
<1>8. TypeOK'
  BY <1>2, <1>6 DEF SharedType, TypeOK
<1> QED
  BY <1>2, <1>5, <1>7, <1>8 DEF TypeInv

\* The world outside changes no task.
LEMMA Outside ==
  ASSUME TypeInv, SharedType', Grows, Unmade', UNCHANGED task
  PROVE  TypeInv'
<1>1. "desk" \in Procs /\ task["desk"] \in TaskType /\ task["desk"].at \in Steps
  BY DEF Procs, TypeInv, TypeOK, TaskType
<1>2. PICK s \in Steps : s = task["desk"].at
  BY <1>1
<1>3. Goto("desk", s)
  BY <1>1, <1>2 DEF TypeInv, TypeOK, TaskType
<1>4. [task["desk"] EXCEPT !.at = s] = task["desk"]
  BY <1>1, <1>2 DEF TaskType
<1>5. s \in StepsOf["desk"]
  BY <1>1, <1>2 DEF TypeInv, Placed
<1> QED
  BY <1>1, <1>2, <1>3, <1>4, <1>5, Going DEF Moved

\* A link changes, but not its amount, and not if it is no longer open.
LEMMA LinkChanges ==
  ASSUME TypeInv, NEW l \in Links, NEW link \in LinkType, links' = [links EXCEPT ![l] = link],
         link.amount = links[l].amount, links[l].paid <= link.paid, links[l].state = "open",
         UNCHANGED <<fixed, made, bookVars, caseVars, session, task, history, faults>>
  PROVE  /\ TypeInv' /\ Grows
         /\ links'[l] = link /\ \A k \in Links : k # l => links'[k] = links[k]
<1>1. /\ links \in [Links -> LinkType] /\ minted \in Nat
      /\ \A k \in Links : links[k].paid \in Nat
  BY MoneyAssumption DEF TypeInv, TypeOK, LinkType
<1>2. links' \in [Links -> LinkType] /\ links'[l] = link
      /\ \A k \in Links : k # l => links'[k] = links[k]
  BY <1>1
<1>3. SharedType'
  BY <1>2 DEF SharedType, TypeInv, TypeOK
<1>4. Unmade'
  <2>1. NoLinkMade.state = "cancelled"
    BY DEF NoLinkMade
  <2>2. ~(l > made)
    BY <2>1 DEF TypeInv, Unmade
  <2> QED
    BY <1>2, <2>2 DEF TypeInv, Unmade
<1>5. Grows
  BY <1>1, <1>2 DEF Grows
<1> QED
  BY <1>2, <1>3, <1>4, <1>5, Outside

LEMMA PayMoves ==
  ASSUME TypeInv, NEW l \in Links, NEW x \in 1..Total, Pay(l, x)
  PROVE  /\ TypeInv' /\ Grows
         /\ links[l].state = "open" /\ links'[l].paid <= links'[l].amount
         /\ \A k \in Links : k # l => links'[k] = links[k]
<1>1. /\ links[l] \in LinkType /\ links[l].paid \in 0..Total /\ links[l].amount \in 0..Total
      /\ links[l].state = "open" /\ links[l].paid + x <= links[l].amount
  BY DEF Pay, TypeInv, TypeOK, LinkType
<1>2. links[l].paid + x \in 0..Total /\ links[l].paid <= links[l].paid + x
  BY <1>1, MoneyAssumption
<1>3. PICK y \in 0..Total : y = links[l].paid + x
  BY <1>2
<1>4. PICK link \in LinkType : link = [links[l] EXCEPT !.paid = y]
  BY <1>1, <1>3 DEF LinkType
<1>5. link.amount = links[l].amount /\ link.paid = y
  BY <1>1, <1>4 DEF LinkType
<1>6. links' = [links EXCEPT ![l] = link]
  BY <1>3, <1>4 DEF Pay
<1>7. /\ TypeInv' /\ Grows
      /\ links'[l] = link /\ \A k \in Links : k # l => links'[k] = links[k]
  <2>1. links[l].paid <= link.paid
    BY <1>2, <1>3, <1>5
  <2> QED
    BY <1>1, <1>5, <1>6, <2>1, LinkChanges DEF Pay
<1> QED
  BY <1>1, <1>3, <1>5, <1>7

LEMMA ExpireMoves ==
  ASSUME TypeInv, NEW l \in Links, Expire(l)
  PROVE  /\ TypeInv' /\ Grows
         /\ \A k \in Links : links'[k].paid = links[k].paid /\ links'[k].amount = links[k].amount
<1>1. links[l] \in LinkType /\ links[l].state = "open" /\ links[l].paid \in Nat
  BY MoneyAssumption DEF Expire, Live, TypeInv, TypeOK, LinkType
<1>2. PICK link \in LinkType : link = [links[l] EXCEPT !.state = "expired"]
  BY <1>1 DEF LinkType
<1>3. link.amount = links[l].amount /\ link.paid = links[l].paid
  BY <1>1, <1>2 DEF LinkType
<1>4. links' = [links EXCEPT ![l] = link]
  BY <1>2 DEF Expire
<1>5. /\ TypeInv' /\ Grows
      /\ links'[l] = link /\ \A k \in Links : k # l => links'[k] = links[k]
  <2>1. links[l].paid <= link.paid
    BY <1>1, <1>3
  <2> QED
    BY <1>1, <1>3, <1>4, <2>1, LinkChanges DEF Expire
<1> QED
  BY <1>3, <1>5

LEMMA LapseMoves ==
  ASSUME TypeInv, NEW r \in Rows, Lapse(r)
  PROVE  /\ TypeInv' /\ Grows
         /\ rows'[r] = [rows[r] EXCEPT !.overdue = TRUE]
         /\ \A q \in Rows : q # r => rows'[q] = rows[q]
<1>1. rows[r] \in RowType
  BY DEF TypeInv, TypeOK
<1>2. PICK row \in RowType : row = [rows[r] EXCEPT !.overdue = TRUE]
  BY <1>1 DEF RowType
<1>3. /\ row.link = rows[r].link /\ row.amount = rows[r].amount
      /\ row.partial = rows[r].partial
  BY <1>1, <1>2 DEF RowType
<1>4. rows' = [rows EXCEPT ![r] = row]
  BY <1>2 DEF Lapse
<1>5. /\ SharedType' /\ Grows /\ Unmade'
      /\ rows'[r] = row /\ \A q \in Rows : q # r => rows'[q] = rows[q]
  <2>1. forced' \in SUBSET Rows /\ forced \subseteq forced'
    BY DEF Lapse, TypeInv, TypeOK
  <2> QED
    BY <1>3, <1>4, <2>1, RowChanges DEF Lapse
<1> QED
  BY <1>2, <1>5, Outside DEF Lapse
-----------------------------------------------------------------------------
(* Every step keeps the types.                                             *)

LEMMA InitTypes == Init => TypeInv
<1> SUFFICES ASSUME Init PROVE TypeInv
  OBVIOUS
<1>1. /\ MaxLinks \in Nat /\ MaxRows \in Nat /\ MaxFaults \in Nat /\ Total \in Nat
      /\ Idle \in TaskType
  BY MoneyAssumption, IdleType
<1>2. NoLinkMade \in LinkType /\ NoRowMade \in RowType
  BY <1>1 DEF NoLinkMade, NoRowMade, LinkType, RowType, Kinds, RowStatuses
<1>3. Idle.meta \in MetaType /\ "INTERVENING" \in LifecycleStates
  BY <1>1 DEF TaskType, LifecycleStates
<1>4. TypeOK
  BY <1>1, <1>2, <1>3 DEF Init, TypeOK
<1>5. Unmade
  BY DEF Init, Unmade
<1>6. \A p \in Procs : Placed(p, task[p])
  BY DEF Init, Placed, Idle, StepsOf, OnRow, Procs
<1> QED
  BY <1>4, <1>5, <1>6 DEF TypeInv

LEMMA StepTypes ==
  ASSUME TypeInv, [Next]_vars
  PROVE  TypeInv' /\ Grows
<1>1. \A p \in Procs : Moved(p) => TypeInv' /\ Grows
  BY DEF Moved
<1>2. {"session", "desk", "poller", "sweeper"} \subseteq Procs
  BY DEF Procs
<1>3. CASE Asking \/ SessionStep
  <2>1. CASE Asking
    BY <1>1, <1>2, <2>1, AskMoves DEF Asking
  <2>2. CASE Gate("session") \/ Refuse("session")
    BY <1>1, <1>2, <2>2, GateMoves, RefuseMoves
  <2>3. CASE AskMcp("session") \/ AskSdk("session")
    BY <1>1, <1>2, <2>3, AskMcpMoves, AskSdkMoves
  <2>4. CASE CancelPrior
    BY <1>1, <1>2, <2>4, CancelMoves DEF CancelPrior
  <2>5. CASE Record \/ Book \/ Tell
    BY <1>1, <1>2, <2>5, RecordMoves, BookMoves, TellMoves
  <2> QED
    BY <1>3, <2>1, <2>2, <2>3, <2>4, <2>5 DEF SessionStep
<1>4. ASSUME NEW p \in {"desk", "poller", "sweeper"}, Reconciling(p)
      PROVE  TypeInv' /\ Grows
  <2>1. p \in Procs
    BY <1>2
  <2>2. CASE FetchNothing(p)
    BY <1>1, <2>1, <2>2, NoAnswerType, FetchMoves DEF FetchNothing
  <2>3. ASSUME NEW r \in Rows, FetchAnswered(p, r) PROVE TypeInv' /\ Grows
    <3>1. task[p] \in TaskType /\ Placed(p, task[p]) /\ rows[r] \in RowType
      BY <2>1 DEF TypeInv, TypeOK
    <3>2. rows[r].link \in Links
      BY <2>3, <3>1 DEF FetchAnswered, Placed, Real, RowType
    <3>3. PICK a \in Answers(rows[r].link) \ {NoAnswer} : FetchAs(p, a)
      BY <2>3 DEF FetchAnswered
    <3>4. a \in AnswerType
      BY <3>2, AnswersType
    <3> QED
      BY <1>1, <2>1, <3>3, <3>4, FetchMoves
  <2>4. CASE Write(p) \/ Apply(p)
    BY <1>1, <2>1, <2>4, WriteMoves, ApplyMoves
  <2> QED
    BY <1>4, <2>2, <2>3, <2>4 DEF Reconciling
<1>5. CASE DeskStart \/ DeskStep
  <2>1. CASE DeskLink \/ DeskStatus \/ CheckLatest
    BY <1>1, <1>2, <2>1, DeskLinkMoves, DeskStatusMoves, CheckLatestMoves
  <2>2. CASE \E r \in Rows : Simulate(r)
    BY <1>1, <1>2, <2>2, SimulateMoves
  <2>3. CASE AskMcp("desk") \/ AskSdk("desk")
    BY <1>1, <1>2, <2>3, AskMcpMoves, AskSdkMoves
  <2>4. CASE Remember \/ StatusAnswered \/ CloseByStatus
    BY <1>1, <1>2, <2>4, RememberMoves, StatusAnsweredMoves, CloseByStatusMoves
  <2>5. CASE Reconciling("desk")
    BY <1>4, <2>5
  <2>6. CASE Announce("desk")
    BY <1>1, <1>2, <2>6, AnnounceMoves
  <2> QED
    BY <1>5, <2>1, <2>2, <2>3, <2>4, <2>5, <2>6 DEF DeskStart, DeskStep
<1>6. CASE PollerStep
  <2>1. CASE Poll \/ Pick("poller")
    BY <1>1, <1>2, <2>1, PollMoves, PickMoves
  <2>2. CASE Reconciling("poller")
    BY <1>4, <2>2
  <2>3. CASE Announce("poller")
    BY <1>1, <1>2, <2>3, AnnounceMoves
  <2> QED
    BY <1>6, <2>1, <2>2, <2>3 DEF PollerStep
<1>7. CASE SweeperStep
  <2>1. CASE \E quiet \in BOOLEAN : SweeperTick(quiet)
    BY <1>1, <1>2, <2>1, TickMoves DEF SweeperTick
  <2>2. CASE Pick("sweeper")
    BY <1>1, <1>2, <2>2, PickMoves
  <2>3. CASE Reconciling("sweeper")
    BY <1>4, <2>3
  <2>4. CASE Check \/ Gate("sweeper") \/ Refuse("sweeper")
    BY <1>1, <1>2, <2>4, CheckMoves, GateMoves, RefuseMoves
  <2>5. CASE Message \/ Mark
    BY <1>1, <1>2, <2>5, MessageMoves, MarkMoves
  <2> QED
    BY <1>7, <2>1, <2>2, <2>3, <2>4, <2>5 DEF SweeperStep
<1>8. CASE World
  BY <1>8, PayMoves, ExpireMoves, LapseMoves DEF World
<1>9. CASE Faults
  BY <1>1, <1>9, CrashMoves, FailMoves DEF Faults
<1>10. CASE UNCHANGED vars
  <2>1. SharedType' /\ Grows /\ Unmade' /\ UNCHANGED task
    BY <1>10, Still DEF vars
  <2> QED
    BY <2>1, Outside
<1> QED
  BY <1>3, <1>5, <1>6, <1>7, <1>8, <1>9, <1>10 DEF Next

\* Every step keeps the case, the ledger, the artifacts and what the four
\* processes hold well typed (TypeOK).
THEOREM TypeCorrect == Spec => []TypeOK
<1>1. Init => TypeInv
  BY InitTypes
<1>2. TypeInv /\ [Next]_vars => TypeInv'
  BY StepTypes
<1>3. TypeInv => TypeOK
  BY DEF TypeInv
<1> QED
  BY <1>1, <1>2, <1>3, PTL DEF Spec

LEMMA AlwaysTyped == Spec => []TypeInv
<1>1. Init => TypeInv
  BY InitTypes
<1>2. TypeInv /\ [Next]_vars => TypeInv'
  BY StepTypes
<1> QED
  BY <1>1, <1>2, PTL DEF Spec
-----------------------------------------------------------------------------
(* Money.  What an artifact shows as paid has arrived at the gateway, and  *)
(* so has what any process is about to write; what the simulator wrote is  *)
(* excepted.                                                               *)

Got(r) == IF rows[r].link = NoLink THEN 0 ELSE links[rows[r].link].paid

Backed(r, status, paid) ==
  \/ r \in forced
  \/ paid <= Got(r) /\ (status = "PAID" => rows[r].amount <= Got(r))

\* Nobody can pay the link any more, and nobody has paid all of it.
Barred(r) ==
  Real(r) => links[rows[r].link].state = "cancelled" /\ ~Settled(rows[r].link)

LedgerOK == \A l \in Links : links[l].paid <= links[l].amount

RowOK(r) ==
  /\ rows[r].amount > 0 /\ (~rows[r].partial => rows[r].amount = Total)
  /\ Real(r) => links[rows[r].link].amount = rows[r].amount
  /\ Backed(r, rows[r].status, rows[r].paid)
  /\ rows[r].status = "CLOSED" => Barred(r)

TaskOK(p, t) ==
  /\ p = "session" =>
       /\ t.at # "idle" => t.amount > 0 /\ (~t.partial => t.amount = Total)
       /\ t.link # NoLink => t.amount > 0 /\ links[t.link].amount = t.amount
  /\ t.at = "record" => \A r \in t.prior : Barred(r)
  /\ t.at \in {"fetch", "write"} => Backed(t.row, t.was.status, t.was.paid)
  /\ t.at = "write" =>
       /\ t.answer.paid <= Got(t.row)
       /\ t.answer.status = "paid" => rows[t.row].amount <= Got(t.row)
  /\ t.at = "settle" /\ t.answer.status = "paid" => Settled(t.link)

MoneyInv ==
  /\ LedgerOK
  /\ \A r \in Rows : r <= minted => RowOK(r)
  /\ \A p \in Procs : TaskOK(p, task[p])

\* What has arrived stays: an artifact's facts survive every step that leaves
\* its own columns alone, and so does what a process holds.
LEMMA RowFacts ==
  ASSUME TypeInv, Grows, TypeInv', MoneyInv, NEW r \in Rows, r <= minted
  PROVE  /\ rows'[r].link = rows[r].link /\ rows'[r].amount = rows[r].amount
         /\ rows'[r].partial = rows[r].partial
         /\ rows[r].amount \in Nat /\ rows[r].amount > 0
         /\ rows[r].link # NoLink =>
              /\ rows[r].link \in Links /\ links[rows[r].link].amount = rows[r].amount
              /\ links'[rows[r].link].amount = rows[r].amount
              /\ links[rows[r].link].paid \in Nat /\ links'[rows[r].link].paid \in Nat
              /\ links[rows[r].link].paid <= links'[rows[r].link].paid
              /\ links[rows[r].link].state # "open" =>
                   links'[rows[r].link] = links[rows[r].link]
<1>1. /\ rows[r] \in RowType /\ RowOK(r) /\ rows[r].amount \in Nat
      /\ rows[r].link \in Links \cup {NoLink}
  BY MoneyAssumption DEF TypeInv, TypeOK, MoneyInv, RowType
<1>2. \A l \in Links : links[l].paid \in Nat /\ links'[l].paid \in Nat
  BY MoneyAssumption DEF TypeInv, TypeOK, LinkType
<1> QED
  BY <1>1, <1>2 DEF Grows, RowOK, Real

LEMMA GotGrows ==
  ASSUME TypeInv, Grows, TypeInv', MoneyInv, NEW r \in Rows, r <= minted
  PROVE  Got(r) \in Nat /\ Got(r)' \in Nat /\ Got(r) <= Got(r)'
  BY RowFacts DEF Got

LEMMA BackedStays ==
  ASSUME TypeInv, Grows, TypeInv', MoneyInv, NEW r \in Rows, r <= minted,
         NEW status \in RowStatuses, NEW paid \in 0..Total, Backed(r, status, paid)
  PROVE  Backed(r, status, paid)'
<1>1. /\ Got(r) \in Nat /\ Got(r)' \in Nat /\ Got(r) <= Got(r)'
      /\ rows'[r].amount = rows[r].amount /\ rows[r].amount \in Nat /\ paid \in Nat
  BY GotGrows, RowFacts, MoneyAssumption
<1>2. r \in forced => r \in forced'
  BY DEF Grows
<1> HIDE DEF Got
<1> QED
  BY <1>1, <1>2 DEF Backed

LEMMA BarredStays ==
  ASSUME TypeInv, Grows, TypeInv', MoneyInv, NEW r \in Rows, r <= minted, Barred(r)
  PROVE  Barred(r)'
<1>1. CASE rows[r].link = NoLink
  BY <1>1, RowFacts DEF Barred, Real
<1>2. CASE rows[r].link # NoLink
  <2>1. /\ links'[rows[r].link] = links[rows[r].link] /\ rows'[r].link = rows[r].link
        /\ links[rows[r].link].state = "cancelled" /\ ~Settled(rows[r].link)
    BY <1>2, RowFacts DEF Barred, Real
  <2> QED
    BY <2>1 DEF Barred, Settled
<1> QED
  BY <1>1, <1>2

LEMMA SettledStays ==
  ASSUME TypeInv, Grows, TypeInv', NEW l \in Links, Settled(l)
  PROVE  Settled(l)'
<1>1. /\ links[l].paid \in Nat /\ links'[l].paid \in Nat /\ links[l].amount \in Nat
  BY MoneyAssumption DEF TypeInv, TypeOK, LinkType
<1> QED
  BY <1>1 DEF Settled, Grows

LEMMA RowStays ==
  ASSUME TypeInv, Grows, TypeInv', MoneyInv, NEW r \in Rows, r <= minted,
         rows'[r].status = rows[r].status, rows'[r].paid = rows[r].paid
  PROVE  RowOK(r)'
<1>1. /\ RowOK(r) /\ rows[r].status \in RowStatuses /\ rows[r].paid \in 0..Total
  BY DEF MoneyInv, TypeInv, TypeOK, RowType
<1>2. PICK status \in RowStatuses : status = rows[r].status
  BY <1>1
<1>3. PICK paid \in 0..Total : paid = rows[r].paid
  BY <1>1
<1>4. Backed(r, status, paid)
  BY <1>1, <1>2, <1>3 DEF RowOK
<1>5. Backed(r, status, paid)'
  BY <1>4, BackedStays
<1>6. Backed(r, rows[r].status, rows[r].paid)'
  BY <1>2, <1>3, <1>5 DEF Backed
<1>7. rows[r].status = "CLOSED" => Barred(r)'
  BY <1>1, BarredStays DEF RowOK
<1> QED
  BY <1>1, <1>6, <1>7, RowFacts DEF RowOK, Real

LEMMA TaskStays ==
  ASSUME TypeInv, Grows, TypeInv', MoneyInv, NEW p \in Procs, NEW t \in TaskType,
         Placed(p, t), TaskOK(p, t)
  PROVE  TaskOK(p, t)'
<1>1. /\ t.link \in Links \cup {NoLink} /\ t.prior \subseteq Rows /\ t.amount \in Nat
      /\ t.was.status \in RowStatuses /\ t.was.paid \in 0..Total
      /\ t.answer.paid \in Nat
  BY MoneyAssumption DEF TaskType, AnswerType
<1>2. p = "session" => /\ t.at # "idle" => t.amount > 0 /\ (~t.partial => t.amount = Total)
                       /\ t.link # NoLink => t.amount > 0 /\ links'[t.link].amount = t.amount
  <2>1. ASSUME p = "session", t.link # NoLink
        PROVE  t.amount > 0 /\ links'[t.link].amount = t.amount
    BY <1>1, <2>1 DEF TaskOK, Grows
  <2> QED
    BY <2>1 DEF TaskOK
<1>3. t.at = "record" => \A r \in t.prior : Barred(r)'
  BY <1>1, BarredStays DEF TaskOK, Placed
<1>4. ASSUME t.at \in {"fetch", "write"}
      PROVE  t.row \in Rows /\ t.row <= minted /\ Backed(t.row, t.was.status, t.was.paid)'
  <2>1. t.row \in Rows /\ t.row <= minted
    BY <1>4 DEF Placed, OnRow
  <2>2. PICK status \in RowStatuses, paid \in 0..Total, r \in Rows :
          status = t.was.status /\ paid = t.was.paid /\ r = t.row
    BY <1>1, <2>1
  <2>3. Backed(r, status, paid) /\ r <= minted
    BY <1>4, <2>1, <2>2 DEF TaskOK
  <2>4. Backed(r, status, paid)'
    BY <2>3, BackedStays
  <2> QED
    BY <2>1, <2>2, <2>4
<1>5. ASSUME t.at = "write"
      PROVE  /\ t.answer.paid <= Got(t.row)'
             /\ t.answer.status = "paid" => rows'[t.row].amount <= Got(t.row)'
  <2>1. PICK r \in Rows : r = t.row /\ r <= minted
    BY <1>4, <1>5
  <2>2. /\ t.answer.paid <= Got(r)
        /\ t.answer.status = "paid" => rows[r].amount <= Got(r)
    BY <1>5, <2>1 DEF TaskOK
  <2>3. /\ Got(r) \in Nat /\ Got(r)' \in Nat /\ Got(r) <= Got(r)'
        /\ rows'[r].amount = rows[r].amount /\ rows[r].amount \in Nat
    BY <2>1, GotGrows, RowFacts
  <2>4. /\ t.answer.paid <= Got(r)'
        /\ t.answer.status = "paid" => rows'[r].amount <= Got(r)'
    BY <1>1, <2>2, <2>3
  <2> QED
    BY <2>1, <2>4
<1>6. t.at = "settle" /\ t.answer.status = "paid" => Settled(t.link)'
  <2> SUFFICES ASSUME t.at = "settle", t.answer.status = "paid" PROVE Settled(t.link)'
    OBVIOUS
  <2>1. PICK l \in Links : l = t.link
    BY <1>1 DEF Placed
  <2>2. Settled(l)
    BY <2>1 DEF TaskOK
  <2>3. Settled(l)'
    BY <2>2, SettledStays
  <2> QED
    BY <2>1, <2>3
<1> QED
  BY <1>2, <1>3, <1>4, <1>5, <1>6 DEF TaskOK

\* A step that touches neither the ledger nor the artifacts keeps the facts if
\* what it leaves its process with is right.
LEMMA MoneyMoves ==
  ASSUME TypeInv, MoneyInv, NEW p \in Procs, Moved(p), LedgerOK',
         \A r \in Rows : r <= minted' => RowOK(r)', TaskOK(p, task[p])'
  PROVE  MoneyInv'
<1>1. \A q \in Procs \ {p} : TaskOK(q, task[q])'
  <2> TAKE q \in Procs \ {p}
  <2>1. task[q] \in TaskType /\ Placed(q, task[q]) /\ TaskOK(q, task[q]) /\ task'[q] = task[q]
    BY DEF TypeInv, TypeOK, MoneyInv, Moved
  <2>2. PICK t \in TaskType : t = task[q]
    BY <2>1
  <2>3. TaskOK(q, t)'
    BY <2>1, <2>2, TaskStays DEF Moved
  <2>4. task'[q] = t
    BY <2>1, <2>2
  <2> QED
    BY <2>3, <2>4
<1> QED
  BY <1>1 DEF MoneyInv

LEMMA BooksStay ==
  ASSUME TypeInv, MoneyInv, TypeInv', Grows, UNCHANGED bookVars
  PROVE  \A r \in Rows : r <= minted' => RowOK(r)'
<1> TAKE r \in Rows
<1> HAVE r <= minted'
<1>1. r <= minted /\ rows'[r] = rows[r]
  OBVIOUS
<1> QED
  BY <1>1, RowStays

LEMMA LedgerStays ==
  ASSUME MoneyInv, UNCHANGED links
  PROVE  LedgerOK'
  BY DEF MoneyInv, LedgerOK

\* The most frequent case of both.
LEMMA MoneyQuiet ==
  ASSUME TypeInv, MoneyInv, NEW p \in Procs, Moved(p), UNCHANGED <<links, bookVars>>,
         TaskOK(p, task[p])'
  PROVE  MoneyInv'
  BY BooksStay, LedgerStays, MoneyMoves DEF Moved

LEMMA IdleOK == \A p \in Procs : TaskOK(p, Idle)'
  BY DEF TaskOK, Idle, NoAnswer

LEMMA RestsOK ==
  ASSUME NEW p \in Procs, task'[p] = Idle
  PROVE  TaskOK(p, task[p])'
  BY IdleOK

\* A process between two artifacts, or at a follow-up, owes nothing.
LEMMA LooseOK ==
  ASSUME NEW p \in Procs \ {"session"},
         task'[p].at \notin {"record", "fetch", "write", "settle"}
  PROVE  TaskOK(p, task[p])'
  BY DEF TaskOK

LEMMA SessionOK ==
  ASSUME TypeInv', task'["session"].at \notin {"record", "fetch", "write", "settle"},
         task'["session"].amount > 0, ~task'["session"].partial => task'["session"].amount = Total,
         task'["session"].link # NoLink =>
           links'[task'["session"].link].amount = task'["session"].amount
  PROVE  TaskOK("session", task["session"])'
  BY DEF TaskOK

LEMMA SessionBusy ==
  ASSUME TypeInv, MoneyInv, ~Free("session")
  PROVE  /\ "session" \in Procs /\ task["session"] \in TaskType
         /\ task["session"].amount \in Nat /\ task["session"].amount > 0
         /\ ~task["session"].partial => task["session"].amount = Total
         /\ task["session"].link # NoLink =>
              /\ task["session"].link \in Links
              /\ links[task["session"].link].amount = task["session"].amount
<1>1. "session" \in Procs
  BY DEF Procs
<1>2. task["session"] \in TaskType /\ TaskOK("session", task["session"])
  BY <1>1 DEF TypeInv, TypeOK, MoneyInv
<1>3. task["session"].amount \in Nat /\ task["session"].link \in Links \cup {NoLink}
  BY <1>2, MoneyAssumption DEF TaskType
<1> QED
  BY <1>1, <1>2, <1>3 DEF TaskOK

LEMMA AskPays ==
  ASSUME TypeInv, MoneyInv, NEW o \in Offers, NEW quiet \in BOOLEAN, Ask(o, quiet)
  PROVE  MoneyInv'
<1> DEFINE t == [Idle EXCEPT !.at = "gate", !.action = o.action, !.kind = o.kind,
                   !.amount = o.amount, !.partial = IsPartialAsk(o.amount, o.action),
                   !.quiet = quiet, !.seen = state]
<1>1. "session" \in Procs /\ Moved("session") /\ UNCHANGED <<links, bookVars>>
  BY AskMoves DEF Ask, Procs
<1>2. task'["session"] = t
  BY <1>1 DEF Ask, TypeInv, TypeOK
<1>3. t.at = "gate" /\ t.amount = o.amount /\ t.link = NoLink
      /\ t.partial = IsPartialAsk(o.amount, o.action)
  BY IdleType DEF Idle
<1>4. o.amount \in Nat /\ o.amount > 0 /\ o.amount <= Total /\ Total \in Nat
  BY OfferTypes, MoneyAssumption
<1>5. ~IsPartialAsk(o.amount, o.action) => o.amount = Total
  BY <1>4 DEF IsPartialAsk
<1> HIDE DEF t
<1>6. TaskOK("session", task["session"])'
  BY <1>1, <1>2, <1>3, <1>4, <1>5, SessionOK DEF Moved
<1> QED
  BY <1>1, <1>6, MoneyQuiet

LEMMA GatePays ==
  ASSUME TypeInv, MoneyInv, NEW p \in {"session", "sweeper"}, Gate(p)
  PROVE  MoneyInv'
<1>1. p \in Procs /\ Moved(p) /\ UNCHANGED <<links, bookVars>>
  BY GateMoves DEF Gate, Procs
<1>2. CASE p = "session"
  <2>1. ~Free("session")
    BY <1>2 DEF Gate
  <2>2. CASE task'[p] = Idle
    BY <1>1, <2>2, RestsOK, MoneyQuiet
  <2>3. CASE task'[p].at = "refuse" /\ task'[p] = [task[p] EXCEPT !.at = "refuse"]
    <3>1. /\ task'[p].amount = task[p].amount /\ task'[p].partial = task[p].partial
          /\ task'[p].link = task[p].link /\ task'[p].at = "refuse"
      BY <1>2, <2>1, <2>3, SessionBusy DEF TaskType
    <3>2. TaskOK("session", task["session"])'
      BY <1>1, <1>2, <2>1, <3>1, SessionBusy, SessionOK DEF Moved
    <3> QED
      BY <1>1, <1>2, <3>2, MoneyQuiet
  <2>4. CASE /\ task'[p].at = "mcp" /\ task'[p].amount = task[p].amount
             /\ task'[p].partial = task[p].partial /\ task'[p].link = NoLink
    <3>1. TaskOK("session", task["session"])'
      BY <1>1, <1>2, <2>1, <2>4, SessionBusy, SessionOK DEF Moved
    <3> QED
      BY <1>1, <1>2, <3>1, MoneyQuiet
  <2> QED
    BY <1>2, <2>2, <2>3, <2>4, GateMoves
<1>3. CASE p = "sweeper"
  <2>1. task[p] \in TaskType
    BY <1>1 DEF TypeInv, TypeOK
  <2>2. task'[p].at \in {"pick", "refuse", "message"}
    BY <1>3, <2>1, GateMoves DEF TaskType
  <2>3. TaskOK(p, task[p])'
    BY <1>1, <1>3, <2>2, LooseOK
  <2> QED
    BY <1>1, <2>3, MoneyQuiet
<1> QED
  BY <1>2, <1>3

LEMMA RefusePays ==
  ASSUME TypeInv, MoneyInv, NEW p \in {"session", "sweeper"}, Refuse(p)
  PROVE  MoneyInv'
<1>1. p \in Procs /\ Moved(p) /\ UNCHANGED <<links, bookVars>>
  BY RefuseMoves DEF Refuse, Procs
<1>2. TaskOK(p, task[p])'
  <2>1. CASE p = "session"
    BY <1>1, <2>1, RefuseMoves, RestsOK
  <2>2. CASE p = "sweeper"
    BY <1>1, <2>2, RefuseMoves, LooseOK
  <2> QED
    BY <2>1, <2>2
<1> QED
  BY <1>1, <1>2, MoneyQuiet

\* A transport either makes a link of the amount asked for or makes none.
LEMMA TransportPays ==
  ASSUME TypeInv, MoneyInv, NEW p \in {"session", "desk"}, AskMcp(p) \/ AskSdk(p)
  PROVE  MoneyInv'
<1>1. p \in Procs /\ Moved(p) /\ UNCHANGED bookVars /\ task[p] \in TaskType /\ ~Free(p)
  BY AskMcpMoves, AskSdkMoves, MintedStep DEF AskMcp, AskSdk, TypeInv, TypeOK
<1>2. /\ task[p].partial \in BOOLEAN /\ task[p].amount \in Nat /\ Total \in Nat
      /\ \A l \in Links : links[l].amount \in Nat /\ links[l].paid \in Nat
  BY <1>1, MoneyAssumption DEF TaskType, TypeInv, TypeOK, LinkType
<1>3. \/ UNCHANGED links
      \/ \E partial \in BOOLEAN : \E next \in {"sdk", Minted(p)} : Create(p, partial, next)
  BY <1>2 DEF AskMcp, AskSdk
<1>4. UNCHANGED <<fixed, bookVars, caseVars, session, forced, chases, faults>>
  BY DEF AskMcp, AskSdk
<1>5. LedgerOK'
  <2>1. CASE UNCHANGED links
    BY <2>1, LedgerStays
  <2>2. ASSUME NEW partial \in BOOLEAN, NEW next \in {"sdk", Minted(p)},
               Create(p, partial, next)
        PROVE  LedgerOK'
    <3>1. /\ links'[made + 1] = [amount |-> task[p].amount, partial |-> partial,
                                 expires |-> partial, paid |-> 0, state |-> "open"]
          /\ \A l \in Links : l # made + 1 => links'[l] = links[l]
      BY <1>4, <2>2, LedgerGrows
    <3>2. links'[made + 1].paid <= links'[made + 1].amount
      BY <1>2, <3>1
    <3> QED
      BY <3>1, <3>2 DEF LedgerOK, MoneyInv
  <2> QED
    BY <1>3, <2>1, <2>2
<1>6. TaskOK(p, task[p])'
  <2>1. /\ Minted(p) \in {"remember", "cancel"}
        /\ \/ task'[p] = [task[p] EXCEPT !.at = Minted(p), !.link = made + 1]
           \/ \E s \in {"sdk", Minted(p)} : task'[p] = [task[p] EXCEPT !.at = s]
    BY AskMcpMoves, AskSdkMoves, MintedStep
  <2>2. /\ task'[p].at \in {"sdk", "remember", "cancel"} /\ task'[p].amount = task[p].amount
        /\ task'[p].partial = task[p].partial /\ task'[p].link \in {made + 1, task[p].link}
    BY <1>1, <2>1 DEF TaskType
  <2>3. CASE p = "desk"
    BY <1>1, <2>2, <2>3, LooseOK
  <2>4. CASE p = "session" /\ task'[p].link = task[p].link
    <3>1. task[p].link # NoLink => links'[task[p].link].amount = task[p].amount
      BY <1>1, <2>4, SessionBusy DEF Moved, Grows
    <3>2. TaskOK("session", task["session"])'
      BY <1>1, <2>2, <2>4, <3>1, SessionBusy, SessionOK DEF Moved
    <3> QED
      BY <2>4, <3>2
  <2>5. CASE p = "session" /\ task'[p].link = made + 1 /\ task'[p].link # task[p].link
    <3>1. task'[p] = [task[p] EXCEPT !.at = Minted(p), !.link = made + 1]
      BY <1>1, <2>1, <2>5 DEF TaskType
    <3>2. \E partial \in BOOLEAN : \E next \in {"sdk", Minted(p)} : Create(p, partial, next)
      <4>1. \A s : Goto(p, s) => task'[p].link = task[p].link
        BY <1>1 DEF TypeInv, TypeOK, TaskType
      <4> QED
        BY <1>2, <2>5, <4>1 DEF AskMcp, AskSdk
    <3>3. links'[made + 1].amount = task[p].amount
      <4>1. PICK partial \in BOOLEAN, next \in {"sdk", Minted(p)} : Create(p, partial, next)
        BY <3>2
      <4>2. links'[made + 1] = [amount |-> task[p].amount, partial |-> partial,
                                expires |-> partial, paid |-> 0, state |-> "open"]
        BY <1>4, <4>1, LedgerGrows
      <4> QED
        BY <4>2
    <3>4. TaskOK("session", task["session"])'
      BY <1>1, <2>2, <2>5, <3>3, SessionBusy, SessionOK DEF Moved
    <3> QED
      BY <2>5, <3>4
  <2> QED
    BY <2>2, <2>3, <2>4, <2>5
<1> QED
  BY <1>1, <1>5, <1>6, BooksStay, MoneyMoves DEF Moved

\* The links of the artifacts a mint replaces are cancelled before any of the
\* artifacts is closed.
LEMMA CancelPays ==
  ASSUME TypeInv, MoneyInv, CancelPrior
  PROVE  MoneyInv'
<1>1. PICK done \in SUBSET Links : CancelAll(Active, done)
  BY DEF CancelPrior
<1>2. /\ Moved("session")
      /\ \A l \in Links : /\ links'[l].amount = links[l].amount
                          /\ links'[l].paid = links[l].paid
                          /\ l \in done => links'[l].state = "cancelled" /\ Live(l)
      /\ \/ task'["session"] = Idle
         \/ /\ task'["session"] = [task["session"] EXCEPT !.at = "record", !.prior = Active]
            /\ done = {rows[r].link : r \in Active} \ {NoLink}
  BY <1>1, CancelMoves DEF CancelPrior
<1>3. "session" \in Procs /\ UNCHANGED bookVars /\ ~Free("session")
  BY DEF Procs, CancelPrior
<1>4. LedgerOK'
  BY <1>2 DEF LedgerOK, MoneyInv
<1>5. TaskOK("session", task["session"])'
  <2>1. CASE task'["session"] = Idle
    BY <1>3, <2>1, RestsOK
  <2>2. CASE /\ task'["session"] = [task["session"] EXCEPT !.at = "record", !.prior = Active]
             /\ done = {rows[r].link : r \in Active} \ {NoLink}
    <3>1. /\ task'["session"].at = "record" /\ task'["session"].prior = Active
          /\ task'["session"].amount = task["session"].amount
          /\ task'["session"].partial = task["session"].partial
          /\ task'["session"].link = task["session"].link
      BY <1>3, <2>2, SessionBusy DEF TaskType
    <3>2. \A r \in Active : Barred(r)'
      <4> TAKE r \in Active
      <4>1. r \in Rows /\ rows[r].link \in Links \cup {NoLink} /\ rows'[r] = rows[r]
        BY <1>3 DEF Active, TypeInv, TypeOK, RowType
      <4>2. CASE rows[r].link = NoLink
        BY <4>1, <4>2 DEF Barred, Real
      <4>3. CASE rows[r].link # NoLink
        <5>1. PICK l \in Links : l = rows[r].link
          BY <4>1, <4>3
        <5>2. l \in done
          BY <2>2, <4>3, <5>1
        <5>3. links'[l].state = "cancelled" /\ ~Settled(l)'
          BY <1>2, <5>2 DEF Live, Settled
        <5> QED
          BY <4>1, <5>1, <5>3 DEF Barred, Settled
      <4> QED
        BY <4>2, <4>3
    <3>3. task["session"].link # NoLink =>
            links'[task["session"].link].amount = task["session"].amount
      BY <1>2, <1>3, SessionBusy
    <3> QED
      BY <1>3, <3>1, <3>2, <3>3, SessionBusy DEF TaskOK
  <2> QED
    BY <1>2, <2>1, <2>2
<1> QED
  BY <1>2, <1>3, <1>4, <1>5, BooksStay, MoneyMoves DEF Moved

LEMMA RecordPays ==
  ASSUME TypeInv, MoneyInv, Record
  PROVE  MoneyInv'
<1> DEFINE t == task["session"]
<1>1. /\ Moved("session") /\ task'["session"] = [t EXCEPT !.at = "book"]
      /\ minted + 1 \in Rows /\ minted' = minted + 1 /\ UNCHANGED <<links, forced>>
      /\ ~Free("session") /\ t.at = "record"
  BY RecordMoves DEF Record
<1>2. /\ rows'[minted + 1] =
           [link |-> t.link, kind |-> t.kind, amount |-> t.amount, partial |-> t.partial,
            status |-> "CREATED", paid |-> 0, overdue |-> FALSE, followed |-> FALSE]
      /\ \A r \in Rows : r <= minted =>
           rows'[r] = IF r \in t.prior THEN [rows[r] EXCEPT !.status = "CLOSED"] ELSE rows[r]
  BY RecordMoves
<1>3. /\ t \in TaskType /\ t.amount \in Nat /\ t.amount > 0 /\ (~t.partial => t.amount = Total)
      /\ t.link # NoLink => t.link \in Links /\ links[t.link].amount = t.amount
  BY <1>1, SessionBusy
<1>4. minted \in Nat /\ TypeInv' /\ Grows /\ \A r \in t.prior : Barred(r)
  BY <1>1, MoneyAssumption DEF TypeInv, TypeOK, Moved, MoneyInv, TaskOK, Procs
<1>5. ASSUME NEW r \in Rows, r <= minted
      PROVE  RowOK(r)'
  <2>1. CASE r \notin t.prior
    <3>1. rows'[r] = rows[r]
      BY <1>2, <1>5, <2>1
    <3> QED
      BY <1>4, <1>5, <3>1, RowStays
  <2>2. CASE r \in t.prior
    <3>1. rows[r] \in RowType /\ RowOK(r) /\ Barred(r)
      BY <1>4, <1>5, <2>2 DEF TypeInv, TypeOK, MoneyInv
    <3>2. /\ rows'[r].status = "CLOSED" /\ rows'[r].paid = rows[r].paid
          /\ rows[r].paid \in 0..Total
      BY <1>2, <1>5, <2>2, <3>1 DEF RowType
    <3>3. Barred(r)'
      BY <1>4, <1>5, <3>1, BarredStays
    <3>4. PICK paid \in 0..Total : paid = rows[r].paid
      BY <3>2
    <3>5. Backed(r, "CLOSED", paid)
      BY <3>1, <3>4 DEF RowOK, Backed
    <3>6. Backed(r, "CLOSED", paid)'
      BY <1>4, <1>5, <3>5, BackedStays DEF RowStatuses
    <3>7. Backed(r, rows[r].status, rows[r].paid)'
      BY <3>2, <3>4, <3>6 DEF Backed
    <3> QED
      BY <1>4, <1>5, <3>1, <3>3, <3>7, RowFacts DEF RowOK, Real
  <2> QED
    BY <2>1, <2>2
<1>6. ASSUME NEW n \in Rows, n = minted + 1
      PROVE  RowOK(n)'
  <2>2. /\ rows'[n].amount = t.amount /\ rows'[n].partial = t.partial
        /\ rows'[n].link = t.link /\ rows'[n].status = "CREATED" /\ rows'[n].paid = 0
    BY <1>2, <1>6
  <2>3. t.link # NoLink => links'[t.link].amount = t.amount /\ links'[t.link].paid \in Nat
    BY <1>1, <1>3, MoneyAssumption DEF TypeInv, TypeOK, LinkType
  <2>4. 0 <= Got(n)'
    BY <2>2, <2>3 DEF Got
  <2>5. Backed(n, rows[n].status, rows[n].paid)'
    BY <2>2, <2>4 DEF Backed
  <2> QED
    BY <1>3, <2>2, <2>3, <2>5 DEF RowOK, Real
<1>7. \A r \in Rows : r <= minted' => RowOK(r)'
  <2> SUFFICES ASSUME NEW r \in Rows, r <= minted + 1 PROVE RowOK(r)'
    BY <1>1
  <2>1. r <= minted \/ r = minted + 1
    BY <1>4
  <2> QED
    BY <1>5, <1>6, <2>1
<1>8. TaskOK("session", task["session"])'
  <2>1. /\ task'["session"].at = "book" /\ task'["session"].amount = t.amount
        /\ task'["session"].partial = t.partial /\ task'["session"].link = t.link
    BY <1>1, <1>3 DEF TaskType
  <2>2. t.link # NoLink => links'[t.link].amount = t.amount
    BY <1>1, <1>3
  <2> HIDE DEF t
  <2> QED
    BY <1>3, <1>4, <2>1, <2>2, SessionOK
<1> QED
  BY <1>1, <1>7, <1>8, LedgerStays, MoneyMoves DEF Procs

LEMMA BookPays ==
  ASSUME TypeInv, MoneyInv, Book \/ Tell
  PROVE  MoneyInv'
<1>1. /\ "session" \in Procs /\ Moved("session") /\ UNCHANGED <<links, bookVars>>
      /\ ~Free("session")
  BY BookMoves, TellMoves DEF Procs, Book, Tell
<1>2. CASE Tell
  BY <1>1, <1>2, TellMoves, RestsOK, MoneyQuiet
<1>3. CASE Book
  <2>1. /\ task'["session"].at = "tell" /\ task'["session"].amount = task["session"].amount
        /\ task'["session"].partial = task["session"].partial
        /\ task'["session"].link = task["session"].link
    BY <1>1, <1>3, BookMoves, SessionBusy DEF TaskType
  <2>2. TaskOK("session", task["session"])'
    BY <1>1, <2>1, SessionBusy, SessionOK DEF Moved
  <2> QED
    BY <1>1, <2>2, MoneyQuiet
<1> QED
  BY <1>2, <1>3

LEMMA DeskPays ==
  ASSUME TypeInv, MoneyInv, DeskLink \/ Remember \/ DeskStatus \/ CloseByStatus
  PROVE  MoneyInv'
<1>1. "desk" \in Procs /\ Moved("desk") /\ UNCHANGED <<links, bookVars>>
  BY DeskLinkMoves, RememberMoves, DeskStatusMoves, CloseByStatusMoves
     DEF Procs, DeskLink, Remember, DeskStatus, CloseByStatus
<1>2. TaskOK("desk", task["desk"])'
  <2>1. CASE Remember \/ CloseByStatus
    BY <1>1, <2>1, RememberMoves, CloseByStatusMoves, RestsOK
  <2>2. CASE DeskLink \/ DeskStatus
    BY <1>1, <2>2, DeskLinkMoves, DeskStatusMoves, LooseOK
  <2> QED
    BY <2>1, <2>2
<1> QED
  BY <1>1, <1>2, MoneyQuiet

LEMMA StatusPays ==
  ASSUME TypeInv, MoneyInv, StatusAnswered
  PROVE  MoneyInv'
<1>1. "desk" \in Procs /\ Moved("desk") /\ UNCHANGED <<links, bookVars>>
  BY StatusAnsweredMoves DEF Procs, StatusAnswered
<1>2. PICK a \in Answers(task["desk"].link) :
        task'["desk"] = [task["desk"] EXCEPT !.at = "settle", !.answer = a]
  BY StatusAnsweredMoves
<1>3. PICK l \in Links : l = task["desk"].link
  BY StatusAnsweredMoves
<1>4. a.status = "paid" => Settled(l)
  BY <1>2, <1>3, AnswersType
<1>5. task["desk"] \in TaskType
  BY <1>1 DEF TypeInv, TypeOK
<1>6. /\ task'["desk"].at = "settle" /\ task'["desk"].answer = a
      /\ task'["desk"].link = l
  BY <1>2, <1>3, <1>5 DEF TaskType
<1>7. a.status = "paid" => Settled(l)'
  BY <1>1, <1>4 DEF Settled
<1>8. TaskOK("desk", task["desk"])'
  BY <1>6, <1>7 DEF TaskOK
<1> QED
  BY <1>1, <1>8, MoneyQuiet

\* Loading an artifact: what is shown as paid has arrived.
LEMMA LoadsOK ==
  ASSUME TypeInv, MoneyInv, NEW p \in {"desk", "poller", "sweeper"}, Moved(p),
         UNCHANGED <<links, bookVars, forced>>,
         task'[p].at = "fetch", task'[p].row \in Rows, task'[p].row <= minted,
         task'[p].was = [status |-> rows[task'[p].row].status,
                         paid |-> rows[task'[p].row].paid]
  PROVE  TaskOK(p, task[p])'
<1>1. PICK r \in Rows : r = task'[p].row
  OBVIOUS
<1>2. RowOK(r)
  BY <1>1 DEF MoneyInv
<1>3. Backed(r, rows[r].status, rows[r].paid)'
  BY <1>2 DEF RowOK, Backed, Got
<1>4. rows' = rows /\ task'[p].was.status = rows[r].status /\ task'[p].was.paid = rows[r].paid
  BY <1>1
<1>5. Backed(task[p].row, task[p].was.status, task[p].was.paid)'
  BY <1>1, <1>3, <1>4
<1> QED
  BY <1>5 DEF TaskOK

LEMMA CheckLatestPays ==
  ASSUME TypeInv, MoneyInv, CheckLatest
  PROVE  MoneyInv'
<1>1. "desk" \in Procs /\ Moved("desk") /\ UNCHANGED <<links, bookVars, forced>>
  BY CheckLatestMoves DEF Procs, CheckLatest
<1>2. minted \in Rows /\ minted <= minted
  BY MoneyAssumption DEF CheckLatest, TypeInv, TypeOK
<1>3. TaskOK("desk", task["desk"])'
  BY <1>1, <1>2, CheckLatestMoves, LoadsOK
<1> QED
  BY <1>1, <1>3, MoneyQuiet

LEMMA LoopPays ==
  ASSUME TypeInv, MoneyInv, NEW p \in {"poller", "sweeper"},
         \/ p = "poller" /\ Poll
         \/ p = "sweeper" /\ \E quiet \in BOOLEAN : Tick(quiet)
         \/ Pick(p)
  PROVE  MoneyInv'
<1>1. p \in Procs /\ Moved(p) /\ UNCHANGED <<links, bookVars, forced>>
  BY PollMoves, TickMoves, PickMoves DEF Procs, Poll, Tick, Pick
<1>2. TaskOK(p, task[p])'
  <2>1. CASE task'[p].at = "pick" \/ task'[p].at = "check"
    BY <1>1, <2>1, LooseOK
  <2>2. CASE task'[p] = Idle
    BY <1>1, <2>2, RestsOK
  <2>3. CASE Pick(p) /\ task'[p] # Idle /\ task'[p].at = "fetch"
    <3>1. /\ task'[p].row \in task[p].todo
          /\ task'[p].was = [status |-> rows[task'[p].row].status,
                             paid |-> rows[task'[p].row].paid]
      BY <2>3, PickMoves
    <3>2. task'[p].row \in Rows /\ task'[p].row <= minted
      BY <1>1, <3>1 DEF TypeInv, TypeOK, TaskType, Placed
    <3> QED
      BY <1>1, <2>3, <3>1, <3>2, LoadsOK
  <2> QED
    BY <2>1, <2>2, <2>3, PollMoves, TickMoves, PickMoves
<1> QED
  BY <1>1, <1>2, MoneyQuiet

\* An answer of the gateway never claims more than has arrived.
LEMMA FetchPays ==
  ASSUME TypeInv, MoneyInv, NEW p \in {"desk", "poller", "sweeper"},
         FetchNothing(p) \/ \E r \in Rows : FetchAnswered(p, r)
  PROVE  /\ MoneyInv' /\ Moved(p) /\ task'[p].at = "write"
         /\ task'[p].row = task[p].row /\ task'[p].was = task[p].was
         /\ task'[p].settled = task[p].settled /\ task'[p].todo = task[p].todo
         /\ \/ task'[p].answer.status = "none"
            \/ /\ rows[task[p].row].link \in Links
               /\ Settled(rows[task[p].row].link) => task'[p].answer.status = "paid"
<1>1. /\ p \in Procs /\ task[p] \in TaskType /\ Placed(p, task[p]) /\ TaskOK(p, task[p])
  BY Reconcilers DEF TypeInv, TypeOK, MoneyInv
<1>2. /\ task[p].at = "fetch" /\ UNCHANGED <<links, bookVars, forced>>
  BY DEF FetchNothing, FetchAnswered, FetchAs
<1>3. PICK r \in Rows : r = task[p].row /\ r <= minted /\ Real(r) /\ rows[r].link \in Links
  BY <1>1, <1>2 DEF Placed, OnRow, Real, TypeInv, TypeOK, RowType
<1>4. PICK a \in Answers(rows[r].link) : FetchAs(p, a)
  BY <1>3 DEF FetchNothing, FetchAnswered, Answers
<1>5. /\ a \in AnswerType /\ a.paid <= links[rows[r].link].paid
      /\ a.status = "paid" => Settled(rows[r].link)
      /\ a # NoAnswer => (Settled(rows[r].link) => a.status = "paid")
  BY <1>3, AnswersType
<1>6. Moved(p) /\ task'[p] = [task[p] EXCEPT !.at = "write", !.answer = a]
  BY <1>4, <1>5, FetchMoves
<1>7. /\ task'[p].at = "write" /\ task'[p].answer = a /\ task'[p].row = r
      /\ task'[p].was = task[p].was /\ task'[p].settled = task[p].settled
      /\ task'[p].todo = task[p].todo
  BY <1>1, <1>3, <1>6 DEF TaskType
<1>8. Backed(r, task[p].was.status, task[p].was.paid)
  BY <1>1, <1>2, <1>3 DEF TaskOK
<1>9. /\ a.paid <= Got(r)
      /\ a.status = "paid" => rows[r].amount <= Got(r)
  <2>1. Got(r) = links[rows[r].link].paid /\ links[rows[r].link].amount = rows[r].amount
    BY <1>3 DEF Got, Real, MoneyInv, RowOK
  <2>2. links[rows[r].link].paid \in Nat /\ rows[r].amount \in Nat
    <3>1. links[rows[r].link] \in LinkType /\ rows[r] \in RowType
      BY <1>3 DEF TypeInv, TypeOK
    <3> QED
      BY <3>1, MoneyAssumption DEF LinkType, RowType
  <2> QED
    BY <1>5, <2>1, <2>2 DEF Settled
<1>10. TaskOK(p, task[p])'
  <2>1. Backed(task[p].row, task[p].was.status, task[p].was.paid)'
    <3>1. PICK w : w = task[p].was
      OBVIOUS
    <3>2. Backed(r, w.status, w.paid)'
      BY <1>2, <1>8, <3>1 DEF Backed, Got
    <3> QED
      BY <1>7, <3>1, <3>2
  <2>2. /\ task'[p].answer.paid <= Got(task[p].row)'
        /\ task'[p].answer.status = "paid" => rows'[r].amount <= Got(task[p].row)'
    <3>1. Got(r)' = Got(r)
      BY <1>2 DEF Got
    <3>2. Got(task[p].row)' = Got(r)'
      BY <1>7
    <3> QED
      BY <1>2, <1>7, <1>9, <3>1, <3>2
  <2> QED
    BY <1>7, <2>1, <2>2 DEF TaskOK
<1>11. MoneyInv'
  BY <1>1, <1>2, <1>6, <1>10, MoneyQuiet
<1>12. \/ task'[p].answer.status = "none"
       \/ /\ rows[task[p].row].link \in Links
          /\ Settled(rows[task[p].row].link) => task'[p].answer.status = "paid"
  BY <1>3, <1>5, <1>7 DEF NoAnswer
<1> QED
  BY <1>3, <1>6, <1>7, <1>11, <1>12

\* What a reconciliation makes of backed facts is backed.
LEMMA ReconciledBacked ==
  ASSUME NEW amount \in Nat, NEW got \in Nat, NEW old, NEW a \in AnswerType,
         old.paid \in Nat, old.paid <= got, old.status = "PAID" => amount <= got,
         a.paid <= got, a.status = "paid" => amount <= got,
         old \in [status : RowStatuses, paid : 0..Total]
  PROVE  LET new == Reconciled(amount, old, a)
         IN /\ new.paid <= got /\ (new.status = "PAID" => amount <= got)
            /\ new.status = "CLOSED" => old.status = "CLOSED"
<1> DEFINE new == Reconciled(amount, old, a)
<1>1. a.paid \in Nat
  BY MoneyAssumption DEF AnswerType
<1>2. CASE a.status = "paid"
  <2>1. new = [status |-> "PAID", paid |-> amount]
    BY <1>2 DEF Reconciled
  <2> QED
    BY <1>2, <2>1
<1>3. CASE a.status # "paid" /\ a.paid > 0
  <2>1. new = [status |-> IF a.paid >= amount THEN "PAID" ELSE "PARTIALLY_PAID",
               paid |-> a.paid]
    BY <1>1, <1>3 DEF Reconciled
  <2> QED
    BY <1>1, <1>3, <2>1
<1>4. CASE a.status = "expired" /\ a.paid = 0
  <2>1. new = [old EXCEPT !.status = "EXPIRED"]
    BY <1>1, <1>4 DEF Reconciled
  <2> QED
    BY <2>1
<1>5. CASE a.status \notin {"paid", "expired"} /\ a.paid = 0
  <2>1. new = old
    BY <1>1, <1>5 DEF Reconciled
  <2> QED
    BY <2>1
<1> QED
  BY <1>1, <1>2, <1>3, <1>4, <1>5

LEMMA WritePays ==
  ASSUME TypeInv, MoneyInv, NEW p \in {"desk", "poller", "sweeper"}, Write(p)
  PROVE  MoneyInv'
<1>1. /\ p \in Procs /\ task[p] \in TaskType /\ TaskOK(p, task[p]) /\ task[p].at = "write"
      /\ Moved(p) /\ UNCHANGED <<links, minted, forced>>
  BY Reconcilers, WriteMoves DEF TypeInv, TypeOK, MoneyInv, Write
<1>2. PICK r \in Rows : r = task[p].row /\ r <= minted
  BY WriteMoves
<1>3. PICK old \in [status : RowStatuses, paid : 0..Total], a \in AnswerType :
        old = task[p].was /\ a = task[p].answer
  BY <1>1 DEF TaskType
<1>4. PICK new \in [status : RowStatuses, paid : 0..Total] :
        new = Reconciled(rows[r].amount, old, a)
  BY <1>2, <1>3, WriteMoves
<1>5. /\ rows'[r] = [rows[r] EXCEPT !.status = Flush(old.status, new.status, @),
                                    !.paid   = Flush(old.paid, new.paid, @)]
      /\ \A q \in Rows : q # r => rows'[q] = rows[q]
  BY <1>2, <1>3, <1>4, WriteMoves
<1>6. /\ rows[r] \in RowType /\ RowOK(r) /\ rows[r].amount \in Nat /\ Got(r) \in Nat
      /\ TypeInv' /\ Grows /\ minted \in Nat
  <2>1. rows[r] \in RowType /\ minted \in Nat
    BY MoneyAssumption DEF TypeInv, TypeOK
  <2>2. TypeInv' /\ Grows
    BY <1>1 DEF Moved
  <2>3. RowOK(r)
    BY <1>2 DEF MoneyInv
  <2> QED
    BY <1>2, <2>1, <2>2, <2>3, GotGrows, RowFacts
<1>7. /\ Backed(r, old.status, old.paid) /\ a.paid <= Got(r)
      /\ a.status = "paid" => rows[r].amount <= Got(r)
  BY <1>1, <1>2, <1>3 DEF TaskOK
<1>8. /\ new.status = "CLOSED" => old.status = "CLOSED"
      /\ Backed(r, new.status, new.paid)
  <2>1. CASE r \in forced
    <3>1. \/ new.status \in {"PAID", "PARTIALLY_PAID", "EXPIRED"}
          \/ new.status = old.status
      <4>1. /\ a.paid \in Nat
        BY MoneyAssumption DEF AnswerType
      <4>2. a.paid > 0 => a.paid # 0
        BY <4>1
      <4> QED
        BY <1>4, <4>1, <4>2 DEF Reconciled
    <3> QED
      BY <2>1, <3>1 DEF Backed
  <2>2. CASE r \notin forced
    <3>1. PICK got \in Nat, amount \in Nat : got = Got(r) /\ amount = rows[r].amount
      BY <1>6
    <3>2. /\ old.paid \in Nat /\ old.paid <= got /\ (old.status = "PAID" => amount <= got)
          /\ a.paid <= got /\ (a.status = "paid" => amount <= got)
      BY <1>7, <2>2, <3>1, MoneyAssumption DEF Backed
    <3>3. /\ new.paid <= got /\ (new.status = "PAID" => amount <= got)
          /\ new.status = "CLOSED" => old.status = "CLOSED"
      BY <1>4, <3>1, <3>2, ReconciledBacked
    <3> QED
      BY <3>1, <3>3 DEF Backed
  <2> QED
    BY <2>1, <2>2
<1>9. PICK status \in RowStatuses, paid \in 0..Total :
        status = rows'[r].status /\ paid = rows'[r].paid
  BY <1>6, <1>2 DEF TypeInv, TypeOK, RowType
<1>10. /\ status \in {rows[r].status, new.status} /\ paid \in {rows[r].paid, new.paid}
       /\ status = "CLOSED" => rows[r].status = "CLOSED"
  BY <1>5, <1>6, <1>8, <1>9 DEF Flush, RowType
<1>11. Backed(r, status, paid)
  BY <1>6, <1>8, <1>10 DEF Backed, RowOK
<1>12. RowOK(r)'
  <2>1. Backed(r, status, paid)'
    BY <1>2, <1>6, <1>11, BackedStays
  <2>2. Backed(r, rows[r].status, rows[r].paid)'
    BY <1>9, <2>1 DEF Backed
  <2>3. rows'[r].status = "CLOSED" => Barred(r)'
    BY <1>2, <1>6, <1>9, <1>10, BarredStays DEF RowOK
  <2> QED
    BY <1>2, <1>6, <2>2, <2>3, RowFacts DEF RowOK, Real
<1>13. \A q \in Rows : q <= minted' => RowOK(q)'
  <2> SUFFICES ASSUME NEW q \in Rows, q <= minted PROVE RowOK(q)'
    BY <1>1
  <2>1. CASE q = r
    BY <1>12, <2>1
  <2>2. CASE q # r
    BY <1>5, <1>6, <2>2, RowStays
  <2> QED
    BY <2>1, <2>2
<1>14. TaskOK(p, task[p])'
  <2>1. task'[p].at = "apply"
    BY <1>1, WriteMoves DEF TaskType
  <2> QED
    BY <1>1, <2>1, LooseOK DEF Procs
<1> QED
  BY <1>1, <1>13, <1>14, LedgerStays, MoneyMoves

LEMMA SimulatePays ==
  ASSUME TypeInv, MoneyInv, NEW r \in Rows, Simulate(r)
  PROVE  MoneyInv'
<1>1. /\ Moved("desk") /\ r \in forced' /\ r <= minted /\ rows'[r].status = "PAID"
      /\ \A q \in Rows : q # r => rows'[q] = rows[q]
      /\ task'["desk"].at = "apply" /\ "desk" \in Procs
      /\ TypeInv' /\ Grows /\ UNCHANGED <<links, minted>>
  BY SimulateMoves DEF Moved, Procs, Simulate
<1>2. RowOK(r)'
  <2>1. RowOK(r)
    BY <1>1 DEF MoneyInv
  <2>2. Backed(r, rows[r].status, rows[r].paid)'
    BY <1>1 DEF Backed
  <2> QED
    BY <1>1, <2>1, <2>2, RowFacts DEF RowOK, Real
<1>3. \A q \in Rows : q <= minted' => RowOK(q)'
  <2> SUFFICES ASSUME NEW q \in Rows, q <= minted PROVE RowOK(q)'
    BY <1>1
  <2>1. CASE q = r
    BY <1>2, <2>1
  <2>2. CASE q # r
    BY <1>1, <2>2, RowStays
  <2> QED
    BY <2>1, <2>2
<1>4. TaskOK("desk", task["desk"])'
  BY <1>1, LooseOK
<1> QED
  BY <1>1, <1>3, <1>4, LedgerStays, MoneyMoves

LEMMA LaterPays ==
  ASSUME TypeInv, MoneyInv, NEW p \in {"desk", "poller", "sweeper"},
         \/ Apply(p)
         \/ p # "sweeper" /\ Announce(p)
         \/ p = "sweeper" /\ (Check \/ Message)
  PROVE  MoneyInv'
<1>1. p \in Procs /\ task[p] \in TaskType
  BY Reconcilers DEF TypeInv, TypeOK
<1>2. Moved(p) /\ UNCHANGED <<links, bookVars>>
  BY ApplyMoves, AnnounceMoves, CheckMoves, MessageMoves DEF Apply, Announce, Check, Message
<1>3. TaskOK(p, task[p])'
  <2>1. CASE task'[p] = Idle
    BY <1>1, <2>1, RestsOK
  <2>2. CASE task'[p] # Idle
    <3>1. task'[p].at \in {"check", "announce", "pick", "gate", "mark"}
      <4>1. CASE Apply(p)
        BY <1>1, <4>1, ApplyMoves DEF TaskType
      <4>2. CASE p # "sweeper" /\ Announce(p)
        BY <1>1, <2>2, <4>2, AnnounceMoves
      <4>3. CASE p = "sweeper" /\ (Check \/ Message)
        BY <1>1, <4>3, CheckMoves, MessageMoves DEF TaskType
      <4> QED
        BY <4>1, <4>2, <4>3
    <3> QED
      BY <1>1, <3>1, LooseOK DEF Procs
  <2> QED
    BY <2>1, <2>2
<1> QED
  BY <1>1, <1>2, <1>3, MoneyQuiet

LEMMA MarkPays ==
  ASSUME TypeInv, MoneyInv, Mark
  PROVE  MoneyInv'
<1>1. /\ "sweeper" \in Procs /\ Moved("sweeper") /\ task'["sweeper"].at = "pick"
      /\ TypeInv' /\ Grows /\ UNCHANGED <<links, minted>>
  BY MarkMoves DEF Moved, Procs, Mark
<1>2. \A q \in Rows : /\ rows'[q].status = rows[q].status
                      /\ rows'[q].paid = rows[q].paid
  <2> TAKE q \in Rows
  <2>1. rows[q] \in RowType
    BY DEF TypeInv, TypeOK
  <2>2. rows'[q] = rows[q] \/ rows'[q] = [rows[q] EXCEPT !.followed = TRUE]
    BY MarkMoves
  <2> QED
    BY <2>1, <2>2 DEF RowType
<1>3. \A q \in Rows : q <= minted' => RowOK(q)'
  BY <1>1, <1>2, RowStays
<1>4. TaskOK("sweeper", task["sweeper"])'
  BY <1>1, LooseOK
<1> QED
  BY <1>1, <1>3, <1>4, LedgerStays, MoneyMoves

LEMMA FailPays ==
  ASSUME TypeInv, MoneyInv, Faults
  PROVE  MoneyInv'
<1>1. ASSUME NEW p \in Procs, Fail(p) PROVE MoneyInv'
  <2>1. Moved(p) /\ UNCHANGED <<links, bookVars>> /\ task'[p] = Idle
    BY <1>1, FailMoves DEF Fail
  <2> QED
    BY <2>1, RestsOK, MoneyQuiet
<1>2. CASE Crash
  <2>1. TypeInv' /\ Grows /\ UNCHANGED <<links, bookVars>> /\ \A p \in Procs : task'[p] = Idle
    BY <1>2, CrashMoves DEF Crash
  <2>2. \A p \in Procs : TaskOK(p, task[p])'
    BY <2>1, RestsOK
  <2> QED
    BY <2>1, <2>2, BooksStay, LedgerStays DEF MoneyInv
<1> QED
  BY <1>1, <1>2 DEF Faults

\* What happens outside changes no task: money arrives, links and deadlines run
\* out.
LEMMA OutsidePays ==
  ASSUME TypeInv, MoneyInv, TypeInv', Grows, LedgerOK', UNCHANGED <<task, minted>>,
         \A r \in Rows : rows'[r].status = rows[r].status /\ rows'[r].paid = rows[r].paid
  PROVE  MoneyInv'
<1>1. \A r \in Rows : r <= minted' => RowOK(r)'
  BY RowStays
<1>2. "desk" \in Procs /\ \A p \in Procs : TaskOK(p, task[p])'
  <2> SUFFICES ASSUME NEW p \in Procs PROVE TaskOK(p, task[p])'
    BY DEF Procs
  <2>1. PICK t \in TaskType : t = task[p]
    BY DEF TypeInv, TypeOK
  <2>2. Placed(p, t) /\ TaskOK(p, t)
    BY <2>1 DEF TypeInv, MoneyInv
  <2>3. TaskOK(p, t)'
    BY <2>2, TaskStays
  <2> QED
    BY <2>1, <2>3
<1> QED
  BY <1>1, <1>2 DEF MoneyInv

LEMMA WorldPays ==
  ASSUME TypeInv, MoneyInv, World
  PROVE  MoneyInv'
<1>1. ASSUME NEW l \in Links, NEW x \in 1..Total, Pay(l, x) PROVE MoneyInv'
  <2>1. /\ TypeInv' /\ Grows /\ links'[l].paid <= links'[l].amount
        /\ \A k \in Links : k # l => links'[k] = links[k]
    BY <1>1, PayMoves
  <2>2. LedgerOK'
    BY <2>1 DEF LedgerOK, MoneyInv
  <2> QED
    BY <1>1, <2>1, <2>2, OutsidePays DEF Pay
<1>2. ASSUME NEW l \in Links, Expire(l) PROVE MoneyInv'
  <2>1. /\ TypeInv' /\ Grows
        /\ \A k \in Links : links'[k].paid = links[k].paid /\ links'[k].amount = links[k].amount
    BY <1>2, ExpireMoves
  <2>2. LedgerOK'
    BY <2>1 DEF LedgerOK, MoneyInv
  <2> QED
    BY <1>2, <2>1, <2>2, OutsidePays DEF Expire
<1>3. ASSUME NEW r \in Rows, Lapse(r) PROVE MoneyInv'
  <2>1. /\ TypeInv' /\ Grows
        /\ \A q \in Rows : rows'[q].status = rows[q].status /\ rows'[q].paid = rows[q].paid
    BY <1>3, LapseMoves DEF TypeInv, TypeOK, RowType
  <2>2. LedgerOK'
    BY <1>3, LedgerStays DEF Lapse
  <2> QED
    BY <1>3, <2>1, <2>2, OutsidePays DEF Lapse
<1> QED
  BY <1>1, <1>2, <1>3 DEF World
-----------------------------------------------------------------------------
(* The money theorems.                                                     *)

LEMMA InitMoney == Init => MoneyInv
<1> SUFFICES ASSUME Init PROVE MoneyInv
  OBVIOUS
<1>1. LedgerOK
  BY DEF Init, LedgerOK, NoLinkMade
<1>2. \A r \in Rows : ~(r <= minted)
  BY MoneyAssumption DEF Init
<1>3. \A p \in Procs : TaskOK(p, task[p])
  BY DEF Init, TaskOK, Idle, NoAnswer
<1> QED
  BY <1>1, <1>2, <1>3 DEF MoneyInv

LEMMA StepMoney ==
  ASSUME TypeInv, MoneyInv, [Next]_vars
  PROVE  MoneyInv'
<1>1. CASE Asking \/ SessionStep
  BY <1>1, AskPays, GatePays, RefusePays, TransportPays, CancelPays, RecordPays, BookPays
     DEF Asking, SessionStep
<1>2. ASSUME NEW p \in {"desk", "poller", "sweeper"}, Reconciling(p)
      PROVE  MoneyInv'
  BY <1>2, FetchPays, WritePays, LaterPays DEF Reconciling
<1>3. CASE DeskStart \/ DeskStep
  BY <1>2, <1>3, DeskPays, StatusPays, CheckLatestPays, SimulatePays, TransportPays, LaterPays
     DEF DeskStart, DeskStep
<1>4. CASE PollerStep
  BY <1>2, <1>4, LoopPays, LaterPays DEF PollerStep
<1>5. CASE SweeperStep
  BY <1>2, <1>5, LoopPays, GatePays, RefusePays, LaterPays, MarkPays
     DEF SweeperStep, SweeperTick
<1>6. CASE World \/ Faults
  BY <1>6, WorldPays, FailPays
<1>7. CASE UNCHANGED vars
  <2>1. TypeInv' /\ Grows
    BY StepTypes
  <2> QED
    BY <1>7, <2>1, LedgerStays, OutsidePays DEF vars
<1> QED
  BY <1>1, <1>3, <1>4, <1>5, <1>6, <1>7 DEF Next

LEMMA AlwaysBacked == Spec => [](TypeInv /\ MoneyInv)
<1>1. Init => MoneyInv
  BY InitMoney
<1>2. TypeInv /\ MoneyInv /\ [Next]_vars => MoneyInv'
  BY StepMoney
<1> QED
  BY <1>1, <1>2, AlwaysTyped, PTL DEF Spec

\* An artifact that a newer mint closed is not one whose link was paid
\* (NoPaidLinkClosed): its link was cancelled before, and stays unpaid.
THEOREM ClosedUnpaid == Spec => []NoPaidLinkClosed
<1>1. MoneyInv => NoPaidLinkClosed
  BY DEF MoneyInv, RowOK, Barred, NoPaidLinkClosed
<1> QED
  BY <1>1, AlwaysBacked, PTL

\* A reconciliation closes a case for money that covers all of it.
LEMMA ApplyCloses ==
  ASSUME TypeInv, MoneyInv, NEW p \in {"desk", "poller", "sweeper"}, Apply(p),
         state # "RECOVERED", state' = "RECOVERED"
  PROVE  /\ Paid
         /\ \/ task[p].row \in forced
            \/ links[rows[task[p].row].link].paid >= Total
<1>1. task[p] \in TaskType /\ Placed(p, task[p]) /\ task[p].at = "apply"
  BY Reconcilers DEF TypeInv, TypeOK, Apply
<1>2. PICK r \in Rows : r = task[p].row /\ r <= minted
  BY <1>1 DEF Placed, OnRow
<1>3. RowOK(r) /\ rows[r] \in RowType
  BY <1>2 DEF MoneyInv, TypeInv, TypeOK
<1>4. rows[r].paid \in Nat /\ rows[r].amount \in Nat /\ rows[r].amount <= Total /\ Total \in Nat
      /\ Total > 0
  BY <1>3, MoneyAssumption DEF RowType
<1>5. /\ rows[r].partial => rows[r].paid >= Total
      /\ ~rows[r].partial => rows[r].status = "PAID"
  <2> DEFINE balance == IF Total > rows[r].paid THEN Total - rows[r].paid ELSE 0
  <2>1. balance \in Nat /\ (balance = 0 => rows[r].paid >= Total)
    BY <1>4
  <2>2. /\ rows[r].partial =>
             state' = CASE balance = 0 -> "RECOVERED"
               [] balance > 0 /\ rows[r].status = "PARTIALLY_PAID"
                    /\ state \notin {"ESCALATED", "CANCELLED"} -> "WAITING"
               [] OTHER -> state
        /\ ~rows[r].partial => (rows[r].status = "PAID" \/ state' = state)
    BY <1>2 DEF Apply
  <2> HIDE DEF balance
  <2>3. rows[r].partial => balance = 0
    BY <2>1, <2>2
  <2> QED
    BY <2>1, <2>2, <2>3
<1>6. CASE r \in forced
  BY <1>2, <1>6 DEF Paid
<1>7. CASE r \notin forced
  <2>1. Got(r) \in Nat /\ Got(r) >= Total
    <3>1. Got(r) \in Nat
      BY <1>3, MoneyAssumption DEF Got, TypeInv, TypeOK, LinkType, RowType
    <3>2. /\ rows[r].paid <= Got(r)
          /\ rows[r].status = "PAID" => rows[r].amount <= Got(r)
          /\ ~rows[r].partial => rows[r].amount = Total
      BY <1>3, <1>7 DEF RowOK, Backed
    <3> HIDE DEF Got
    <3> QED
      BY <1>4, <1>5, <3>1, <3>2
  <2>2. /\ rows[r].link \in Links /\ links[rows[r].link].paid >= Total
    BY <1>3, <1>4, <2>1 DEF Got, RowType
  <2>3. links[rows[r].link].amount = rows[r].amount /\ rows[r].amount > 0
    BY <1>3, <2>2 DEF RowOK, Real
  <2>4. links[rows[r].link].paid \in Nat
    BY <2>2, MoneyAssumption DEF TypeInv, TypeOK, LinkType
  <2>5. Settled(rows[r].link)
    BY <1>4, <2>2, <2>3, <2>4 DEF Settled
  <2> QED
    BY <1>2, <2>2, <2>5 DEF Paid
<1> QED
  BY <1>6, <1>7

\* And the operator's status poll closes it for a link that was paid.
LEMMA StatusCloses ==
  ASSUME TypeInv, MoneyInv, CloseByStatus, state # "RECOVERED", state' = "RECOVERED"
  PROVE  Paid
<1>1. /\ task["desk"].at = "settle" /\ task["desk"].answer.status = "paid"
      /\ "desk" \in Procs
  BY DEF CloseByStatus, SaysPaid, Procs
<1>2. task["desk"].link \in Links /\ Settled(task["desk"].link)
  BY <1>1 DEF TypeInv, TypeOK, TaskType, Placed, MoneyInv, TaskOK
<1> QED
  BY <1>2 DEF Paid

\* Who can change the state of the case, and how.
LEMMA StateSteps ==
  ASSUME TypeInv, [Next]_vars
  PROVE  \/ UNCHANGED state
         \/ /\ UNCHANGED <<links, forced>>
            /\ state' = "RECOVERED" /\ state # "RECOVERED" =>
                 CloseByStatus \/ \E p \in {"desk", "poller", "sweeper"} : Apply(p)
<1>1. CASE Asking \/ SessionStep
  BY <1>1 DEF Asking, Ask, SessionStep, Gate, Refuse, AskMcp, AskSdk, CancelPrior, Record,
     Book, Tell, Flush
<1>2. ASSUME NEW p \in {"desk", "poller", "sweeper"}, Reconciling(p)
      PROVE  UNCHANGED state \/ (Apply(p) /\ UNCHANGED <<links, forced>>)
  BY <1>2 DEF Reconciling, FetchNothing, FetchAnswered, FetchAs, Write, Apply
<1>3. CASE DeskStart
  BY <1>3 DEF DeskStart, DeskLink, DeskStatus, CheckLatest, Simulate
<1>4. CASE DeskStep
  <2>1. CASE Reconciling("desk")
    BY <1>2, <2>1
  <2>2. CASE CloseByStatus
    BY <2>2 DEF CloseByStatus
  <2> QED
    BY <1>4, <2>1, <2>2 DEF DeskStep, AskMcp, AskSdk, Remember, StatusAnswered, Announce
<1>5. CASE PollerStep
  <2>1. CASE Reconciling("poller")
    BY <1>2, <2>1
  <2> QED
    BY <1>5, <2>1 DEF PollerStep, Poll, Pick, Announce
<1>6. CASE SweeperStep
  <2>1. CASE Reconciling("sweeper")
    BY <1>2, <2>1
  <2>2. CASE Gate("sweeper") \/ Refuse("sweeper")
    BY <2>2 DEF Gate, Refuse, Flush
  <2> QED
    BY <1>6, <2>1, <2>2 DEF SweeperStep, SweeperTick, Tick, Pick, Check, Message, Mark
<1>7. CASE World \/ Faults
  BY <1>7 DEF World, Expire, Pay, Lapse, Faults, Crash, Fail
<1>8. CASE UNCHANGED vars
  BY <1>8 DEF vars
<1> QED
  BY <1>1, <1>3, <1>4, <1>5, <1>6, <1>7, <1>8 DEF Next

\* The case is closed as recovered only by money (ImplementsAccount): every step
\* is a payment, a closing after a payment, a reopening, or nothing, to the
\* abstract account.
THEOREM OnlyMoneyCloses == Spec => ImplementsAccount
<1>1. Init => Account!Init
  BY DEF Init, Account!Init, Paid, Settled, NoLinkMade
<1>2. TypeInv /\ MoneyInv /\ [Next]_vars => [Account!Next]_<<Paid, state # "RECOVERED">>
  <2> SUFFICES ASSUME TypeInv, MoneyInv, [Next]_vars
               PROVE  [Account!Next]_<<Paid, state # "RECOVERED">>
    OBVIOUS
  <2>1. Paid => Paid'
    BY StepTypes, SettledStays DEF Paid, Grows
  <2>2. CASE UNCHANGED state
    <3>1. (state # "RECOVERED")' = (state # "RECOVERED")
      BY <2>2
    <3>2. (Paid' <=> Paid) \/ (~Paid /\ Paid')
      BY <2>1
    <3>3. Paid \in BOOLEAN /\ Paid' \in BOOLEAN
      BY DEF Paid
    <3> QED
      BY <3>1, <3>2, <3>3 DEF Account!Next, Account!Settle
  <2>3. CASE ~UNCHANGED state
    <3>1. /\ UNCHANGED <<links, forced>>
          /\ state' = "RECOVERED" /\ state # "RECOVERED" => Paid
      BY <2>3, StateSteps, StatusCloses, ApplyCloses
    <3>2. Paid' = Paid
      BY <3>1 DEF Paid, Settled
    <3>3. \/ state' = "RECOVERED" /\ state # "RECOVERED"
          \/ state' # "RECOVERED" /\ state = "RECOVERED"
          \/ (state' # "RECOVERED") = (state # "RECOVERED")
      OBVIOUS
    <3> QED
      BY <3>1, <3>2, <3>3 DEF Account!Next, Account!Close, Account!Reopen
  <2> QED
    BY <2>2, <2>3
<1> QED
  BY <1>1, <1>2, AlwaysBacked, PTL DEF Spec, ImplementsAccount, Account!Spec

\* An upfront part leaves the case open (ClosedInFull): a reconciliation closes
\* it only for an artifact that covers all of what is due.
THEOREM PartLeavesOpen == Spec => ClosedInFull
<1>1. TypeInv /\ MoneyInv /\ [Next]_vars =>
        [\A p \in Procs :
           /\ At(p, "apply") /\ task'[p].at # "apply"
           /\ state # "RECOVERED" /\ state' = "RECOVERED"
           => LET r == task[p].row
              IN r \in forced \/ links[rows[r].link].paid >= Total]_vars
  <2> SUFFICES ASSUME TypeInv, MoneyInv, [Next]_vars, NEW p \in Procs,
                      At(p, "apply"), task'[p].at # "apply",
                      state # "RECOVERED", state' = "RECOVERED"
               PROVE  \/ task[p].row \in forced
                      \/ links[rows[task[p].row].link].paid >= Total
    OBVIOUS
  <2>1. CASE CloseByStatus
    \* The desk is settling a status, so p is someone else and did not move.
    <3>1. Moved("desk") /\ task["desk"].at = "settle"
      BY <2>1, CloseByStatusMoves DEF CloseByStatus
    <3> QED
      BY <3>1 DEF Moved
  <2>2. ASSUME NEW q \in {"desk", "poller", "sweeper"}, Apply(q)
        PROVE  \/ task[p].row \in forced
               \/ links[rows[task[p].row].link].paid >= Total
    <3>1. q \in Procs /\ \A s \in Procs \ {q} : task'[s] = task[s]
      BY <2>2, ApplyMoves, Reconcilers DEF Moved
    <3>2. p = q
      BY <3>1
    <3> QED
      BY <2>2, <3>2, ApplyCloses
  <2> QED
    BY <2>1, <2>2, StateSteps
<1> QED
  BY <1>1, AlwaysBacked, PTL DEF Spec, ClosedInFull
-----------------------------------------------------------------------------
(* Follow-ups.  Every message beyond the first cost a failure between the  *)
(* message and its mark.                                                   *)

Marking(r) == task["sweeper"].at = "mark" /\ task["sweeper"].row = r

\* What the sweeper works on, or still has to, it has not followed up.
Clear(t) ==
  /\ \A r \in t.todo : ~rows[r].followed
  /\ OnRow("sweeper", t) => /\ t.row \notin t.todo
                            /\ t.at # "mark" => ~rows[t.row].followed

CountInv ==
  /\ \A r \in Rows :
       /\ r > minted => chases[r] = 0
       /\ chases[r] <= faults + (IF rows[r].followed \/ Marking(r) THEN 1 ELSE 0)
  /\ Clear(task["sweeper"])

LEMMA CountTypes ==
  ASSUME TypeInv
  PROVE  /\ "sweeper" \in Procs /\ task["sweeper"] \in TaskType
         /\ Placed("sweeper", task["sweeper"])
         /\ task["sweeper"].todo \subseteq Rows /\ minted \in Nat /\ faults \in Nat
         /\ \A r \in Rows : rows[r] \in RowType /\ chases[r] \in Nat
                            /\ rows[r].followed \in BOOLEAN
<1>1. task["sweeper"] \in TaskType /\ \A r \in Rows : rows[r] \in RowType
  BY DEF TypeInv, TypeOK, Procs
<1> QED
  BY <1>1, MoneyAssumption DEF TypeInv, TypeOK, Procs, TaskType, RowType

\* Steps of other processes.
LEMMA OthersCount ==
  ASSUME TypeInv, CountInv, TypeInv', Grows, task'["sweeper"] = task["sweeper"],
         chases' = chases, faults <= faults',
         \A r \in Rows : r <= minted => rows'[r].followed = rows[r].followed
  PROVE  CountInv'
<1>1. /\ minted \in Nat /\ minted' \in Nat /\ minted <= minted'
      /\ faults \in Nat /\ faults' \in Nat
      /\ \A r \in Rows : chases[r] \in Nat
  BY CountTypes, MoneyAssumption DEF Grows, TypeInv, TypeOK
<1>2. ASSUME NEW r \in Rows
      PROVE  /\ r > minted' => chases'[r] = 0
             /\ chases'[r] <= faults' + (IF rows'[r].followed \/ Marking(r)' THEN 1 ELSE 0)
  <2>1. r \in Nat
    BY MoneyAssumption
  <2>2. CASE r <= minted
    <3>1. /\ chases[r] <= faults + (IF rows[r].followed \/ Marking(r) THEN 1 ELSE 0)
          /\ (rows'[r].followed \/ Marking(r)') <=> (rows[r].followed \/ Marking(r))
      BY <2>2 DEF CountInv, Marking
    <3> QED
      BY <1>1, <2>1, <2>2, <3>1
  <2>3. CASE r > minted
    BY <1>1, <2>1, <2>3 DEF CountInv
  <2> QED
    BY <1>1, <2>1, <2>2, <2>3
<1>3. Clear(task["sweeper"])'
  <2>1. \A r \in task["sweeper"].todo : r \in Rows /\ r <= minted
    BY CountTypes DEF Placed
  <2>2. OnRow("sweeper", task["sweeper"]) =>
          task["sweeper"].row \in Rows /\ task["sweeper"].row <= minted
    BY CountTypes DEF Placed
  <2>3. Clear(task["sweeper"])
    BY DEF CountInv
  <2> QED
    BY <2>1, <2>2, <2>3 DEF Clear
<1> QED
  BY <1>2, <1>3 DEF CountInv

\* Steps of the sweeper that neither send nor mark.
LEMMA SweeperCounts ==
  ASSUME TypeInv, CountInv, TypeInv', UNCHANGED <<chases, faults, minted>>,
         \A r \in Rows : rows'[r].followed = rows[r].followed,
         task["sweeper"].at # "mark", task'["sweeper"].at # "mark",
         \A r \in task'["sweeper"].todo : ~rows[r].followed,
         OnRow("sweeper", task'["sweeper"]) =>
           /\ task'["sweeper"].row \notin task'["sweeper"].todo
           /\ ~rows[task'["sweeper"].row].followed
  PROVE  CountInv'
<1>1. /\ task'["sweeper"].todo \subseteq Rows
      /\ OnRow("sweeper", task'["sweeper"]) => task'["sweeper"].row \in Rows
  <2>1. /\ "sweeper" \in Procs /\ task'["sweeper"] \in TaskType
        /\ Placed("sweeper", task["sweeper"])'
    BY DEF TypeInv, TypeOK, Procs
  <2> QED
    BY <2>1 DEF TaskType, Placed
<1>2. Clear(task["sweeper"])'
  BY <1>1 DEF Clear
<1> QED
  BY <1>2 DEF CountInv, Marking

LEMMA SweeperSteps ==
  ASSUME TypeInv, TypeInv', CountInv, SweeperStep
  PROVE  CountInv'
<1> DEFINE t == task["sweeper"]
           u == task'["sweeper"]
<1>1. /\ t \in TaskType /\ t.todo \subseteq Rows /\ Clear(t)
      /\ \A r \in Rows : rows[r] \in RowType /\ chases[r] \in Nat
                         /\ rows[r].followed \in BOOLEAN
      /\ minted \in Nat /\ faults \in Nat
  BY CountTypes DEF CountInv
<1>2. ASSUME NEW quiet \in BOOLEAN, Tick(quiet) PROVE CountInv'
  <2>1. /\ u.at = "pick" /\ \A r \in u.todo : Due(r)
        /\ UNCHANGED <<chases, faults, bookVars>> /\ t.at = "idle"
    BY <1>2, TickMoves DEF Tick
  <2>2. ~OnRow("sweeper", u) /\ \A r \in u.todo : ~rows[r].followed
    BY <2>1 DEF OnRow, Due
  <2> QED
    BY <2>1, <2>2, SweeperCounts
<1>3. CASE Pick("sweeper")
  <2>1. UNCHANGED <<chases, faults, bookVars>> /\ t.at = "pick"
    BY <1>3 DEF Pick
  <2>2. CASE u = Idle
    <3>1. u.at = "idle" /\ u.todo = {}
      BY <2>2 DEF Idle
    <3> HIDE DEF u
    <3> QED
      BY <2>1, <3>1, SweeperCounts DEF OnRow, u
  <2>3. CASE u # Idle
    <3>1. /\ u.row \in t.todo /\ u.todo = t.todo \ {u.row}
          /\ u.at \in {"fetch", "check"}
      BY <1>3, <2>3, PickMoves
    <3>2. /\ \A r \in u.todo : ~rows[r].followed
          /\ u.row \notin u.todo /\ ~rows[u.row].followed
      BY <1>1, <3>1 DEF Clear
    <3> QED
      BY <2>1, <3>1, <3>2, SweeperCounts
  <2> QED
    BY <2>2, <2>3
<1>4. ASSUME u.todo = t.todo, u.row = t.row, OnRow("sweeper", t), t.at # "mark", u.at # "mark",
             UNCHANGED <<chases, faults, minted>>,
             \A r \in Rows : rows'[r].followed = rows[r].followed
      PROVE  CountInv'
  <2>1. /\ \A r \in u.todo : ~rows[r].followed
        /\ u.row \notin u.todo /\ ~rows[u.row].followed
    BY <1>1, <1>4 DEF Clear
  <2> QED
    BY <1>4, <2>1, SweeperCounts
<1>5. ASSUME u.todo = t.todo, u.at = "pick", t.at # "mark",
             UNCHANGED <<chases, faults, bookVars>>
      PROVE  CountInv'
  <2>1. ~OnRow("sweeper", u) /\ \A r \in u.todo : ~rows[r].followed
    BY <1>1, <1>5 DEF Clear, OnRow
  <2> QED
    BY <1>5, <2>1, SweeperCounts
<1>6. CASE Reconciling("sweeper")
  <2>1. /\ UNCHANGED <<chases, faults, minted>> /\ t.at \in {"fetch", "write", "apply"}
    BY <1>6 DEF Reconciling, FetchNothing, FetchAnswered, FetchAs, Write, Apply
  <2>2. u.todo = t.todo /\ u.row = t.row /\ u.at \in {"write", "apply", "check"}
    <3>1. CASE FetchNothing("sweeper") \/ \E r \in Rows : FetchAnswered("sweeper", r)
      <4>1. PICK a : FetchAs("sweeper", a)
        BY <3>1 DEF FetchNothing, FetchAnswered
      <4>2. u = [t EXCEPT !.at = "write", !.answer = a]
        BY <4>1, CountTypes DEF FetchAs, TypeInv, TypeOK
      <4> QED
        BY <1>1, <4>2 DEF TaskType
    <3>2. CASE Write("sweeper") \/ Apply("sweeper")
      BY <1>1, <3>2, WriteMoves, ApplyMoves DEF TaskType
    <3> QED
      BY <1>6, <3>1, <3>2 DEF Reconciling
  <2>3. \A r \in Rows : rows'[r].followed = rows[r].followed
    <3>1. CASE Write("sweeper")
      <4> TAKE r \in Rows
      <4>1. CASE r = t.row
        <5> DEFINE new == Reconciled(rows[t.row].amount, t.was, t.answer)
        <5>1. rows'[t.row] = [rows[t.row] EXCEPT
                                !.status = Flush(t.was.status, new.status, @),
                                !.paid   = Flush(t.was.paid, new.paid, @)]
          BY <3>1, WriteMoves
        <5> HIDE DEF new
        <5> QED
          BY <1>1, <4>1, <5>1 DEF RowType
      <4>2. CASE r # t.row
        BY <3>1, <4>2, WriteMoves
      <4> QED
        BY <4>1, <4>2
    <3>2. CASE rows' = rows
      BY <3>2
    <3> QED
      BY <1>6, <3>1, <3>2 DEF Reconciling, FetchNothing, FetchAnswered, FetchAs, Apply
  <2>4. OnRow("sweeper", t)
    BY <2>1 DEF OnRow
  <2> QED
    BY <1>4, <2>1, <2>2, <2>3, <2>4
<1>7. CASE Check \/ Gate("sweeper")
  <2>1. UNCHANGED <<chases, faults, bookVars>> /\ t.at \in {"check", "gate"}
    BY <1>7 DEF Check, Gate
  <2>2. \/ u.at = "pick" /\ u.todo = t.todo
        \/ u.at \in {"gate", "refuse", "message"} /\ u.todo = t.todo /\ u.row = t.row
    BY <1>1, <1>7, CheckMoves, GateMoves DEF TaskType
  <2>3. OnRow("sweeper", t)
    BY <2>1 DEF OnRow
  <2> QED
    BY <1>4, <1>5, <2>1, <2>2, <2>3
<1>8. CASE Refuse("sweeper")
  <2>1. UNCHANGED <<chases, faults, bookVars>> /\ t.at = "refuse"
    BY <1>8 DEF Refuse
  <2>2. u.at = "pick" /\ u.todo = t.todo
    BY <1>8, RefuseMoves
  <2> QED
    BY <1>5, <2>1, <2>2
<1>9. CASE Message
  <2>1. /\ u = [t EXCEPT !.at = "mark"] /\ t.row \in Rows /\ t.row <= minted
        /\ UNCHANGED <<bookVars, faults>> /\ t.at = "message"
        /\ chases' = [chases EXCEPT ![t.row] = @ + 1]
    BY <1>9, MessageMoves DEF Message
  <2>2. u.at = "mark" /\ u.row = t.row /\ u.todo = t.todo
    BY <1>1, <2>1 DEF TaskType
  <2>3. t.row \notin t.todo /\ ~rows[t.row].followed /\ (\A r \in t.todo : ~rows[r].followed)
    BY <1>1, <2>1 DEF Clear, OnRow
  <2>4. chases'[t.row] = chases[t.row] + 1 /\ \A r \in Rows : r # t.row => chases'[r] = chases[r]
    BY <2>1 DEF TypeInv, TypeOK
  <2>5. chases[t.row] <= faults
    BY <1>1, <2>1, <2>3 DEF CountInv, Marking
  <2>6. ASSUME NEW r \in Rows
        PROVE  /\ r > minted' => chases'[r] = 0
               /\ chases'[r] <= faults' + (IF rows'[r].followed \/ Marking(r)' THEN 1 ELSE 0)
    <3>1. CASE r = t.row
      <4>1. Marking(r)' /\ ~(r > minted')
        BY <1>1, <2>1, <2>2, <3>1, MoneyAssumption DEF Marking
      <4> QED
        BY <1>1, <2>1, <2>4, <2>5, <3>1, <4>1
    <3>2. CASE r # t.row
      <4>1. ~Marking(r) /\ ~Marking(r)'
        BY <2>1, <2>2, <3>2 DEF Marking
      <4> QED
        BY <2>1, <2>4, <3>2, <4>1 DEF CountInv
    <3> QED
      BY <3>1, <3>2
  <2>7. Clear(task["sweeper"])'
    BY <2>1, <2>2, <2>3 DEF Clear
  <2> QED
    BY <2>6, <2>7 DEF CountInv
<1>10. CASE Mark
  <2>1. /\ u.at = "pick" /\ u.todo = t.todo /\ t.row \in Rows
        /\ rows'[t.row] = [rows[t.row] EXCEPT !.followed = TRUE]
        /\ \A q \in Rows : q # t.row => rows'[q] = rows[q]
        /\ UNCHANGED <<chases, faults, minted>> /\ t.at = "mark"
    BY <1>10, MarkMoves DEF Mark
  <2>2. rows'[t.row].followed
    BY <1>1, <2>1 DEF RowType
  <2>3. t.row \notin t.todo /\ \A r \in t.todo : ~rows[r].followed
    BY <1>1, <2>1 DEF Clear, OnRow
  <2>4. ASSUME NEW r \in Rows
        PROVE  /\ r > minted' => chases'[r] = 0
               /\ chases'[r] <= faults' + (IF rows'[r].followed \/ Marking(r)' THEN 1 ELSE 0)
    <3>1. CASE r = t.row
      <4>1. Marking(r)
        BY <2>1, <3>1 DEF Marking
      <4> QED
        BY <2>1, <2>2, <3>1, <4>1 DEF CountInv
    <3>2. CASE r # t.row
      <4>1. ~Marking(r) /\ ~Marking(r)'
        BY <2>1, <3>2 DEF Marking
      <4>2. rows'[r] = rows[r]
        BY <2>1, <3>2
      <4> QED
        BY <2>1, <4>1, <4>2 DEF CountInv
    <3> QED
      BY <3>1, <3>2
  <2>5. Clear(task["sweeper"])'
    BY <1>1, <2>1, <2>3 DEF Clear, OnRow
  <2> QED
    BY <2>4, <2>5 DEF CountInv
<1> QED
  BY <1>2, <1>3, <1>6, <1>7, <1>8, <1>9, <1>10 DEF SweeperStep, SweeperTick

\* Which steps are nobody's but the sweeper's.
LEMMA SweeperMoves ==
  ASSUME TypeInv, SweeperStep
  PROVE  Moved("sweeper")
<1>1. "sweeper" \in {"desk", "poller", "sweeper"} /\ "sweeper" \in {"poller", "sweeper"}
      /\ "sweeper" \in {"session", "sweeper"}
  OBVIOUS
<1>2. CASE Reconciling("sweeper")
  <2>1. CASE FetchNothing("sweeper") \/ \E r \in Rows : FetchAnswered("sweeper", r)
    <3>1. PICK a \in AnswerType : FetchAs("sweeper", a)
      <4>1. CASE FetchNothing("sweeper")
        BY <4>1, NoAnswerType DEF FetchNothing
      <4>2. ASSUME NEW r \in Rows, FetchAnswered("sweeper", r)
            PROVE  \E a \in AnswerType : FetchAs("sweeper", a)
        <5>1. /\ task["sweeper"].row = r /\ task["sweeper"].at = "fetch"
              /\ \E a \in Answers(rows[r].link) \ {NoAnswer} : FetchAs("sweeper", a)
          BY <4>2 DEF FetchAnswered
        <5>2. rows[r].link \in Links
          BY <5>1, CountTypes DEF Placed, Real, RowType
        <5> QED
          BY <5>1, <5>2, AnswersType
      <4> QED
        BY <2>1, <4>1, <4>2
    <3> QED
      BY <1>1, <3>1, FetchMoves
  <2>2. CASE Write("sweeper")
    BY <1>1, <2>2, WriteMoves
  <2>3. CASE Apply("sweeper")
    BY <1>1, <2>3, ApplyMoves
  <2> QED
    BY <1>2, <2>1, <2>2, <2>3 DEF Reconciling
<1>3. CASE \E quiet \in BOOLEAN : Tick(quiet)
  BY <1>3, TickMoves
<1>4. CASE Pick("sweeper")
  BY <1>1, <1>4, PickMoves
<1>5. CASE Check
  BY <1>5, CheckMoves
<1>6. CASE Gate("sweeper")
  BY <1>1, <1>6, GateMoves
<1>7. CASE Refuse("sweeper")
  BY <1>1, <1>7, RefuseMoves
<1>8. CASE Message
  BY <1>8, MessageMoves
<1>9. CASE Mark
  BY <1>9, MarkMoves
<1> QED
  BY <1>2, <1>3, <1>4, <1>5, <1>6, <1>7, <1>8, <1>9 DEF SweeperStep, SweeperTick

\* What the steps of others leave alone.
Kept ==
  /\ task'["sweeper"] = task["sweeper"] /\ chases' = chases /\ faults <= faults'
  /\ \A r \in Rows : r <= minted => rows'[r].followed = rows[r].followed

LEMMA KeptBy ==
  ASSUME TypeInv, NEW p \in {"session", "desk", "poller"}, Moved(p),
         UNCHANGED <<chases, rows>>,
         faults' = faults \/ faults' = faults + 1
  PROVE  Kept
<1>1. task'["sweeper"] = task["sweeper"]
  BY DEF Moved, Procs
<1> QED
  BY <1>1, CountTypes DEF Kept

LEMMA ReconcilingKeeps ==
  ASSUME TypeInv, NEW p \in {"desk", "poller"}, Reconciling(p)
  PROVE  Kept /\ Moved(p)
<1>1. CASE FetchNothing(p) \/ \E r \in Rows : FetchAnswered(p, r)
  <2>1. PICK a \in AnswerType : FetchAs(p, a)
    <3>1. CASE FetchNothing(p)
      BY <3>1, NoAnswerType DEF FetchNothing
    <3>2. ASSUME NEW r \in Rows, FetchAnswered(p, r)
          PROVE  \E a \in AnswerType : FetchAs(p, a)
      <4>1. /\ task[p].row = r /\ task[p].at = "fetch"
            /\ \E a \in Answers(rows[r].link) \ {NoAnswer} : FetchAs(p, a)
        BY <3>2 DEF FetchAnswered
      <4>2. Placed(p, task[p]) /\ rows[r] \in RowType
        BY Reconcilers DEF TypeInv, TypeOK
      <4>3. rows[r].link \in Links
        BY <4>1, <4>2 DEF Placed, Real, RowType
      <4> QED
        BY <4>1, <4>3, AnswersType
    <3> QED
      BY <1>1, <3>1, <3>2
  <2>2. Moved(p) /\ UNCHANGED <<chases, rows, faults>>
    BY <2>1, FetchMoves DEF FetchAs
  <2> QED
    BY <2>2, KeptBy
<1>2. CASE Write(p)
  <2>1. Moved(p) /\ UNCHANGED <<chases, faults>>
    BY <1>2, WriteMoves DEF Write
  <2>2. \A r \in Rows : rows'[r].followed = rows[r].followed
    <3> TAKE r \in Rows
    <3>1. CASE r = task[p].row
      <4> DEFINE new == Reconciled(rows[r].amount, task[p].was, task[p].answer)
      <4>1. rows'[r] = [rows[r] EXCEPT
                          !.status = Flush(task[p].was.status, new.status, @),
                          !.paid   = Flush(task[p].was.paid, new.paid, @)]
        BY <1>2, <3>1, WriteMoves
      <4> HIDE DEF new
      <4> QED
        BY <4>1, CountTypes DEF RowType
    <3>2. CASE r # task[p].row
      BY <1>2, <3>2, WriteMoves
    <3> QED
      BY <3>1, <3>2
  <2>3. task'["sweeper"] = task["sweeper"]
    BY <2>1 DEF Moved, Procs
  <2> QED
    BY <2>1, <2>2, <2>3, CountTypes DEF Kept
<1>3. CASE Apply(p)
  <2>1. Moved(p) /\ UNCHANGED <<chases, rows, faults>>
    BY <1>3, ApplyMoves DEF Apply
  <2> QED
    BY <2>1, KeptBy
<1> QED
  BY <1>1, <1>2, <1>3 DEF Reconciling

LEMMA SessionKeeps ==
  ASSUME TypeInv, Asking \/ SessionStep
  PROVE  Kept /\ Moved("session")
<1>1. CASE Record
  <2>1. Moved("session") /\ UNCHANGED <<chases, faults>>
    BY <1>1, RecordMoves DEF Record
  <2>2. \A r \in Rows : r <= minted => rows'[r].followed = rows[r].followed
    BY <1>1, RecordMoves, CountTypes DEF RowType
  <2>3. task'["sweeper"] = task["sweeper"]
    BY <2>1 DEF Moved, Procs
  <2> QED
    BY <2>1, <2>2, <2>3, CountTypes DEF Kept
<1>2. CASE CancelPrior
  <2>1. PICK done \in SUBSET Links :
          /\ CancelAll(Active, done)
          /\ UNCHANGED <<fixed, made, bookVars, caseVars, session, forced, chases>>
    BY <1>2 DEF CancelPrior
  <2>2. Moved("session")
    BY <2>1, CancelMoves
  <2>3. faults' = faults \/ faults' = faults + 1
    BY <2>1 DEF CancelAll
  <2> QED
    BY <2>1, <2>2, <2>3, KeptBy
<1>3. CASE Asking
  <2>1. Moved("session") /\ UNCHANGED <<chases, rows, faults>>
    BY <1>3, AskMoves DEF Asking, Ask
  <2> QED
    BY <2>1, KeptBy
<1>4. CASE Gate("session") \/ Refuse("session")
  <2>1. Moved("session")
    BY <1>4, GateMoves, RefuseMoves
  <2>2. UNCHANGED <<chases, rows, faults>>
    BY <1>4 DEF Gate, Refuse
  <2> QED
    BY <2>1, <2>2, KeptBy
<1>5. CASE AskMcp("session") \/ AskSdk("session")
  <2>1. Moved("session")
    BY <1>5, AskMcpMoves, AskSdkMoves
  <2>2. UNCHANGED <<chases, rows, faults>>
    BY <1>5 DEF AskMcp, AskSdk
  <2> QED
    BY <2>1, <2>2, KeptBy
<1>6. CASE Book \/ Tell
  <2>1. Moved("session") /\ UNCHANGED <<chases, rows, faults>>
    BY <1>6, BookMoves, TellMoves DEF Book, Tell
  <2> QED
    BY <2>1, KeptBy
<1> QED
  BY <1>1, <1>2, <1>3, <1>4, <1>5, <1>6 DEF SessionStep

LEMMA DeskKeeps ==
  ASSUME TypeInv, DeskStart \/ DeskStep
  PROVE  Kept /\ Moved("desk")
<1>1. CASE Reconciling("desk")
  BY <1>1, ReconcilingKeeps
<1>2. ASSUME NEW r \in Rows, Simulate(r) PROVE Kept /\ Moved("desk")
  <2>1. Moved("desk") /\ UNCHANGED <<chases, faults>>
    BY <1>2, SimulateMoves DEF Simulate
  <2>2. rows' = [rows EXCEPT ![r].status = "PAID", ![r].paid = rows[r].amount]
    BY <1>2 DEF Simulate
  <2>3. \A q \in Rows : rows'[q].followed = rows[q].followed
    BY <2>2, CountTypes DEF RowType, TypeInv, TypeOK
  <2>4. task'["sweeper"] = task["sweeper"]
    BY <2>1 DEF Moved, Procs
  <2> QED
    BY <2>1, <2>3, <2>4, CountTypes DEF Kept
<1>3. CASE AskMcp("desk") \/ AskSdk("desk")
  <2>1. Moved("desk")
    BY <1>3, AskMcpMoves, AskSdkMoves
  <2>2. UNCHANGED <<chases, rows, faults>>
    BY <1>3 DEF AskMcp, AskSdk
  <2> QED
    BY <2>1, <2>2, KeptBy
<1>4. CASE DeskLink \/ DeskStatus \/ CheckLatest
  <2>1. Moved("desk")
    BY <1>4, DeskLinkMoves, DeskStatusMoves, CheckLatestMoves
  <2>2. UNCHANGED <<chases, rows, faults>>
    BY <1>4 DEF DeskLink, DeskStatus, CheckLatest
  <2> QED
    BY <2>1, <2>2, KeptBy
<1>5. CASE Remember \/ StatusAnswered \/ CloseByStatus \/ Announce("desk")
  <2>1. Moved("desk")
    BY <1>5, RememberMoves, StatusAnsweredMoves, CloseByStatusMoves, AnnounceMoves
  <2>2. UNCHANGED <<chases, rows, faults>>
    BY <1>5 DEF Remember, StatusAnswered, CloseByStatus, Announce
  <2> QED
    BY <2>1, <2>2, KeptBy
<1> QED
  BY <1>1, <1>2, <1>3, <1>4, <1>5 DEF DeskStart, DeskStep

LEMMA PollerKeeps ==
  ASSUME TypeInv, PollerStep
  PROVE  Kept /\ Moved("poller")
<1>1. CASE Reconciling("poller")
  BY <1>1, ReconcilingKeeps
<1>2. CASE Poll \/ Pick("poller") \/ Announce("poller")
  <2>1. Moved("poller")
    BY <1>2, PollMoves, PickMoves, AnnounceMoves
  <2>2. UNCHANGED <<chases, rows, faults>>
    BY <1>2 DEF Poll, Pick, Announce
  <2> QED
    BY <2>1, <2>2, KeptBy
<1> QED
  BY <1>1, <1>2 DEF PollerStep

LEMMA WorldKeeps ==
  ASSUME TypeInv, World
  PROVE  /\ Kept /\ UNCHANGED <<task, session>>
         /\ \A r \in Rows : rows'[r].status = rows[r].status
<1>1. CASE \E l \in Links : Expire(l) \/ \E x \in 1..Total : Pay(l, x)
  BY <1>1, CountTypes DEF Kept, Expire, Pay
<1>2. ASSUME NEW r \in Rows, Lapse(r)
      PROVE  /\ Kept /\ UNCHANGED <<task, session>>
             /\ \A q \in Rows : rows'[q].status = rows[q].status
  <2>1. UNCHANGED <<task, session, chases, faults>>
    BY <1>2 DEF Lapse
  <2>2. \A q \in Rows : /\ rows'[q].followed = rows[q].followed
                        /\ rows'[q].status = rows[q].status
    BY <1>2, LapseMoves, CountTypes DEF RowType
  <2> QED
    BY <2>1, <2>2, CountTypes DEF Kept
<1> QED
  BY <1>1, <1>2 DEF World

LEMMA FaultsDrop ==
  ASSUME TypeInv, Faults
  PROVE  /\ TypeInv' /\ Grows /\ UNCHANGED <<rows, minted, chases, links>>
         /\ faults' = faults + 1
         /\ \A p \in Procs : task'[p] = task[p] \/ task'[p] = Idle
<1>1. CASE Crash
  BY <1>1, CrashMoves DEF Crash
<1>2. ASSUME NEW p \in Procs, Fail(p)
      PROVE  /\ TypeInv' /\ Grows /\ UNCHANGED <<rows, minted, chases, links>>
             /\ faults' = faults + 1
             /\ \A q \in Procs : task'[q] = task[q] \/ task'[q] = Idle
  <2>1. UNCHANGED <<rows, minted, chases, links>> /\ faults' = faults + 1
    BY <1>2 DEF Fail
  <2> QED
    BY <1>2, <2>1, FailMoves DEF Moved
<1> QED
  BY <1>1, <1>2 DEF Faults

\* After a failure the sweeper is where it was, or idle; one more is allowed.
LEMMA FaultsCount ==
  ASSUME TypeInv, CountInv, Faults
  PROVE  CountInv'
<1>1. CASE task'["sweeper"] = task["sweeper"]
  <2>1. TypeInv' /\ Grows /\ UNCHANGED <<rows, minted, chases>> /\ faults' = faults + 1
    BY FaultsDrop
  <2>2. faults <= faults'
    BY <2>1, CountTypes
  <2> QED
    BY <1>1, <2>1, <2>2, OthersCount
<1>2. CASE task'["sweeper"] = Idle
  <2>1. UNCHANGED <<rows, minted, chases>> /\ faults' = faults + 1
    BY FaultsDrop
  <2>2. \A r \in Rows : chases[r] <= faults + 1 /\ chases[r] \in Nat /\ faults \in Nat
    <3> TAKE r \in Rows
    <3>1. chases[r] <= faults + (IF rows[r].followed \/ Marking(r) THEN 1 ELSE 0)
      BY DEF CountInv
    <3> QED
      BY <3>1, CountTypes
  <2>3. \A r \in Rows : chases'[r] <= faults' + (IF rows'[r].followed \/ Marking(r)' THEN 1 ELSE 0)
    BY <2>1, <2>2
  <2>4. Clear(task["sweeper"])'
    BY <1>2 DEF Clear, Idle, OnRow
  <2>5. \A r \in Rows : r > minted' => chases'[r] = 0
    BY <2>1 DEF CountInv
  <2> QED
    BY <2>3, <2>4, <2>5 DEF CountInv
<1> QED
  BY <1>1, <1>2, FaultsDrop DEF Procs

LEMMA InitCount == Init => CountInv
<1> SUFFICES ASSUME Init PROVE CountInv
  OBVIOUS
<1>1. task["sweeper"] = Idle
  BY DEF Init, Procs
<1>2. /\ \A r \in Rows : chases[r] = 0
      /\ faults = 0
  BY DEF Init
<1>3. Clear(task["sweeper"])
  BY <1>1 DEF Clear, Idle, OnRow
<1> QED
  BY <1>2, <1>3 DEF CountInv

LEMMA StepCounts ==
  ASSUME TypeInv, CountInv, [Next]_vars
  PROVE  CountInv'
<1>1. TypeInv' /\ Grows
  BY StepTypes
<1>2. CASE Kept
  BY <1>1, <1>2, OthersCount DEF Kept
<1>3. CASE SweeperStep
  BY <1>1, <1>3, SweeperSteps
<1>4. CASE Faults
  BY <1>4, FaultsCount
<1>5. CASE UNCHANGED vars
  BY <1>5 DEF vars, CountInv, Clear, Marking
<1> QED
  BY <1>2, <1>3, <1>4, <1>5, SessionKeeps, DeskKeeps, PollerKeeps, WorldKeeps DEF Next

\* A customer is followed up once for an artifact (FollowUpsBounded): every
\* further message cost a failure between a message and its mark.
THEOREM OneFollowUp == Spec => []FollowUpsBounded
<1>1. TypeInv /\ CountInv => FollowUpsBounded
  <2> SUFFICES ASSUME TypeInv, CountInv, NEW r \in Rows
               PROVE  chases[r] <= 1 + faults
    BY DEF FollowUpsBounded
  <2>1. chases[r] <= faults + (IF rows[r].followed \/ Marking(r) THEN 1 ELSE 0)
    BY DEF CountInv
  <2> QED
    BY <2>1, CountTypes
<1>2. Init => TypeInv /\ CountInv
  BY InitTypes, InitCount
<1>3. TypeInv /\ CountInv /\ [Next]_vars => TypeInv' /\ CountInv'
  BY StepTypes, StepCounts
<1> QED
  BY <1>1, <1>2, <1>3, PTL DEF Spec
-----------------------------------------------------------------------------
(* Nobody who has paid is chased.  Once the session is gone only the        *)
(* sweeper writes artifacts, so what it found settled when its tick began   *)
(* it still finds, and writes, as paid.                                     *)

Reading == {"fetch", "write", "apply", "announce"}
GoneInv ==
  session = "gone" => Free("session") /\ Free("poller") /\ task["desk"].at \notin Reading

\* What the sweeper knows of the links that were settled when its tick began.
Known(t) ==
  LET lost  == t.answer.status = "none"
      known == rows[t.row].link \in t.settled
  IN t.settled # {} =>
       /\ session = "gone"
       /\ \A l \in t.settled : Settled(l)
       /\ t.at \in {"fetch", "write"} => t.was.status = rows[t.row].status
       /\ t.at = "write" => lost \/ (known => t.answer.status = "paid")
       /\ t.at \in {"apply", "check"} => lost \/ (known => rows[t.row].status = "PAID")
       /\ t.at \in {"gate", "refuse", "message"} => lost \/ ~known
KnownInv == GoneInv /\ Known(task["sweeper"])

LEMMA OnlyCrashes ==
  ASSUME [Next]_vars, session # "gone", session' = "gone"
  PROVE  Crash
<1>1. CASE Asking \/ SessionStep \/ DeskStart \/ DeskStep
  BY <1>1 DEF Asking, Ask, SessionStep, Gate, Refuse, AskMcp, AskSdk, CancelPrior, Record,
     Book, Tell, DeskStart, DeskLink, DeskStatus, CheckLatest, Simulate, DeskStep, Remember,
     StatusAnswered, CloseByStatus, Reconciling, FetchNothing, FetchAnswered, FetchAs, Write,
     Apply, Announce
<1>2. CASE PollerStep \/ SweeperStep
  BY <1>2 DEF PollerStep, Poll, Pick, SweeperStep, SweeperTick, Tick, Check, Message, Mark,
     Gate, Refuse, Reconciling, FetchNothing, FetchAnswered, FetchAs, Write, Apply, Announce
<1>3. CASE World \/ Faults \/ UNCHANGED vars
  BY <1>3 DEF World, Expire, Pay, Lapse, Faults, Fail, vars
<1> QED
  BY <1>1, <1>2, <1>3 DEF Next

LEMMA GoneStuck ==
  ASSUME GoneInv, session = "gone"
  PROVE  /\ ~(Asking \/ SessionStep) /\ ~PollerStep
         /\ ~Reconciling("desk") /\ ~Announce("desk") /\ ~CheckLatest
         /\ \A r \in Rows : ~Simulate(r)
<1>1. /\ task["session"].at = "idle" /\ task["poller"].at = "idle"
      /\ task["desk"].at \notin Reading
  BY DEF GoneInv
<1>2. ~(Asking \/ SessionStep)
  BY <1>1 DEF Asking, Ask, SessionStep, Gate, Refuse, AskMcp, AskSdk, CancelPrior, Record,
     Book, Tell
<1>3. ~PollerStep
  BY <1>1 DEF PollerStep, Poll, Pick, Reconciling, FetchNothing, FetchAnswered, FetchAs,
     Write, Apply, Announce
<1> QED
  BY <1>1, <1>2, <1>3 DEF Reading, Reconciling, FetchNothing, FetchAnswered, FetchAs, Write,
     Apply, Announce, CheckLatest, Simulate

\* What the desk can still do: make a link, or ask about the remembered one.
LEMMA GoneDesk ==
  ASSUME TypeInv, GoneInv, session = "gone", DeskStart \/ DeskStep
  PROVE  task'["desk"].at \notin Reading /\ UNCHANGED <<rows, session>>
<1>1. \/ DeskLink \/ DeskStatus \/ AskMcp("desk") \/ AskSdk("desk") \/ Remember
      \/ StatusAnswered \/ CloseByStatus
  BY GoneStuck DEF DeskStart, DeskStep
<1>2. UNCHANGED <<rows, session>>
  BY <1>1 DEF DeskLink, DeskStatus, AskMcp, AskSdk, Remember, StatusAnswered, CloseByStatus
<1>3. "desk" \in Procs /\ task["desk"] \in TaskType /\ Minted("desk") = "remember"
  BY DEF TypeInv, TypeOK, Procs, Minted
<1>4. CASE DeskLink \/ DeskStatus \/ Remember \/ CloseByStatus
  BY <1>2, <1>4, DeskLinkMoves, DeskStatusMoves, RememberMoves, CloseByStatusMoves
  DEF Reading, Idle
<1>5. CASE AskMcp("desk") \/ AskSdk("desk")
  <2>1. task'["desk"].at \in {"sdk", "remember"}
    BY <1>3, <1>5, AskMcpMoves, AskSdkMoves DEF TaskType
  <2> QED
    BY <1>2, <2>1 DEF Reading
<1>6. CASE StatusAnswered
  <2>1. task'["desk"].at = "settle"
    BY <1>3, <1>6, StatusAnsweredMoves DEF TaskType
  <2> QED
    BY <1>2, <2>1 DEF Reading
<1> QED
  BY <1>1, <1>2, <1>4, <1>5, <1>6

LEMMA StepGone ==
  ASSUME TypeInv, GoneInv, [Next]_vars
  PROVE  GoneInv'
<1>1. CASE session # "gone"
  <2>1. session' = "gone" => \A p \in Procs : task'[p] = Idle
    BY <1>1, OnlyCrashes DEF Crash
  <2> QED
    BY <2>1 DEF GoneInv, Reading, Idle, Procs
<1>2. CASE session = "gone"
  <2>1. CASE DeskStart \/ DeskStep
    BY <1>2, <2>1, GoneDesk, DeskKeeps DEF GoneInv, Moved, Procs
  <2>2. CASE SweeperStep
    BY <2>2, <1>2, SweeperMoves DEF GoneInv, Moved, Procs
  <2>3. CASE World
    BY <1>2, <2>3, WorldKeeps DEF GoneInv
  <2>4. CASE Faults
    BY <1>2, <2>4, FaultsDrop DEF GoneInv, Reading, Idle, Procs
  <2>5. CASE UNCHANGED vars
    BY <1>2, <2>5 DEF GoneInv, vars
  <2> QED
    BY <1>2, <2>1, <2>2, <2>3, <2>4, <2>5, GoneStuck DEF Next
<1> QED
  BY <1>1, <1>2

LEMMA GoneForGood ==
  ASSUME [Next]_vars, session = "gone"
  PROVE  session' = "gone"
<1>1. CASE Asking \/ SessionStep \/ DeskStart \/ DeskStep
  BY <1>1 DEF Asking, Ask, SessionStep, Gate, Refuse, AskMcp, AskSdk, CancelPrior, Record,
     Book, Tell, DeskStart, DeskLink, DeskStatus, CheckLatest, Simulate, DeskStep, Remember,
     StatusAnswered, CloseByStatus, Reconciling, FetchNothing, FetchAnswered, FetchAs, Write,
     Apply, Announce
<1>2. CASE PollerStep \/ SweeperStep
  BY <1>2 DEF PollerStep, Poll, Pick, SweeperStep, SweeperTick, Tick, Check, Message, Mark,
     Gate, Refuse, Reconciling, FetchNothing, FetchAnswered, FetchAs, Write, Apply, Announce
<1>3. CASE World \/ Faults \/ UNCHANGED vars
  BY <1>3 DEF World, Expire, Pay, Lapse, Faults, Fail, Crash, vars
<1> QED
  BY <1>1, <1>2, <1>3 DEF Next

\* While the sweeper stands still, what it knows stays true.
LEMMA KnownStays ==
  ASSUME TypeInv, TypeInv', Grows, Known(task["sweeper"]), [Next]_vars,
         task'["sweeper"] = task["sweeper"],
         session = "gone" => \A r \in Rows : rows'[r].status = rows[r].status
  PROVE  Known(task["sweeper"])'
<1> DEFINE t == task["sweeper"]
<1> SUFFICES ASSUME t.settled # {}
             PROVE  Known(t)'
  BY DEF Known
<1>1. /\ session = "gone" /\ session' = "gone" /\ t.settled \subseteq Links
      /\ \A l \in t.settled : Settled(l)
  BY GoneForGood, CountTypes DEF Known, TaskType
<1>2. \A l \in t.settled : Settled(l)'
  BY <1>1, SettledStays
<1>3. OnRow("sweeper", t) =>
        /\ t.row \in Rows /\ rows'[t.row].status = rows[t.row].status
        /\ rows'[t.row].link = rows[t.row].link
  BY <1>1, CountTypes DEF Placed, Grows
<1>4. t.at \in {"fetch", "write", "apply", "check", "gate", "refuse", "message"} =>
        OnRow("sweeper", t)
  BY DEF OnRow
<1> QED
  BY <1>1, <1>2, <1>3, <1>4 DEF Known

\* The answer to a settled link is "paid" or lost, and becomes a paid artifact.
LEMMA ReconcileKnows ==
  ASSUME TypeInv, MoneyInv, Known(task["sweeper"]), Reconciling("sweeper"),
         TypeInv', Grows, task["sweeper"].settled # {}
  PROVE  Known(task["sweeper"])'
<1> DEFINE t == task["sweeper"]
           u == task'["sweeper"]
<1>1. /\ t \in TaskType /\ session = "gone" /\ session' = "gone"
      /\ \A l \in t.settled : l \in Links /\ Settled(l) /\ Settled(l)'
  <2>1. session' = session
    BY DEF Reconciling, FetchNothing, FetchAnswered, FetchAs, Write, Apply
  <2> QED
    BY <2>1, CountTypes, SettledStays DEF Known, TaskType
<1>2. "sweeper" \in {"desk", "poller", "sweeper"}
  OBVIOUS
<1>3. CASE FetchNothing("sweeper") \/ \E r \in Rows : FetchAnswered("sweeper", r)
  <2>1. /\ u.at = "write" /\ u.row = t.row /\ u.was = t.was /\ u.settled = t.settled
        /\ \/ u.answer.status = "none"
           \/ Settled(rows[t.row].link) => u.answer.status = "paid"
        /\ rows' = rows /\ t.at = "fetch"
    BY <1>2, <1>3, FetchPays DEF FetchNothing, FetchAnswered, FetchAs
  <2>2. t.was.status = rows[t.row].status
    BY <2>1 DEF Known
  <2> QED
    BY <1>1, <2>1, <2>2 DEF Known
<1>4. CASE Write("sweeper")
  <2> DEFINE new == Reconciled(rows[t.row].amount, t.was, t.answer)
  <2>1. /\ u = [t EXCEPT !.at = "apply"] /\ t.at = "write"
        /\ rows'[t.row] = [rows[t.row] EXCEPT
                             !.status = Flush(t.was.status, new.status, @),
                             !.paid   = Flush(t.was.paid, new.paid, @)]
        /\ t.row \in Rows /\ t.row <= minted /\ rows[t.row] \in RowType
    BY <1>2, <1>4, WriteMoves, CountTypes DEF Write
  <2>2. /\ u.at = "apply" /\ u.row = t.row /\ u.answer = t.answer /\ u.settled = t.settled
    BY <1>1, <2>1 DEF TaskType
  <2>3. rows'[t.row].link = rows[t.row].link
    BY <2>1 DEF Grows
  <2>4. t.was.status = rows[t.row].status
    BY <2>1 DEF Known
  <2>5. t.answer.status = "paid" => new.status = "PAID"
    BY DEF Reconciled
  <2>6. t.answer.status = "paid" => rows'[t.row].status = "PAID"
    <3> HIDE DEF new
    <3>1. rows'[t.row].status = Flush(t.was.status, new.status, rows[t.row].status)
      BY <2>1 DEF RowType
    <3> QED
      BY <2>4, <2>5, <3>1 DEF Flush
  <2>7. t.answer.status = "none" \/ (rows[t.row].link \in t.settled => t.answer.status = "paid")
    BY <2>1 DEF Known
  <2> HIDE DEF u
  <2> QED
    BY <1>1, <2>2, <2>3, <2>6, <2>7 DEF Known, u
<1>5. CASE Apply("sweeper")
  <2>1. u = [t EXCEPT !.at = "check"] /\ t.at = "apply" /\ rows' = rows
    BY <1>2, <1>5, ApplyMoves DEF Apply
  <2>2. u.at = "check" /\ u.row = t.row /\ u.answer = t.answer /\ u.settled = t.settled
    BY <1>1, <2>1 DEF TaskType
  <2>3. t.answer.status = "none" \/ (rows[t.row].link \in t.settled => rows[t.row].status = "PAID")
    BY <2>1 DEF Known
  <2> HIDE DEF u
  <2> QED
    BY <1>1, <2>1, <2>2, <2>3 DEF Known, u
<1> QED
  BY <1>3, <1>4, <1>5 DEF Reconciling

\* Between two artifacts the sweeper knows only what was settled.
LEMMA LooseKnows ==
  ASSUME TypeInv, TypeInv', Grows, Known(task["sweeper"]), session' = session,
         task'["sweeper"].at \in {"pick", "mark"},
         task'["sweeper"].settled = task["sweeper"].settled
  PROVE  Known(task["sweeper"])'
<1>1. \A l \in task["sweeper"].settled : l \in Links
  BY CountTypes DEF TaskType
<1>2. task["sweeper"].settled # {} => /\ session' = "gone"
                                      /\ \A l \in task["sweeper"].settled : Settled(l)'
  BY <1>1, SettledStays DEF Known
<1> QED
  BY <1>2 DEF Known

LEMMA SweeperKnows ==
  ASSUME TypeInv, MoneyInv, Known(task["sweeper"]), SweeperStep, TypeInv', Grows
  PROVE  Known(task["sweeper"])'
<1> DEFINE t == task["sweeper"]
           u == task'["sweeper"]
<1>1. t \in TaskType /\ \A l \in t.settled : l \in Links
  BY CountTypes DEF TaskType
<1>2. ASSUME t.settled # {}
      PROVE  session = "gone" /\ \A l \in t.settled : Settled(l) /\ Settled(l)'
  BY <1>1, <1>2, SettledStays DEF Known
<1>3. ASSUME NEW quiet \in BOOLEAN, Tick(quiet) PROVE Known(t)'
  <2>1. /\ u.at = "pick" /\ UNCHANGED <<links, session>>
        /\ u.settled = IF Alone THEN {l \in Links : Settled(l)} ELSE {}
    BY <1>3, TickMoves DEF Tick
  <2>2. u.settled # {} => session' = "gone" /\ \A l \in u.settled : Settled(l)'
    BY <2>1 DEF Alone, Settled
  <2> QED
    BY <2>1, <2>2 DEF Known
<1>4. CASE Reconciling("sweeper")
  <2>1. CASE t.settled # {}
    BY <1>4, <2>1, ReconcileKnows
  <2>2. CASE t.settled = {}
    <3>1. u.settled = t.settled
      <4>1. CASE FetchNothing("sweeper") \/ \E r \in Rows : FetchAnswered("sweeper", r)
        BY <4>1, FetchPays
      <4>2. CASE Write("sweeper") \/ Apply("sweeper")
        BY <1>1, <4>2, WriteMoves, ApplyMoves DEF TaskType
      <4> QED
        BY <1>4, <4>1, <4>2 DEF Reconciling
    <3> QED
      BY <2>2, <3>1 DEF Known
  <2> QED
    BY <2>1, <2>2
<1>5. CASE Pick("sweeper")
  <2>1. UNCHANGED <<rows, session>>
    BY <1>5 DEF Pick
  <2>2. CASE u = Idle
    BY <2>2 DEF Known, Idle
  <2>3. CASE u # Idle
    <3>1. /\ u.at \in {"fetch", "check"} /\ u.answer = NoAnswer /\ u.settled = t.settled
          /\ u.was.status = rows[u.row].status
      BY <1>5, <2>3, PickMoves
    <3>2. u.answer.status = "none"
      BY <3>1 DEF NoAnswer
    <3> QED
      BY <1>2, <2>1, <3>1, <3>2 DEF Known
  <2> QED
    BY <2>2, <2>3
<1>6. CASE Check
  <2>1. UNCHANGED <<rows, session>> /\ t.at = "check"
    BY <1>6 DEF Check
  <2>2. CASE /\ StillOwing(t.row)
             /\ u = [t EXCEPT !.at = "gate", !.action = "SEND_WHATSAPP", !.seen = state]
    <3>1. u.at = "gate" /\ u.row = t.row /\ u.answer = t.answer /\ u.settled = t.settled
      BY <1>1, <2>2 DEF TaskType
    <3>2. rows[t.row].status # "PAID"
      BY <2>2 DEF StillOwing, OpenStatuses
    <3>3. t.settled # {} => t.answer.status = "none" \/ rows[t.row].link \notin t.settled
      BY <2>1, <3>2 DEF Known
    <3> HIDE DEF u
    <3> QED
      BY <1>2, <2>1, <3>1, <3>3 DEF Known, u
  <2>3. CASE u.at = "pick" /\ u.settled = t.settled
    BY <2>1, <2>3, LooseKnows
  <2> QED
    BY <1>6, <2>2, <2>3, CheckMoves
<1>7. CASE Gate("sweeper")
  <2>1. UNCHANGED <<rows, session>> /\ t.at = "gate"
    BY <1>7 DEF Gate
  <2>2. ASSUME NEW s \in {"refuse", "message"}, u = [t EXCEPT !.at = s]
        PROVE  Known(t)'
    <3>1. u.at = s /\ u.row = t.row /\ u.answer = t.answer /\ u.settled = t.settled
      BY <1>1, <2>2 DEF TaskType
    <3>2. t.settled # {} => t.answer.status = "none" \/ rows[t.row].link \notin t.settled
      BY <2>1 DEF Known
    <3> HIDE DEF u
    <3> QED
      BY <1>2, <2>1, <3>1, <3>2 DEF Known, u
  <2>3. CASE u.at = "pick" /\ u.settled = t.settled
    BY <2>1, <2>3, LooseKnows
  <2> QED
    BY <1>7, <2>2, <2>3, GateMoves
<1>8. CASE Refuse("sweeper")
  <2>1. u.at = "pick" /\ u.settled = t.settled /\ session' = session
    BY <1>8, RefuseMoves DEF Refuse
  <2> QED
    BY <2>1, LooseKnows
<1>9. CASE Message
  <2>1. u = [t EXCEPT !.at = "mark"] /\ session' = session
    BY <1>9, MessageMoves DEF Message
  <2>2. u.at = "mark" /\ u.settled = t.settled
    BY <1>1, <2>1 DEF TaskType
  <2> QED
    BY <2>1, <2>2, LooseKnows
<1>10. CASE Mark
  <2>1. u.at = "pick" /\ u.settled = t.settled /\ session' = session
    BY <1>10, MarkMoves DEF Mark
  <2> QED
    BY <2>1, LooseKnows
<1> QED
  BY <1>3, <1>4, <1>5, <1>6, <1>7, <1>8, <1>9, <1>10 DEF SweeperStep, SweeperTick

LEMMA StepKnown ==
  ASSUME TypeInv, MoneyInv, KnownInv, [Next]_vars
  PROVE  KnownInv'
<1>1. TypeInv' /\ Grows /\ GoneInv'
  BY StepTypes, StepGone DEF KnownInv
<1>2. GoneInv /\ Known(task["sweeper"])
  BY DEF KnownInv
<1>3. CASE SweeperStep
  BY <1>1, <1>2, <1>3, SweeperKnows DEF KnownInv
<1>4. CASE task'["sweeper"] = task["sweeper"] /\ ~SweeperStep
  <2>1. session = "gone" => \A r \in Rows : rows'[r].status = rows[r].status
    <3> SUFFICES ASSUME session = "gone"
                 PROVE  \A r \in Rows : rows'[r].status = rows[r].status
      OBVIOUS
    <3>1. ~(Asking \/ SessionStep) /\ ~PollerStep
      BY <1>2, GoneStuck
    <3>2. DeskStart \/ DeskStep => rows' = rows
      BY <1>2, GoneDesk
    <3>3. Faults \/ UNCHANGED vars => rows' = rows
      BY FaultsDrop DEF vars
    <3> QED
      BY <1>4, <3>1, <3>2, <3>3, WorldKeeps DEF Next
  <2> QED
    BY <1>1, <1>2, <1>4, <2>1, KnownStays DEF KnownInv
<1>5. CASE task'["sweeper"] = Idle
  BY <1>1, <1>5 DEF KnownInv, Known, Idle
<1>6. \/ SweeperStep \/ task'["sweeper"] = task["sweeper"] \/ task'["sweeper"] = Idle
  <2>1. Kept => task'["sweeper"] = task["sweeper"]
    BY DEF Kept
  <2>2. UNCHANGED vars => task'["sweeper"] = task["sweeper"]
    BY DEF vars
  <2>3. Faults => task'["sweeper"] = task["sweeper"] \/ task'["sweeper"] = Idle
    BY FaultsDrop DEF Procs
  <2> QED
    BY <2>1, <2>2, <2>3, SessionKeeps, DeskKeeps, PollerKeeps, WorldKeeps DEF Next
<1> QED
  BY <1>3, <1>4, <1>5, <1>6

\* Once the session is gone, a follow-up never goes out for a link that was paid
\* in full when the tick began, unless the gateway did not answer
\* (NeverChasedIfPaid).
THEOREM PaidNotChased == Spec => NeverChasedIfPaid
<1>1. TypeInv /\ MoneyInv /\ KnownInv /\ [Next]_vars =>
        [Message => \/ task["sweeper"].answer.status = "none"
                    \/ rows[task["sweeper"].row].link \notin task["sweeper"].settled]_vars
  BY DEF KnownInv, Known, Message
<1>2. Init => KnownInv
  BY DEF Init, KnownInv, GoneInv, Known, Idle, Procs
<1>3. TypeInv /\ MoneyInv /\ KnownInv /\ [Next]_vars => KnownInv'
  BY StepKnown
<1> QED
  BY <1>1, <1>2, <1>3, AlwaysBacked, PTL DEF Spec, NeverChasedIfPaid
-----------------------------------------------------------------------------
(* Links lost sight of.  Every one was lost at a step that counts it, but   *)
(* for those a simulated payment took off the watch.                        *)

Lost == {l \in Links : /\ l <= made /\ Live(l) /\ ~Watched(l)
                       /\ \A r \in forced : rows[r].link # l}

\* A request holds links that exist; the desk's is newer than the one its copy
\* of the case remembers; and "expired" is said of expired links only.
Held(p, t) ==
  /\ p \in {"session", "desk"} => t.link <= made
  /\ p = "desk" =>
       /\ t.meta.link <= made
       /\ t.at \in {"mcp", "sdk"} => t.link = NoLink /\ t.amount > 0
       /\ t.at = "remember" /\ t.link # NoLink => t.meta.link # t.link
  /\ t.at = "write" /\ t.answer.status = "expired" => links[rows[t.row].link].state = "expired"

HeldInv ==
  /\ \A l \in Links : l <= made => links[l].amount > 0
  /\ \A r \in forced : r <= minted
  /\ meta.link <= made
  /\ \A p \in Procs : Held(p, task[p])
StrayInv == HeldInv /\ Cardinality(Lost) <= leaks

LEMMA LinkSets ==
  ASSUME NEW S \in SUBSET Links
  PROVE  IsFiniteSet(S) /\ Cardinality(S) \in Nat
<1>1. IsFiniteSet(1..MaxLinks)
  BY FS_Interval, MoneyAssumption
<1>2. IsFiniteSet(S)
  BY <1>1, FS_Subset
<1> QED
  BY <1>2, FS_CardinalityType

LEMMA NoMore ==
  ASSUME NEW S \in SUBSET Links, NEW T \in SUBSET S
  PROVE  Cardinality(T) <= Cardinality(S)
  BY LinkSets, FS_Subset

LEMMA OneMore ==
  ASSUME NEW S \in SUBSET Links, NEW x, NEW T \in SUBSET (S \cup {x})
  PROVE  Cardinality(T) <= Cardinality(S) + 1
<1>1. IsFiniteSet(S) /\ Cardinality(S) \in Nat
  BY LinkSets
<1>2. IsFiniteSet(S \cup {x}) /\ Cardinality(S \cup {x}) <= Cardinality(S) + 1
        /\ Cardinality(S \cup {x}) \in Nat
  BY <1>1, FS_AddElement
<1>3. Cardinality(T) <= Cardinality(S \cup {x}) /\ IsFiniteSet(T)
  BY <1>2, FS_Subset
<1>4. Cardinality(T) \in Nat
  BY <1>3, FS_CardinalityType
<1> QED
  BY <1>1, <1>2, <1>3, <1>4

LEMMA ImageBound ==
  ASSUME NEW S, IsFiniteSet(S), NEW f, f = [x \in S |-> f[x]]
  PROVE  /\ IsFiniteSet({f[x] : x \in S})
         /\ Cardinality({f[x] : x \in S}) <= Cardinality(S)
<1> DEFINE T == {f[x] : x \in S}
<1>1. f \in Surjection(S, T)
  BY DEF Surjection
<1> QED
  BY <1>1, FS_Surjection

\* Which links come out of sight, when no row stops watching one that can
\* still be paid.
RowsWatch ==
  \A r \in Rows : r <= minted /\ Real(r) /\ rows[r].status \in OpenStatuses =>
    \/ rows'[r].status \in OpenStatuses
    \/ r \in forced'
    \/ ~Live(rows[r].link)'

LEMMA NewlyLost ==
  ASSUME TypeInv, HeldInv, TypeInv', Grows, RowsWatch,
         NEW l \in Links, l \in Lost', l \notin Lost, l <= made
  PROVE  \/ l = meta.link /\ meta'.link # l
         \/ \E p \in {"session", "desk"} :
              Holds(p) /\ task[p].link = l /\ ~(Holds(p)' /\ task'[p].link = l)
<1>1. /\ Live(l)' /\ ~Watched(l)' /\ \A r \in forced' : rows'[r].link # l
  BY DEF Lost
<1>2. Live(l)
  <2>1. links[l].amount > 0
    BY DEF HeldInv
  <2>2. links[l].state # "open" => links'[l] = links[l]
    BY <2>1 DEF Grows
  <2>3. Settled(l) => Settled(l)'
    BY SettledStays
  <2> QED
    BY <1>1, <2>2, <2>3 DEF Live
<1>3. minted \in Nat /\ minted' \in Nat /\ minted <= minted' /\ forced \subseteq Rows
  BY MoneyAssumption DEF TypeInv, TypeOK, Grows
<1>4. \A r \in Rows : r <= minted => r <= minted' /\ rows'[r].link = rows[r].link
  BY <1>3, MoneyAssumption DEF Grows
<1>5. \A r \in forced : rows[r].link # l
  BY <1>1, <1>3, <1>4 DEF HeldInv, Grows
<1>6. Watched(l)
  BY <1>2, <1>5 DEF Lost
<1>7. ASSUME NEW r \in Rows, r <= minted, rows[r].link = l, rows[r].status \in OpenStatuses
      PROVE  FALSE
  <2>1. Real(r) /\ r <= minted' /\ rows'[r].link = l
    BY <1>4, <1>7, MoneyAssumption DEF Real
  <2>2. \/ rows'[r].status \in OpenStatuses
        \/ r \in forced'
        \/ ~Live(l)'
    BY <1>7, <2>1 DEF RowsWatch
  <2> QED
    BY <1>1, <2>1, <2>2 DEF Watched
<1>8. meta.link = l \/ \E p \in {"session", "desk"} : Holds(p) /\ task[p].link = l
  BY <1>6, <1>7 DEF Watched
<1>9. meta'.link # l /\ \A p \in {"session", "desk"} : ~(Holds(p)' /\ task'[p].link = l)
  BY <1>1 DEF Watched
<1> QED
  BY <1>8, <1>9

\* What a process holds stays true when others move.
LEMMA HeldStays ==
  ASSUME TypeInv, MoneyInv, TypeInv', Grows, made <= made', NEW p \in Procs,
         Held(p, task[p]), task'[p] = task[p]
  PROVE  Held(p, task[p])'
<1>1. /\ made \in Nat /\ made' \in Nat /\ task[p] \in TaskType /\ Placed(p, task[p])
      /\ task[p].link \in Nat /\ task[p].meta.link \in Nat
  <2>1. made \in Nat /\ made' \in Nat /\ task[p] \in TaskType /\ Placed(p, task[p])
    BY MoneyAssumption DEF TypeInv, TypeOK
  <2>2. task[p].link \in Nat /\ task[p].meta \in MetaType
    BY <2>1, MoneyAssumption DEF TaskType
  <2>3. task[p].meta.link \in Nat
    BY <2>2, MoneyAssumption DEF MetaType
  <2> QED
    BY <2>1, <2>2, <2>3
<1>2. CASE task[p].at = "write"
  <2>1. task[p].row \in Rows /\ task[p].row <= minted /\ Real(task[p].row)
    BY <1>1, <1>2 DEF Placed, OnRow
  <2>2. /\ rows'[task[p].row].link = rows[task[p].row].link
        /\ links[rows[task[p].row].link].state # "open" =>
             links'[rows[task[p].row].link] = links[rows[task[p].row].link]
    BY <2>1, RowFacts DEF Real
  <2>3. task[p].answer.status = "expired" =>
          links'[rows'[task[p].row].link].state = "expired"
    BY <1>2, <2>2 DEF Held
  <2>4. p \notin {"session"} /\ (p = "desk" => task[p].meta.link <= made')
    BY <1>1, <1>2 DEF Held, Placed, StepsOf, Procs
  <2>5. p = "desk" => task[p].link <= made'
    BY <1>1 DEF Held
  <2> QED
    BY <1>2, <2>3, <2>4, <2>5 DEF Held
<1>3. CASE task[p].at # "write"
  BY <1>1, <1>3 DEF Held
<1> QED
  BY <1>2, <1>3

LEMMA HeldMoves ==
  ASSUME TypeInv, MoneyInv, HeldInv, NEW p \in Procs, Moved(p), Held(p, task[p])',
         \A l \in Links : l <= made' => l <= made \/ links'[l].amount > 0,
         \A r \in forced' : r <= minted',
         made <= made', meta'.link <= made'
  PROVE  HeldInv'
<1>1. \A q \in Procs : Held(q, task[q])'
  <2> TAKE q \in Procs
  <2>1. CASE q = p
    BY <2>1
  <2>2. CASE q # p
    <3>1. task'[q] = task[q] /\ TypeInv' /\ Grows /\ Held(q, task[q])
      BY <2>2 DEF Moved, HeldInv
    <3> QED
      BY <3>1, HeldStays
  <2> QED
    BY <2>1, <2>2
<1>2. \A l \in Links : l <= made' => links'[l].amount > 0
  BY DEF HeldInv, Moved, Grows
<1> QED
  BY <1>1, <1>2 DEF HeldInv

\* The most frequent step: nothing is made, and nothing comes out of sight.
LEMMA StrayQuiet ==
  ASSUME TypeInv, MoneyInv, StrayInv, NEW p \in Procs, Moved(p), Held(p, task[p])',
         made' = made, meta'.link = meta.link, leaks <= leaks',
         \A r \in forced' : r <= minted', RowsWatch,
         p \in {"session", "desk"} /\ Holds(p) => Holds(p)' /\ task'[p].link = task[p].link
  PROVE  StrayInv'
<1>1. /\ made \in Nat /\ meta.link \in Nat /\ leaks \in Nat /\ leaks' \in Nat
      /\ TypeInv' /\ Grows
  <2>1. made \in Nat /\ meta \in MetaType /\ leaks \in Nat
    BY MoneyAssumption DEF TypeInv, TypeOK
  <2>2. TypeInv' /\ Grows
    BY DEF Moved
  <2>3. leaks' \in Nat
    BY <2>2 DEF TypeInv, TypeOK
  <2> QED
    BY <2>1, <2>2, <2>3, MoneyAssumption DEF MetaType
<1>2. HeldInv'
  BY <1>1, HeldMoves DEF StrayInv, HeldInv
<1>3. \A q \in {"session", "desk"} : Holds(q) => Holds(q)' /\ task'[q].link = task[q].link
  BY DEF Holds, Moved, Procs
<1>4. Lost' \subseteq Lost
  <2> SUFFICES ASSUME NEW l \in Links, l \in Lost', l \notin Lost
               PROVE  FALSE
    BY DEF Lost
  <2>1. l <= made
    BY DEF Lost
  <2> QED
    BY <1>1, <1>3, <2>1, NewlyLost DEF StrayInv
<1>5. Lost \subseteq Links
  BY DEF Lost
<1>6. Cardinality(Lost') <= Cardinality(Lost) /\ Cardinality(Lost) \in Nat
      /\ Cardinality(Lost') \in Nat
  BY <1>4, <1>5, NoMore, LinkSets
<1> QED
  BY <1>1, <1>2, <1>6 DEF StrayInv

\* One link at most comes out of sight, and it is counted.
LEMMA StrayCounted ==
  ASSUME TypeInv, StrayInv, TypeInv', HeldInv', NEW x,
         Lost' \subseteq Lost \cup {x}, leaks' = leaks + 1
  PROVE  StrayInv'
<1>1. leaks \in Nat /\ Lost \subseteq Links /\ Lost' \subseteq Links
  BY DEF TypeInv, TypeOK, Lost
<1>2. Cardinality(Lost') <= Cardinality(Lost) + 1 /\ Cardinality(Lost) \in Nat
      /\ Cardinality(Lost') \in Nat
  BY <1>1, OneMore, LinkSets
<1> QED
  BY <1>1, <1>2 DEF StrayInv

LEMMA StraySame ==
  ASSUME TypeInv, StrayInv, TypeInv', HeldInv', Lost' \subseteq Lost, leaks <= leaks'
  PROVE  StrayInv'
<1>1. leaks \in Nat /\ leaks' \in Nat /\ Lost \subseteq Links
  BY DEF TypeInv, TypeOK, Lost
<1>2. Cardinality(Lost') <= Cardinality(Lost) /\ Cardinality(Lost) \in Nat
      /\ Cardinality(Lost') \in Nat
  BY <1>1, NoMore, LinkSets
<1> QED
  BY <1>1, <1>2 DEF StrayInv

LEMMA StrayTypes ==
  ASSUME TypeInv
  PROVE  /\ made \in Nat /\ minted \in Nat /\ leaks \in Nat /\ meta.link \in Nat
         /\ meta.link \in Links \cup {NoLink} /\ MaxLinks \in Nat /\ Total \in Nat \ {0}
         /\ \A p \in Procs : /\ task[p] \in TaskType /\ Placed(p, task[p])
                             /\ task[p].link \in Links \cup {NoLink}
                             /\ task[p].link \in Nat /\ task[p].amount \in Nat
                             /\ task[p].meta \in MetaType /\ task[p].meta.link \in Nat
<1>1. /\ made \in Nat /\ minted \in Nat /\ leaks \in Nat /\ meta \in MetaType
      /\ MaxLinks \in Nat /\ Total \in Nat \ {0}
  BY MoneyAssumption DEF TypeInv, TypeOK
<1>2. meta.link \in Links \cup {NoLink} /\ meta.link \in Nat
  BY <1>1 DEF MetaType
<1>3. ASSUME NEW p \in Procs
      PROVE  /\ task[p] \in TaskType /\ Placed(p, task[p])
             /\ task[p].link \in Links \cup {NoLink}
             /\ task[p].link \in Nat /\ task[p].amount \in Nat
             /\ task[p].meta \in MetaType /\ task[p].meta.link \in Nat
  <2>1. task[p] \in TaskType /\ Placed(p, task[p])
    BY DEF TypeInv, TypeOK
  <2>2. task[p].link \in Links \cup {NoLink} /\ task[p].meta \in MetaType
        /\ task[p].amount \in 0..Total
    BY <2>1 DEF TaskType
  <2>3. task[p].meta.link \in Nat
    BY <1>1, <2>2 DEF MetaType
  <2> QED
    BY <1>1, <2>1, <2>2, <2>3
<1> QED
  BY <1>1, <1>2, <1>3

\* A step of a process that holds no link and leaves the books alone.
LEMMA StrayStill ==
  ASSUME TypeInv, MoneyInv, StrayInv, NEW p \in Procs, Moved(p), Held(p, task[p])',
         made' = made, meta'.link = meta.link, leaks' = leaks,
         UNCHANGED <<rows, minted, forced>>, p \in {"session", "desk"} => ~Holds(p)
  PROVE  StrayInv'
<1>1. RowsWatch /\ \A r \in forced' : r <= minted'
  BY DEF RowsWatch, StrayInv, HeldInv
<1> QED
  BY <1>1, StrayQuiet, StrayTypes

LEMMA IdleHeld ==
  ASSUME TypeInv', NEW p \in Procs, task'[p] = Idle
  PROVE  Held(p, task[p])'
<1>1. made' \in Nat
  BY MoneyAssumption DEF TypeInv, TypeOK
<1>2. /\ task'[p].at = "idle" /\ task'[p].link = 0 /\ task'[p].meta.link = 0
  BY DEF Idle
<1> QED
  BY <1>1, <1>2 DEF Held

\* The loops hold no links.
LEMMA LooseHeld ==
  ASSUME NEW p \in {"poller", "sweeper"}, task'[p].at # "write"
  PROVE  Held(p, task[p])'
  BY DEF Held

LEMMA SessionHeld ==
  ASSUME task'["session"].at # "write", task'["session"].link <= made'
  PROVE  Held("session", task["session"])'
  BY DEF Held

LEMMA AskStrays ==
  ASSUME TypeInv, MoneyInv, StrayInv, NEW o \in Offers, NEW quiet \in BOOLEAN, Ask(o, quiet)
  PROVE  StrayInv'
<1>1. /\ task'["session"].link = NoLink /\ task'["session"].at = "gate"
      /\ "session" \in Procs /\ ~Holds("session")
  BY DEF Ask, TypeInv, TypeOK, Procs, Idle, Holds
<1>2. Moved("session") /\ UNCHANGED <<made, meta, leaks, rows, minted, forced>>
  BY AskMoves DEF Ask
<1>3. Held("session", task["session"])'
  BY <1>1, <1>2, SessionHeld, StrayTypes
<1> QED
  BY <1>1, <1>2, <1>3, StrayStill

LEMMA GateStrays ==
  ASSUME TypeInv, MoneyInv, StrayInv, NEW p \in {"session", "sweeper"}, Gate(p) \/ Refuse(p)
  PROVE  StrayInv'
<1>1. Moved(p) /\ UNCHANGED <<made, meta, leaks, rows, minted, forced>> /\ p \in Procs
      /\ ~Holds(p) /\ task[p].at \in {"gate", "refuse"}
  BY GateMoves, RefuseMoves DEF Gate, Refuse, Procs, Holds
<1>2. Held(p, task[p])'
  <2>1. CASE p = "sweeper"
    <3>1. task'[p].at # "write"
      BY <1>1, <2>1, GateMoves, RefuseMoves, StrayTypes DEF TaskType
    <3> QED
      BY <2>1, <3>1, LooseHeld
  <2>2. CASE p = "session" /\ task'[p] = Idle
    BY <1>1, <2>2, IdleHeld DEF Moved
  <2>3. CASE p = "session" /\ task'[p] # Idle
    <3>1. task'[p].link = task[p].link \/ task'[p].link = NoLink
      BY <1>1, <2>3, GateMoves, RefuseMoves, StrayTypes DEF TaskType
    <3>2. task'[p].at # "write"
      BY <1>1, <2>3, GateMoves, RefuseMoves, StrayTypes DEF TaskType
    <3>3. task'[p].link <= made'
      BY <1>1, <2>3, <3>1, StrayTypes DEF StrayInv, HeldInv, Held
    <3> QED
      BY <2>3, <3>2, <3>3, SessionHeld
  <2> QED
    BY <2>1, <2>2, <2>3
<1> QED
  BY <1>1, <1>2, StrayStill

\* The gateway makes a link: the one who asked holds it, or it is counted.
LEMMA CreateStrays ==
  ASSUME TypeInv, MoneyInv, StrayInv, NEW p \in {"session", "desk"}, NEW partial \in BOOLEAN,
         NEW next \in {"sdk", Minted(p)}, Create(p, partial, next),
         task[p].at \in {"mcp", "sdk"},
         UNCHANGED <<fixed, bookVars, caseVars, session, forced, chases, faults>>
  PROVE  StrayInv'
<1>1. /\ Moved(p) /\ p \in Procs /\ Minted(p) \in {"remember", "cancel"}
      /\ (p = "desk" => Minted(p) = "remember") /\ (p = "session" => Minted(p) = "cancel")
  BY CreateMoves, MintedStep DEF Minted
<1>2. /\ made' = made + 1 /\ made + 1 \in Links
      /\ links'[made + 1].amount = task[p].amount
  <2>1. /\ made + 1 \in Links
        /\ links'[made + 1] = [amount |-> task[p].amount, partial |-> partial,
                               expires |-> partial, paid |-> 0, state |-> "open"]
    BY LedgerGrows
  <2> QED
    BY <2>1 DEF Create
<1>3. task[p].amount > 0 /\ Held(p, task[p]) /\ made \in Nat /\ made' \in Nat
  BY <1>1, <1>2, StrayTypes DEF MoneyInv, TaskOK, StrayInv, HeldInv, Held
<1>4. \A l \in Links : l <= made' => l <= made \/ links'[l].amount > 0
  BY <1>2, <1>3
<1>5. RowsWatch /\ (\A r \in forced' : r <= minted') /\ made <= made' /\ meta'.link <= made'
  BY <1>2, <1>3, StrayTypes DEF RowsWatch, StrayInv, HeldInv
<1>6. \A l \in Lost' : l \in Lost \/ l = made + 1
  <2> SUFFICES ASSUME NEW l \in Links, l \in Lost', l \notin Lost, l # made + 1
               PROVE  FALSE
    BY DEF Lost
  <2>1. l <= made
    BY <1>2, <1>3 DEF Lost
  <2>2. \E q \in {"session", "desk"} :
          Holds(q) /\ task[q].link = l /\ ~(Holds(q)' /\ task'[q].link = l)
    BY <1>1, <1>5, <2>1, NewlyLost DEF StrayInv, Moved
  <2>3. ~Holds(p) /\ \A q \in {"session", "desk"} : q # p => task'[q] = task[q]
    BY <1>1 DEF Holds, Moved, Procs
  <2> QED
    BY <2>2, <2>3 DEF Holds
<1>7. CASE /\ task' = [task EXCEPT ![p].at = Minted(p), ![p].link = made + 1]
           /\ UNCHANGED leaks
  <2>1. task'[p] = [task[p] EXCEPT !.at = Minted(p), !.link = made + 1]
    BY <1>1, <1>7 DEF TypeInv, TypeOK
  <2>2. task'[p].at = Minted(p) /\ task'[p].link = made + 1 /\ task'[p].meta = task[p].meta
    BY <1>1, <2>1, StrayTypes DEF TaskType
  <2>3. Held(p, task[p])'
    BY <1>1, <1>2, <1>3, <2>2, StrayTypes DEF Held
  <2>4. HeldInv'
    BY <1>1, <1>4, <1>5, <2>3, HeldMoves DEF StrayInv
  <2>5. Holds(p)' /\ task'[p].link = made + 1
    BY <1>1, <1>2, <2>2 DEF Holds
  <2>6. made + 1 \notin Lost'
    BY <2>5 DEF Lost, Watched
  <2> QED
    BY <1>1, <1>6, <1>7, <2>4, <2>6, StraySame, StrayTypes DEF Moved
<1>8. CASE Goto(p, next) /\ leaks' = leaks + 1
  <2>1. task'[p] = [task[p] EXCEPT !.at = next]
    BY <1>1, <1>8 DEF TypeInv, TypeOK
  <2>2. /\ task'[p].at = next /\ task'[p].link = task[p].link
        /\ task'[p].meta = task[p].meta /\ task'[p].amount = task[p].amount
    BY <1>1, <2>1, StrayTypes DEF TaskType
  <2>3. Held(p, task[p])'
    BY <1>1, <1>2, <1>3, <2>2, StrayTypes DEF Held
  <2>4. HeldInv'
    BY <1>1, <1>4, <1>5, <2>3, HeldMoves DEF StrayInv
  <2> QED
    BY <1>1, <1>6, <1>8, <2>4, StrayCounted DEF Moved
<1> QED
  BY <1>7, <1>8 DEF Create

LEMMA TransportStrays ==
  ASSUME TypeInv, MoneyInv, StrayInv, NEW p \in {"session", "desk"}, AskMcp(p) \/ AskSdk(p)
  PROVE  StrayInv'
<1>1. /\ p \in Procs /\ Minted(p) \in {"remember", "cancel"}
      /\ task[p].partial \in BOOLEAN /\ task[p].at \in {"mcp", "sdk"}
      /\ UNCHANGED <<fixed, bookVars, caseVars, session, forced, chases, faults>>
      /\ Moved(p)
  BY MintedStep, StrayTypes, AskMcpMoves, AskSdkMoves DEF TaskType, AskMcp, AskSdk
<1>2. ASSUME NEW s \in {"sdk", Minted(p)}, Goto(p, s), UNCHANGED <<moneyVars, leaks>>
      PROVE  StrayInv'
  <2>1. task'[p] = [task[p] EXCEPT !.at = s]
    BY <1>1, <1>2 DEF TypeInv, TypeOK
  <2>2. /\ task'[p].at = s /\ task'[p].link = task[p].link
        /\ task'[p].meta = task[p].meta /\ task'[p].amount = task[p].amount
    BY <1>1, <2>1, StrayTypes DEF TaskType
  <2>3. Held(p, task[p]) /\ made' = made
    BY <1>1, <1>2 DEF StrayInv, HeldInv
  <2>4. Held(p, task[p])'
    BY <1>1, <2>2, <2>3, StrayTypes DEF Held
  <2>5. ~Holds(p)
    BY <1>1 DEF Holds
  <2> QED
    BY <1>1, <1>2, <2>4, <2>5, StrayStill
<1>3. ASSUME NEW partial \in BOOLEAN, NEW s \in {"sdk", Minted(p)}, Create(p, partial, s)
      PROVE  StrayInv'
  BY <1>1, <1>3, CreateStrays
<1> QED
  BY <1>1, <1>2, <1>3 DEF AskMcp, AskSdk

LEMMA CancelStrays ==
  ASSUME TypeInv, MoneyInv, StrayInv, CancelPrior
  PROVE  StrayInv'
<1> DEFINE t == task["session"]
<1>1. PICK done \in SUBSET Links :
        /\ CancelAll(Active, done)
        /\ UNCHANGED <<fixed, made, bookVars, caseVars, session, forced, chases>>
  BY DEF CancelPrior
<1>2. /\ Moved("session") /\ "session" \in Procs /\ t.at = "cancel" /\ t \in TaskType
      /\ t.link <= made
  <2>1. "session" \in Procs
    BY DEF Procs
  <2> QED
    BY <1>1, <2>1, CancelMoves, StrayTypes DEF CancelPrior, StrayInv, HeldInv, Held
<1>3. RowsWatch /\ (\A r \in forced' : r <= minted') /\ made' = made /\ meta' = meta
  BY <1>1 DEF RowsWatch, StrayInv, HeldInv
<1>4. CASE task' = [task EXCEPT !["session"].at = "record", !["session"].prior = Active]
           /\ UNCHANGED leaks
  <2>1. task'["session"] = [t EXCEPT !.at = "record", !.prior = Active]
    BY <1>2, <1>4 DEF TypeInv, TypeOK
  <2>2. task'["session"].at = "record" /\ task'["session"].link = t.link
    BY <1>2, <2>1 DEF TaskType
  <2>3. Held("session", task["session"])'
    BY <1>2, <1>3, <2>2, SessionHeld
  <2>4. Holds("session") => Holds("session")' /\ task'["session"].link = t.link
    BY <2>2 DEF Holds
  <2>5. leaks <= leaks' /\ meta'.link = meta.link
    BY <1>3, <1>4, StrayTypes
  <2> QED
    BY <1>2, <1>3, <2>3, <2>4, <2>5, StrayQuiet
<1>5. CASE Rest("session") /\ leaks' = IF t.link # NoLink THEN leaks + 1 ELSE leaks
  <2>1. task'["session"] = Idle
    BY <1>2, <1>5 DEF TypeInv, TypeOK
  <2>2. Held("session", task["session"])'
    BY <1>2, <2>1, IdleHeld DEF Moved
  <2>3. CASE t.link = NoLink
    <3>1. ~Holds("session") /\ leaks' = leaks
      BY <1>5, <2>3 DEF Holds
    <3> QED
      BY <1>2, <1>3, <2>2, <3>1, StrayQuiet, StrayTypes
  <2>4. CASE t.link # NoLink
    <3>1. HeldInv'
      BY <1>2, <1>3, <2>2, HeldMoves, StrayTypes DEF StrayInv, HeldInv
    <3>2. \A l \in Lost' : l \in Lost \/ l = t.link
      <4> SUFFICES ASSUME NEW l \in Links, l \in Lost', l \notin Lost
                   PROVE  l = t.link
        BY DEF Lost
      <4>1. l <= made
        BY <1>3 DEF Lost
      <4>2. \E q \in {"session", "desk"} :
              Holds(q) /\ task[q].link = l /\ ~(Holds(q)' /\ task'[q].link = l)
        BY <1>2, <1>3, <4>1, NewlyLost DEF StrayInv, Moved
      <4>3. task'["desk"] = task["desk"]
        BY <1>2 DEF Moved, Procs
      <4> QED
        BY <4>2, <4>3 DEF Holds
    <3> QED
      BY <1>2, <1>5, <2>4, <3>1, <3>2, StrayCounted DEF Moved
  <2> QED
    BY <2>3, <2>4
<1>6. \/ /\ task' = [task EXCEPT !["session"].at = "record", !["session"].prior = Active]
         /\ UNCHANGED leaks
      \/ Rest("session") /\ leaks' = IF t.link # NoLink THEN leaks + 1 ELSE leaks
  BY <1>1 DEF CancelAll
<1> QED
  BY <1>4, <1>5, <1>6

\* The new row watches the link; the closed ones watched nothing payable.
LEMMA RecordStrays ==
  ASSUME TypeInv, MoneyInv, StrayInv, Record
  PROVE  StrayInv'
<1> DEFINE t == task["session"]
<1>1. /\ Moved("session") /\ "session" \in Procs /\ t.at = "record" /\ t \in TaskType
      /\ t.link <= made /\ UNCHANGED <<links, made, meta, leaks, forced>>
      /\ task'["session"] = [t EXCEPT !.at = "book"]
  <2>1. "session" \in Procs
    BY DEF Procs
  <2> QED
    BY <2>1, RecordMoves, StrayTypes DEF Record, StrayInv, HeldInv, Held
<1>2. task'["session"].at = "book" /\ task'["session"].link = t.link
  BY <1>1 DEF TaskType
<1>3. Held("session", task["session"])'
  BY <1>1, <1>2, SessionHeld
<1>4. /\ minted + 1 \in Rows /\ minted' = minted + 1 /\ minted \in Nat
      /\ rows'[minted + 1].link = t.link /\ rows'[minted + 1].status = "CREATED"
      /\ \A r \in Rows : r <= minted =>
           rows'[r] = IF r \in t.prior THEN [rows[r] EXCEPT !.status = "CLOSED"] ELSE rows[r]
  BY RecordMoves, StrayTypes
<1>5. RowsWatch
  <2> SUFFICES ASSUME NEW r \in Rows, r <= minted, Real(r), rows[r].status \in OpenStatuses
               PROVE  rows'[r].status \in OpenStatuses \/ ~Live(rows[r].link)'
    BY DEF RowsWatch
  <2>1. CASE r \in t.prior
    <3>1. Barred(r)
      BY <1>1, <2>1 DEF MoneyInv, TaskOK
    <3>2. links'[rows[r].link].state = "cancelled" /\ rows'[r].link = rows[r].link
      BY <1>1, <3>1 DEF Barred, Moved, Grows
    <3>3. ~Live(rows[r].link)'
      BY <1>1, <2>1, <1>4, <3>2, CountTypes DEF Live, RowType
    <3> QED
      BY <3>3
  <2>2. CASE r \notin t.prior
    BY <1>4, <2>2
  <2> QED
    BY <2>1, <2>2
<1>6. (\A r \in forced' : r <= minted') /\ HeldInv'
  <2>1. \A r \in forced' : r <= minted'
    BY <1>1, <1>4, MoneyAssumption DEF StrayInv, HeldInv, TypeInv, TypeOK
  <2> QED
    BY <1>1, <1>3, <2>1, HeldMoves, StrayTypes DEF StrayInv, HeldInv
<1>7. Lost' \subseteq Lost
  <2> SUFFICES ASSUME NEW l \in Links, l \in Lost', l \notin Lost
               PROVE  FALSE
    BY DEF Lost
  <2>1. l <= made
    BY <1>1 DEF Lost
  <2>2. \E q \in {"session", "desk"} :
          Holds(q) /\ task[q].link = l /\ ~(Holds(q)' /\ task'[q].link = l)
    BY <1>1, <1>5, <2>1, NewlyLost DEF StrayInv, Moved
  <2>3. task'["desk"] = task["desk"]
    BY <1>1 DEF Moved, Procs
  <2>4. t.link = l
    BY <2>2, <2>3 DEF Holds
  <2>5. Watched(l)'
    BY <1>4, <2>4 DEF Watched, OpenStatuses
  <2> QED
    BY <2>5 DEF Lost
<1> QED
  BY <1>1, <1>6, <1>7, StraySame, StrayTypes DEF Moved

\* A step that replaces what the case remembers, and drops nothing else.
LEMMA ForgetStrays ==
  ASSUME TypeInv, StrayInv, TypeInv', Grows, HeldInv', UNCHANGED <<rows, minted, made>>,
         Forget(meta'.link),
         \A q \in {"session", "desk"} : Holds(q) =>
            \/ Holds(q)' /\ task'[q].link = task[q].link
            \/ task[q].link = meta'.link
  PROVE  StrayInv'
<1>1. RowsWatch
  BY DEF RowsWatch
<1>2. ASSUME NEW l \in Links, l \in Lost', l \notin Lost
      PROVE  l = meta.link /\ meta.link \notin {NoLink, meta'.link} /\ Unwatched(meta.link)
  <2>1. l <= made /\ ~Watched(l)' /\ l # NoLink
    BY <1>2, MoneyAssumption DEF Lost
  <2>2. \A q \in {"session", "desk"} : Holds(q) /\ task[q].link = l =>
          Holds(q)' /\ task'[q].link = l
    <3> SUFFICES ASSUME NEW q \in {"session", "desk"}, Holds(q), task[q].link = l,
                        l = meta'.link
                 PROVE  FALSE
      OBVIOUS
    <3> QED
      BY <2>1 DEF Watched
  <2>3. l = meta.link /\ meta'.link # l
    BY <1>1, <1>2, <2>1, <2>2, NewlyLost DEF StrayInv
  <2>4. Unwatched(l)
    <3> SUFFICES ASSUME NEW r \in Rows, r <= minted, rows[r].link = l,
                        rows[r].status \in OpenStatuses
                 PROVE  FALSE
      BY DEF Unwatched
    <3>1. Watched(l)'
      BY DEF Watched
    <3> QED
      BY <2>1, <3>1
  <2> QED
    BY <2>1, <2>3, <2>4
<1>3. CASE meta.link \notin {NoLink, meta'.link} /\ Unwatched(meta.link)
  <2>1. leaks' = leaks + 1
    BY <1>3 DEF Forget
  <2>2. Lost' \subseteq Lost \cup {meta.link}
    BY <1>2 DEF Lost
  <2> QED
    BY <2>1, <2>2, StrayCounted
<1>4. CASE ~(meta.link \notin {NoLink, meta'.link} /\ Unwatched(meta.link))
  <2>1. leaks' = leaks
    BY <1>4 DEF Forget
  <2>2. Lost' \subseteq Lost
    BY <1>2, <1>4 DEF Lost
  <2> QED
    BY <2>1, <2>2, StraySame, StrayTypes
<1> QED
  BY <1>3, <1>4

LEMMA BookStrays ==
  ASSUME TypeInv, MoneyInv, StrayInv, Book
  PROVE  StrayInv'
<1> DEFINE t == task["session"]
<1>1. /\ Moved("session") /\ "session" \in Procs /\ t.at = "book" /\ t \in TaskType
      /\ t.link <= made /\ UNCHANGED <<links, made, rows, minted, forced>>
      /\ task'["session"] = [t EXCEPT !.at = "tell", !.seen = state]
  <2>1. "session" \in Procs
    BY DEF Procs
  <2> QED
    BY <2>1, BookMoves, StrayTypes DEF Book, StrayInv, HeldInv, Held
<1>2. task'["session"].at = "tell" /\ task'["session"].link = t.link
  BY <1>1 DEF TaskType
<1>3. meta'.link = t.link /\ Forget(meta'.link)
  BY DEF Book
<1>4. HeldInv'
  <2>1. Held("session", task["session"])'
    BY <1>1, <1>2, SessionHeld
  <2>2. \A r \in forced' : r <= minted'
    BY <1>1 DEF StrayInv, HeldInv
  <2>3. made <= made' /\ meta'.link <= made'
    BY <1>1, <1>3, StrayTypes
  <2>4. \A l \in Links : l <= made' => l <= made
    BY <1>1
  <2> QED
    BY <1>1, <2>1, <2>2, <2>3, <2>4, HeldMoves DEF StrayInv
<1>5. \A q \in {"session", "desk"} : Holds(q) => Holds(q)' /\ task'[q].link = task[q].link
  <2>1. ~Holds("session") /\ task'["desk"] = task["desk"]
    BY <1>1 DEF Holds, Moved, Procs
  <2> QED
    BY <2>1 DEF Holds
<1> QED
  BY <1>1, <1>3, <1>4, <1>5, ForgetStrays DEF Moved

\* The desk's link is newer than its copy of the case: it is remembered.
LEMMA RememberStrays ==
  ASSUME TypeInv, MoneyInv, StrayInv, Remember
  PROVE  StrayInv'
<1> DEFINE t == task["desk"]
           new == [t.meta EXCEPT !.link = t.link]
<1>1. /\ Moved("desk") /\ "desk" \in Procs /\ t.at = "remember" /\ t \in TaskType
      /\ Held("desk", t) /\ UNCHANGED <<links, made, rows, minted, forced>>
      /\ task'["desk"] = Idle
  <2>1. "desk" \in Procs
    BY DEF Procs
  <2> QED
    BY <2>1, RememberMoves, StrayTypes DEF Remember, StrayInv, HeldInv
<1>2. new.link = t.link /\ (new = t.meta => t.link = t.meta.link)
  BY <1>1 DEF TaskType, MetaType
<1>3. \/ meta' = meta /\ ~Holds("desk")
      \/ meta'.link = t.link
  <2>1. meta' = IF new = t.meta THEN meta ELSE new
    BY DEF Remember, Flush
  <2>2. new = t.meta => t.link = NoLink
    BY <1>1, <1>2 DEF Held
  <2> HIDE DEF new
  <2> QED
    BY <1>2, <2>1, <2>2 DEF Holds
<1>4. t.link <= made /\ meta.link <= made /\ made \in Nat
  BY <1>1, StrayTypes DEF Held, StrayInv, HeldInv
<1>5. HeldInv'
  <2>1. Held("desk", task["desk"])'
    BY <1>1, IdleHeld DEF Moved
  <2>2. \A r \in forced' : r <= minted'
    BY <1>1 DEF StrayInv, HeldInv
  <2>3. made <= made' /\ meta'.link <= made'
    BY <1>1, <1>3, <1>4
  <2>4. \A l \in Links : l <= made' => l <= made
    BY <1>1
  <2> QED
    BY <1>1, <2>1, <2>2, <2>3, <2>4, HeldMoves DEF StrayInv
<1>6. \A q \in {"session", "desk"} : Holds(q) =>
         \/ Holds(q)' /\ task'[q].link = task[q].link
         \/ task[q].link = meta'.link
  <2>1. task'["session"] = task["session"]
    BY <1>1 DEF Moved, Procs
  <2> QED
    BY <1>3, <2>1 DEF Holds
<1>7. Forget(meta'.link)
  BY DEF Remember
<1> QED
  BY <1>1, <1>5, <1>6, <1>7, ForgetStrays DEF Moved

\* The steps after which a process holds nothing, or what it held.
LEMMA RestStrays ==
  ASSUME TypeInv, MoneyInv, StrayInv, NEW p \in Procs, Moved(p), task'[p] = Idle,
         p \in {"session", "desk"} => ~Holds(p),
         made' = made, meta'.link = meta.link, leaks' = leaks,
         UNCHANGED <<rows, minted, forced>>
  PROVE  StrayInv'
<1>1. Held(p, task[p])'
  BY IdleHeld DEF Moved
<1> QED
  BY <1>1, StrayStill

LEMMA TellStrays ==
  ASSUME TypeInv, MoneyInv, StrayInv, Tell \/ CloseByStatus
  PROVE  StrayInv'
<1>1. CASE Tell
  <2>1. Moved("session") /\ task'["session"] = Idle /\ "session" \in Procs
    BY <1>1, TellMoves DEF Procs
  <2>2. ~Holds("session") /\ UNCHANGED <<made, meta, leaks, rows, minted, forced>>
    BY <1>1 DEF Tell, Holds
  <2> QED
    BY <2>1, <2>2, RestStrays
<1>2. CASE CloseByStatus
  <2>1. Moved("desk") /\ task'["desk"] = Idle /\ "desk" \in Procs
    BY <1>2, CloseByStatusMoves DEF Procs
  <2>2. ~Holds("desk") /\ UNCHANGED <<made, meta, leaks, rows, minted, forced>>
    BY <1>2 DEF CloseByStatus, Holds
  <2> QED
    BY <2>1, <2>2, RestStrays
<1> QED
  BY <1>1, <1>2

LEMMA DeskStartStrays ==
  ASSUME TypeInv, MoneyInv, StrayInv, DeskLink \/ DeskStatus \/ CheckLatest
  PROVE  StrayInv'
<1>1. /\ Moved("desk") /\ "desk" \in Procs /\ ~Holds("desk")
      /\ UNCHANGED <<made, meta, leaks, rows, minted, forced>>
  <2>1. Moved("desk") /\ "desk" \in Procs
    BY DeskLinkMoves, DeskStatusMoves, CheckLatestMoves DEF Procs
  <2>2. ~Holds("desk")
    BY DEF DeskLink, DeskStatus, CheckLatest, Holds
  <2> QED
    BY <2>1, <2>2 DEF DeskLink, DeskStatus, CheckLatest
<1>2. meta.link <= made' /\ made' \in Nat /\ 0 <= made' /\ Total > 0
  BY <1>1, StrayTypes DEF StrayInv, HeldInv
<1>3. task \in [Procs -> TaskType]
  BY DEF TypeInv, TypeOK
<1>4. CASE DeskLink
  <2>1. /\ task'["desk"].at = "mcp" /\ task'["desk"].link = 0
        /\ task'["desk"].amount = Total /\ task'["desk"].meta = meta
    BY <1>1, <1>3, <1>4 DEF DeskLink, Idle
  <2>2. Held("desk", task["desk"])'
    BY <1>2, <2>1 DEF Held
  <2> QED
    BY <1>1, <2>2, StrayStill
<1>5. CASE DeskStatus
  <2>1. /\ task'["desk"].at = "ask" /\ task'["desk"].link = meta.link
        /\ task'["desk"].meta.link = 0
    BY <1>1, <1>3, <1>5 DEF DeskStatus, Idle
  <2>2. Held("desk", task["desk"])'
    BY <1>2, <2>1 DEF Held
  <2> QED
    BY <1>1, <2>2, StrayStill
<1>6. CASE CheckLatest
  <2>1. /\ task'["desk"].at = "fetch" /\ task'["desk"].link = 0
        /\ task'["desk"].meta.link = 0
    BY <1>1, <1>3, <1>6 DEF CheckLatest, Idle
  <2>2. Held("desk", task["desk"])'
    BY <1>2, <2>1 DEF Held
  <2> QED
    BY <1>1, <2>2, StrayStill
<1> QED
  BY <1>4, <1>5, <1>6

LEMMA StatusStrays ==
  ASSUME TypeInv, MoneyInv, StrayInv, StatusAnswered
  PROVE  StrayInv'
<1> DEFINE t == task["desk"]
<1>1. /\ Moved("desk") /\ "desk" \in Procs /\ ~Holds("desk") /\ Held("desk", t)
      /\ UNCHANGED <<made, meta, leaks, rows, minted, forced>> /\ t \in TaskType
  <2>1. Moved("desk") /\ "desk" \in Procs
    BY StatusAnsweredMoves DEF Procs
  <2> QED
    BY <2>1, StrayTypes DEF StatusAnswered, Holds, StrayInv, HeldInv
<1>2. /\ task'["desk"].at = "settle" /\ task'["desk"].link = t.link
      /\ task'["desk"].meta = t.meta
  BY <1>1, StatusAnsweredMoves DEF TaskType
<1>3. Held("desk", task["desk"])'
  BY <1>1, <1>2 DEF Held
<1> QED
  BY <1>1, <1>3, StrayStill

\* A simulated payment takes its artifact off the watch, and is on record.
LEMMA SimulateStrays ==
  ASSUME TypeInv, MoneyInv, StrayInv, NEW r \in Rows, Simulate(r)
  PROVE  StrayInv'
<1>1. /\ Moved("desk") /\ "desk" \in Procs /\ ~Holds("desk")
      /\ UNCHANGED <<made, meta, leaks, minted>>
      /\ r \in forced' /\ r <= minted /\ forced' = forced \cup {r}
      /\ \A q \in Rows : q # r => rows'[q] = rows[q]
  BY SimulateMoves DEF Simulate, Procs, Holds
<1>2. /\ task'["desk"].at = "apply" /\ task'["desk"].link = 0 /\ task'["desk"].meta.link = 0
  BY <1>1 DEF Simulate, Idle, TypeInv, TypeOK
<1>3. Held("desk", task["desk"])'
  BY <1>1, <1>2, StrayTypes DEF Held
<1>4. RowsWatch /\ \A q \in forced' : q <= minted'
  BY <1>1 DEF RowsWatch, StrayInv, HeldInv
<1> QED
  BY <1>1, <1>3, <1>4, StrayQuiet, StrayTypes

LEMMA FetchStrays ==
  ASSUME TypeInv, MoneyInv, StrayInv, NEW p \in {"desk", "poller", "sweeper"},
         FetchNothing(p) \/ \E r \in Rows : FetchAnswered(p, r)
  PROVE  StrayInv'
<1> DEFINE t == task[p]
<1>1. p \in Procs /\ t \in TaskType /\ Held(p, t) /\ made \in Nat
  BY Reconcilers, StrayTypes DEF StrayInv, HeldInv
<1>2. PICK a \in AnswerType :
        /\ FetchAs(p, a)
        /\ a.status = "expired" => links[rows[t.row].link].state = "expired"
  <2>1. CASE FetchNothing(p)
    BY <2>1, NoAnswerType DEF FetchNothing, NoAnswer
  <2>2. ASSUME NEW r \in Rows, FetchAnswered(p, r)
        PROVE  \E a \in AnswerType :
                 /\ FetchAs(p, a)
                 /\ a.status = "expired" => links[rows[t.row].link].state = "expired"
    <3>1. /\ t.row = r /\ t.at = "fetch"
          /\ \E a \in Answers(rows[r].link) \ {NoAnswer} : FetchAs(p, a)
      BY <2>2 DEF FetchAnswered
    <3>2. rows[r].link \in Links
      <4>1. Placed(p, t) /\ rows[r] \in RowType
        BY <1>1, StrayTypes, CountTypes
      <4> QED
        BY <3>1, <4>1 DEF Placed, Real, RowType
    <3>3. \A a \in Answers(rows[r].link) :
            a \in AnswerType /\ (a.status = "expired" => links[rows[r].link].state = "expired")
      <4> TAKE a \in Answers(rows[r].link)
      <4>1. a \in AnswerType
        BY <3>2, AnswersType
      <4>2. a.status = "expired" => links[rows[r].link].state = "expired"
        BY DEF Answers, NoAnswer
      <4> QED
        BY <4>1, <4>2
    <3> QED
      BY <3>1, <3>3
  <2> QED
    BY <2>1, <2>2
<1>3. /\ Moved(p) /\ task'[p] = [t EXCEPT !.at = "write", !.answer = a]
      /\ UNCHANGED <<made, meta, leaks, rows, minted, forced, links>> /\ ~Holds(p)
  BY <1>2, FetchMoves DEF FetchAs, Holds
<1>4. /\ task'[p].at = "write" /\ task'[p].answer = a /\ task'[p].link = t.link
      /\ task'[p].meta = t.meta /\ task'[p].row = t.row
  BY <1>1, <1>3 DEF TaskType
<1>5. Held(p, task[p])'
  BY <1>1, <1>2, <1>3, <1>4 DEF Held
<1> QED
  BY <1>1, <1>3, <1>5, StrayStill

\* Writing takes an artifact off the watch only when its link is settled,
\* expired, or paid for in the simulator.
LEMMA WriteStrays ==
  ASSUME TypeInv, MoneyInv, StrayInv, NEW p \in {"desk", "poller", "sweeper"}, Write(p)
  PROVE  StrayInv'
<1> DEFINE t == task[p]
           new == Reconciled(rows[t.row].amount, t.was, t.answer)
<1>1. /\ p \in Procs /\ t \in TaskType /\ Held(p, t) /\ TaskOK(p, t) /\ Placed(p, t)
      /\ t.at = "write" /\ UNCHANGED <<made, meta, leaks, minted, links, forced>> /\ made \in Nat
      /\ ~Holds(p)
  BY Reconcilers, StrayTypes DEF Write, StrayInv, HeldInv, MoneyInv, Holds
<1>2. /\ Moved(p) /\ task'[p] = [t EXCEPT !.at = "apply"]
      /\ t.row \in Rows /\ t.row <= minted /\ new \in [status : RowStatuses, paid : 0..Total]
      /\ rows'[t.row] = [rows[t.row] EXCEPT !.status = Flush(t.was.status, new.status, @),
                                            !.paid   = Flush(t.was.paid, new.paid, @)]
      /\ \A q \in Rows : q # t.row => rows'[q] = rows[q]
  BY WriteMoves
<1>3. /\ task'[p].at = "apply" /\ task'[p].link = t.link /\ task'[p].meta = t.meta
  BY <1>1, <1>2 DEF TaskType
<1>4. Held(p, task[p])'
  BY <1>1, <1>3 DEF Held
<1>5. /\ rows[t.row] \in RowType /\ Real(t.row) /\ RowOK(t.row) /\ t.answer \in AnswerType
      /\ t.was \in [status : RowStatuses, paid : 0..Total]
      /\ rows[t.row].amount \in Nat /\ rows[t.row].amount > 0 /\ rows[t.row].link \in Links
      /\ links[rows[t.row].link].amount = rows[t.row].amount
  <2>1. rows[t.row] \in RowType /\ Real(t.row) /\ RowOK(t.row)
    BY <1>1, <1>2, CountTypes DEF Placed, MoneyInv
  <2>2. t.answer \in AnswerType /\ t.was \in [status : RowStatuses, paid : 0..Total]
    BY <1>1 DEF TaskType
  <2> QED
    BY <2>1, <2>2, MoneyAssumption DEF RowOK, RowType, Real
<1>6. Got(t.row) = links[rows[t.row].link].paid /\ Got(t.row) \in Nat
  <2>1. links[rows[t.row].link] \in LinkType
    BY <1>5 DEF TypeInv, TypeOK
  <2> QED
    BY <1>5, <2>1, MoneyAssumption DEF Got, LinkType
<1>7. new.status = t.was.status \/ new.status \in {"PAID", "PARTIALLY_PAID", "EXPIRED"}
  BY DEF Reconciled
<1>8. new.status # t.was.status /\ new.status = "PAID" =>
        t.row \in forced \/ Settled(rows[t.row].link)
  <2>1. new.status # t.was.status /\ new.status = "PAID" =>
          \/ t.answer.status = "paid"
          \/ t.answer.paid >= rows[t.row].amount
    BY DEF Reconciled
  <2>2. /\ t.answer.paid <= Got(t.row) /\ t.answer.paid \in Nat
        /\ t.answer.status = "paid" => rows[t.row].amount <= Got(t.row)
    BY <1>1, <1>5, MoneyAssumption DEF TaskOK, AnswerType
  <2> HIDE DEF new
  <2> QED
    BY <1>5, <1>6, <2>1, <2>2 DEF Settled
<1>9. new.status # t.was.status /\ new.status = "EXPIRED" =>
        links[rows[t.row].link].state = "expired"
  <2>1. new.status # t.was.status /\ new.status = "EXPIRED" => t.answer.status = "expired"
    BY DEF Reconciled
  <2> HIDE DEF new
  <2> QED
    BY <1>1, <2>1 DEF Held
<1>10. rows'[t.row].status = Flush(t.was.status, new.status, rows[t.row].status)
  <2> HIDE DEF new
  <2> QED
    BY <1>2, <1>5 DEF RowType
<1> HIDE DEF new
<1>11. RowsWatch
  <2> SUFFICES ASSUME NEW r \in Rows, r <= minted, Real(r), rows[r].status \in OpenStatuses
               PROVE  \/ rows'[r].status \in OpenStatuses
                      \/ r \in forced'
                      \/ ~Live(rows[r].link)'
    BY DEF RowsWatch
  <2>1. CASE r # t.row
    BY <1>2, <2>1
  <2>2. CASE r = t.row /\ new.status = t.was.status
    BY <1>10, <2>2 DEF Flush
  <2>3. CASE r = t.row /\ new.status # t.was.status
    <3>1. rows'[r].status = new.status /\ links' = links
          /\ rows'[r].link = rows[r].link /\ forced' = forced
      BY <1>1, <1>2, <1>10, <2>3 DEF Flush, Moved, Grows
    <3>2. CASE new.status = "PAID"
      <4>1. r \in forced \/ Settled(rows[r].link)
        BY <1>8, <2>3, <3>2
      <4>2. r \in forced' \/ ~Live(rows[r].link)'
        BY <3>1, <4>1 DEF Live, Settled
      <4> QED
        BY <4>2
    <3>3. CASE new.status = "EXPIRED"
      <4>1. ~Live(rows[r].link)'
        BY <1>9, <2>3, <3>1, <3>3 DEF Live
      <4> QED
        BY <4>1
    <3>4. CASE new.status = "PARTIALLY_PAID"
      BY <3>1, <3>4 DEF OpenStatuses
    <3> QED
      BY <1>7, <2>3, <3>2, <3>3, <3>4
  <2> QED
    BY <2>1, <2>2, <2>3
<1>12. \A r \in forced' : r <= minted'
  BY <1>1 DEF StrayInv, HeldInv
<1> QED
  BY <1>1, <1>2, <1>4, <1>11, <1>12, StrayQuiet, StrayTypes

LEMMA ApplyStrays ==
  ASSUME TypeInv, MoneyInv, StrayInv, NEW p \in {"desk", "poller", "sweeper"}, Apply(p)
  PROVE  StrayInv'
<1> DEFINE t == task[p]
<1>1. /\ p \in Procs /\ t \in TaskType /\ Held(p, t) /\ made \in Nat /\ meta \in MetaType
      /\ Moved(p) /\ UNCHANGED <<made, leaks, rows, minted, forced>> /\ ~Holds(p)
  BY Reconcilers, StrayTypes, ApplyMoves DEF Apply, StrayInv, HeldInv, Holds, TypeInv, TypeOK
<1>2. meta'.link = meta.link
  BY <1>1 DEF Apply, MetaType
<1>3. task'[p] = [t EXCEPT !.at = IF p = "sweeper" THEN "check" ELSE "announce"]
  BY ApplyMoves
<1>4. /\ task'[p].at # "write" /\ task'[p].link = t.link /\ task'[p].meta = t.meta
      /\ task'[p].at \in {"check", "announce"}
  BY <1>1, <1>3 DEF TaskType
<1>5. Held(p, task[p])'
  BY <1>1, <1>4 DEF Held
<1> QED
  BY <1>1, <1>2, <1>5, StrayStill

LEMMA AnnounceStrays ==
  ASSUME TypeInv, MoneyInv, StrayInv, NEW p \in {"desk", "poller"}, Announce(p)
  PROVE  StrayInv'
<1>1. /\ p \in Procs /\ Moved(p) /\ UNCHANGED <<made, meta, leaks, rows, minted, forced>>
      /\ ~Holds(p)
  BY Reconcilers, AnnounceMoves DEF Announce, Holds
<1>2. CASE task'[p] = Idle
  BY <1>1, <1>2, RestStrays
<1>3. CASE p = "poller" /\ task'[p].at = "pick"
  <2>1. Held(p, task[p])'
    BY <1>3, LooseHeld
  <2> QED
    BY <1>1, <2>1, StrayStill
<1> QED
  BY <1>2, <1>3, AnnounceMoves

\* The loops of the poller and the sweeper.
LEMMA LoopStrays ==
  ASSUME TypeInv, MoneyInv, StrayInv, NEW p \in {"poller", "sweeper"},
         \/ p = "poller" /\ Poll
         \/ p = "sweeper" /\ ((\E quiet \in BOOLEAN : Tick(quiet)) \/ Check \/ Message)
         \/ Pick(p)
  PROVE  StrayInv'
<1>1. UNCHANGED <<made, meta, leaks, rows, minted, forced>> /\ p \in Procs
  BY DEF Poll, Tick, Check, Message, Pick, Procs
<1>2. Moved(p)
  BY PollMoves, TickMoves, CheckMoves, MessageMoves, PickMoves
<1>3. task'[p].at # "write"
  <2>1. task[p] \in TaskType
    BY <1>1, StrayTypes
  <2>2. CASE p = "poller" /\ Poll
    BY <2>2, PollMoves
  <2>3. CASE p = "sweeper" /\ \E quiet \in BOOLEAN : Tick(quiet)
    BY <2>3, TickMoves
  <2>4. CASE p = "sweeper" /\ Check
    BY <2>1, <2>4, CheckMoves DEF TaskType
  <2>5. CASE p = "sweeper" /\ Message
    BY <2>1, <2>5, MessageMoves DEF TaskType
  <2>6. CASE Pick(p)
    BY <2>6, PickMoves DEF Idle
  <2> QED
    BY <2>2, <2>3, <2>4, <2>5, <2>6
<1>4. Held(p, task[p])'
  BY <1>3, LooseHeld
<1> QED
  BY <1>1, <1>2, <1>4, StrayStill

LEMMA MarkStrays ==
  ASSUME TypeInv, MoneyInv, StrayInv, Mark
  PROVE  StrayInv'
<1>1. UNCHANGED <<made, meta, leaks, minted, forced>> /\ "sweeper" \in Procs
  BY DEF Mark, Procs
<1>2. Moved("sweeper") /\ Held("sweeper", task["sweeper"])'
  BY MarkMoves, LooseHeld
<1>3. \A r \in Rows : rows'[r].status = rows[r].status
  BY MarkMoves, CountTypes DEF RowType
<1>4. RowsWatch /\ \A r \in forced' : r <= minted'
  BY <1>1, <1>3 DEF RowsWatch, StrayInv, HeldInv
<1> QED
  BY <1>1, <1>2, <1>4, StrayQuiet, StrayTypes

\* The ledger and the clock move, and nobody else.
LEMMA WorldStrays ==
  ASSUME TypeInv, MoneyInv, StrayInv, World
  PROVE  StrayInv'
<1>1. /\ UNCHANGED <<task, made, meta, leaks, minted, forced>>
  BY DEF World, Expire, Pay, Lapse
<1>2. TypeInv' /\ Grows
  BY ExpireMoves, PayMoves, LapseMoves DEF World
<1>3. Moved("poller") /\ "poller" \in Procs
  BY <1>1, <1>2 DEF Moved, Procs
<1>4. Held("poller", task["poller"])'
  BY <1>1, <1>2, <1>3, HeldStays, StrayTypes DEF StrayInv, HeldInv
<1>5. RowsWatch /\ \A r \in forced' : r <= minted'
  BY <1>1, WorldKeeps DEF RowsWatch, StrayInv, HeldInv
<1> QED
  BY <1>1, <1>3, <1>4, <1>5, StrayQuiet, StrayTypes

\* What a failed request held is lost, and counted.
LEMMA FailStrays ==
  ASSUME TypeInv, MoneyInv, StrayInv, NEW p \in Procs, Fail(p)
  PROVE  StrayInv'
<1>1. /\ Moved(p) /\ task'[p] = Idle /\ UNCHANGED <<made, meta, rows, minted, forced>>
      /\ leaks' = IF Holds(p) THEN leaks + 1 ELSE leaks
  BY FailMoves DEF Fail
<1>2. CASE ~Holds(p)
  BY <1>1, <1>2, RestStrays
<1>3. CASE Holds(p)
  <2>1. RowsWatch /\ Held(p, task[p])' /\ \A r \in forced' : r <= minted'
    BY <1>1, IdleHeld DEF RowsWatch, StrayInv, HeldInv, Moved
  <2>2. HeldInv'
    BY <1>1, <2>1, HeldMoves, StrayTypes DEF StrayInv, HeldInv
  <2>3. Lost' \subseteq Lost \cup {task[p].link}
    <3> SUFFICES ASSUME NEW l \in Links, l \in Lost', l \notin Lost
                 PROVE  l = task[p].link
      BY DEF Lost
    <3>1. l <= made
      BY <1>1 DEF Lost
    <3>2. PICK q \in {"session", "desk"} :
            Holds(q) /\ task[q].link = l /\ ~(Holds(q)' /\ task'[q].link = l)
      BY <1>1, <2>1, <3>1, NewlyLost DEF StrayInv, Moved
    <3>3. q # p => task'[q] = task[q]
      BY <1>1 DEF Moved, Procs
    <3> QED
      BY <3>2, <3>3 DEF Holds
  <2> QED
    BY <1>1, <1>3, <2>2, <2>3, StrayCounted DEF Moved
<1> QED
  BY <1>2, <1>3

\* A crash loses what every request held, and counts each.
LEMMA CrashStrays ==
  ASSUME TypeInv, MoneyInv, StrayInv, Crash
  PROVE  StrayInv'
<1> DEFINE H == {p \in Procs : Holds(p)}
           f == [p \in H |-> task[p].link]
           I == {f[p] : p \in H}
<1>1. /\ UNCHANGED <<made, meta, rows, minted, forced, links>>
      /\ leaks' = leaks + Cardinality(H) /\ TypeInv' /\ Grows
      /\ \A p \in Procs : task'[p] = Idle
  BY CrashMoves DEF Crash
<1>2. HeldInv'
  <2>1. \A p \in Procs : Held(p, task[p])'
    BY <1>1, IdleHeld
  <2> QED
    BY <1>1, <2>1 DEF StrayInv, HeldInv
<1>3. RowsWatch
  BY <1>1 DEF RowsWatch
<1>4. Lost' \subseteq Lost \cup I
  <2> SUFFICES ASSUME NEW l \in Links, l \in Lost', l \notin Lost
               PROVE  l \in I
    BY DEF Lost
  <2>1. l <= made
    BY <1>1 DEF Lost
  <2>2. PICK q \in {"session", "desk"} : Holds(q) /\ task[q].link = l
    BY <1>1, <1>3, <2>1, NewlyLost DEF StrayInv
  <2>3. q \in H /\ f[q] = l
    BY <2>2 DEF Procs
  <2> QED
    BY <2>3
<1>5. IsFiniteSet(H)
  BY Holders
<1>6. IsFiniteSet(I) /\ Cardinality(I) <= Cardinality(H)
  BY <1>5, ImageBound
<1>7. Lost \subseteq Links /\ Lost' \subseteq Links
  BY DEF Lost
<1>8. /\ IsFiniteSet(Lost \cup I)
      /\ Cardinality(Lost \cup I) <= Cardinality(Lost) + Cardinality(I)
      /\ Cardinality(Lost) \in Nat /\ Cardinality(I) \in Nat /\ Cardinality(H) \in Nat
      /\ Cardinality(Lost \cup I) \in Nat
  <2>1. IsFiniteSet(Lost) /\ Cardinality(Lost) \in Nat
    BY <1>7, LinkSets
  <2>2. Cardinality(I) \in Nat /\ Cardinality(H) \in Nat
    BY <1>5, <1>6, FS_CardinalityType
  <2>3. /\ IsFiniteSet(Lost \cup I)
        /\ Cardinality(Lost \cup I) =
             Cardinality(Lost) + Cardinality(I) - Cardinality(Lost \cap I)
    BY <1>6, <2>1, FS_Union
  <2>4. Cardinality(Lost \cap I) \in Nat /\ Cardinality(Lost \cup I) \in Nat
    <3>1. IsFiniteSet(Lost \cap I)
      BY <2>1, FS_Subset
    <3> QED
      BY <2>3, <3>1, FS_CardinalityType
  <2> QED
    BY <2>1, <2>2, <2>3, <2>4
<1>9. Cardinality(Lost') <= Cardinality(Lost \cup I) /\ Cardinality(Lost') \in Nat
  <2>1. Cardinality(Lost') <= Cardinality(Lost \cup I)
    BY <1>4, <1>8, FS_Subset
  <2> QED
    BY <1>7, <2>1, LinkSets
<1>10. leaks \in Nat /\ Cardinality(Lost) <= leaks
  BY StrayTypes DEF StrayInv
<1> HIDE DEF H, I
<1>11. Cardinality(Lost') <= leaks + Cardinality(H)
  BY <1>6, <1>8, <1>9, <1>10
<1> QED
  BY <1>1, <1>2, <1>11 DEF StrayInv

LEMMA InitStrays == Init => StrayInv
<1> SUFFICES ASSUME Init PROVE StrayInv
  OBVIOUS
<1>1. made = 0 /\ leaks = 0 /\ forced = {} /\ meta.link = 0 /\ \A p \in Procs : task[p] = Idle
  BY DEF Init, Idle
<1>2. HeldInv
  <2>1. \A p \in Procs : Held(p, task[p])
    BY <1>1 DEF Held, Idle
  <2>2. \A l \in Links : ~(l <= made)
    BY <1>1, MoneyAssumption
  <2> QED
    BY <1>1, <2>1, <2>2 DEF HeldInv
<1>3. Lost = {}
  BY <1>1, MoneyAssumption DEF Lost
<1> QED
  BY <1>1, <1>2, <1>3, FS_EmptySet DEF StrayInv

LEMMA StepStrays ==
  ASSUME TypeInv, MoneyInv, StrayInv, [Next]_vars
  PROVE  StrayInv'
<1>1. ASSUME NEW p \in {"desk", "poller", "sweeper"}, Reconciling(p)
      PROVE  StrayInv'
  BY <1>1, FetchStrays, WriteStrays, ApplyStrays DEF Reconciling
<1>2. CASE Asking \/ SessionStep
  <2>1. CASE Asking
    BY <2>1, AskStrays DEF Asking
  <2>2. CASE SessionStep
    BY <2>2, GateStrays, TransportStrays, CancelStrays, RecordStrays, BookStrays, TellStrays
    DEF SessionStep
  <2> QED
    BY <1>2, <2>1, <2>2
<1>3. CASE DeskStart \/ DeskStep
  <2>1. CASE DeskStart
    BY <2>1, DeskStartStrays, SimulateStrays DEF DeskStart
  <2>2. CASE DeskStep
    BY <1>1, <2>2, TransportStrays, RememberStrays, StatusStrays, TellStrays, AnnounceStrays
    DEF DeskStep
  <2> QED
    BY <1>3, <2>1, <2>2
<1>4. CASE PollerStep
  BY <1>1, <1>4, LoopStrays, AnnounceStrays DEF PollerStep
<1>5. CASE SweeperStep
  BY <1>1, <1>5, LoopStrays, GateStrays, MarkStrays DEF SweeperStep, SweeperTick
<1>6. CASE World
  BY <1>6, WorldStrays
<1>7. CASE Faults
  BY <1>7, FailStrays, CrashStrays DEF Faults
<1>8. CASE UNCHANGED vars
  <2>1. TypeInv' /\ Grows /\ Moved("poller") /\ "poller" \in Procs
    BY <1>8, StepTypes DEF Moved, Procs, vars
  <2>2. UNCHANGED <<made, meta, leaks, rows, minted, forced, task>>
    BY <1>8 DEF vars
  <2>3. Held("poller", task["poller"])'
    BY <2>1, <2>2, HeldStays, StrayTypes DEF StrayInv, HeldInv
  <2> QED
    BY <2>1, <2>2, <2>3, StrayStill
<1> QED
  BY <1>2, <1>3, <1>4, <1>5, <1>6, <1>7, <1>8 DEF Next

\* A link that can still be paid and that nobody watches was lost at a step that
\* counts it, or a simulated payment took its artifact off the watch
\* (StraysAccountedFor).
THEOREM StraysCounted == Spec => []StraysAccountedFor
<1>1. TypeInv /\ StrayInv => StraysAccountedFor
  <2> SUFFICES ASSUME TypeInv, StrayInv PROVE StraysAccountedFor
    OBVIOUS
  <2> DEFINE S == {l \in Links : l <= made /\ Live(l) /\ ~Watched(l)}
             f == [r \in forced |-> rows[r].link]
             I == {f[r] : r \in forced}
  <2>1. IsFiniteSet(forced)
    <3>1. IsFiniteSet(Rows) /\ forced \subseteq Rows
      BY MoneyAssumption, FS_Interval DEF TypeInv, TypeOK
    <3> QED
      BY <3>1, FS_Subset
  <2>2. IsFiniteSet(I) /\ Cardinality(I) <= Cardinality(forced)
    BY <2>1, ImageBound
  <2>3. S \subseteq Lost \cup I
    BY DEF Lost
  <2>4. /\ IsFiniteSet(Lost) /\ Cardinality(Lost) \in Nat /\ Cardinality(I) \in Nat
        /\ Cardinality(forced) \in Nat /\ leaks \in Nat /\ Cardinality(Lost) <= leaks
        /\ Cardinality(S) \in Nat
    <3>1. Lost \subseteq Links /\ S \subseteq Links
      BY DEF Lost
    <3> QED
      BY <2>1, <2>2, <3>1, LinkSets, FS_CardinalityType, StrayTypes DEF StrayInv
  <2>5. /\ IsFiniteSet(Lost \cup I)
        /\ Cardinality(Lost \cup I) =
             Cardinality(Lost) + Cardinality(I) - Cardinality(Lost \cap I)
        /\ Cardinality(Lost \cap I) \in Nat
    <3>1. IsFiniteSet(Lost \cap I)
      BY <2>4, FS_Subset
    <3> QED
      BY <2>2, <2>4, <3>1, FS_Union, FS_CardinalityType
  <2>6. Cardinality(S) <= Cardinality(Lost \cup I)
    BY <2>3, <2>5, FS_Subset
  <2>7. Cardinality(S) <= leaks + Cardinality(forced)
    <3> HIDE DEF S, I
    <3> QED
      BY <2>2, <2>4, <2>5, <2>6
  <2> QED
    BY <2>7 DEF StraysAccountedFor
<1>2. TypeInv /\ MoneyInv /\ StrayInv /\ [Next]_vars => StrayInv'
  BY StepStrays
<1> QED
  BY <1>1, <1>2, InitStrays, AlwaysBacked, PTL DEF Spec
=============================================================================
