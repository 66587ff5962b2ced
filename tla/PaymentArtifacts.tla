--------------------------- MODULE PaymentArtifacts ---------------------------
(***************************************************************************)
(* The payment links of one case: minting (operations/payment_artifacts.py)*)
(* over the gateway's MCP server, its SDK or a simulation, the operator's  *)
(* own link and its status poll (operations/payment_link_service.py), the  *)
(* live session's payment poller, and the deadline sweeper                 *)
(* (operations/deadline_sweeper.py).                                       *)
(*                                                                         *)
(* Four processes share the case row, the artifact rows and the gateway:   *)
(* the session's request thread, the operator's (desk), the sweeper's tick *)
(* and the poller.  Every commit and every call to the gateway is a step.  *)
(* The gateway's ledger is external: the customer pays there, links expire *)
(* there, and an answer may be lost although the request was carried out.  *)
(***************************************************************************)
EXTENDS PolicySandbox, FiniteSets

CONSTANTS
  Casts,        \* bound: which of the four processes take part
  Total,        \* the amount due on the case, in minor units
  Offers,       \* payment tool calls: action, kind of artifact, amount
  Policies,     \* merchant policies
  Lapsing,      \* bound: artifact rows whose deadline passes
  MaxLinks,     \* bound: links created at the gateway
  MaxRows,      \* bound: artifact rows
  MaxFaults     \* bound: crashes and failed database or cancel calls

Procs     == {"session", "desk", "sweeper", "poller"}
Kinds     == {"LINK", "QR"}
OfferType == {o \in [action : {"GENERATE_PAYMENT_LINK", "GENERATE_QR_CODE",
                               "OFFER_PARTIAL_PLAN"},
                     kind : Kinds, amount : 1..Total] :
                o.action = "GENERATE_QR_CODE" => o.kind = "QR"}

ASSUME MoneyAssumption ==
  /\ Casts \subseteq SUBSET Procs
  /\ Total \in Nat \ {0} /\ Offers \subseteq OfferType
  /\ Policies \subseteq PolicyType(Nat)
  /\ Lapsing \subseteq Nat /\ MaxLinks \in Nat /\ MaxRows \in Nat /\ MaxFaults \in Nat

VARIABLES
  running,      \* the processes that take part
  policy,       \* the merchant_policy row
  links, made,  \* the gateway's ledger, and how many links it has created
  rows, minted, \* payment_artifacts rows, and how many there are
  state, meta,  \* the case: current_state and metadata_json
  session,      \* the live session: open, terminal, or gone with its process
  task,         \* what each process is doing: next step and locals
  forced,       \* history: rows paid by simulate_paid
  chases,       \* history: follow-up messages, by row
  leaks,        \* history: links lost sight of
  faults

moneyVars == <<links, made>>
bookVars  == <<rows, minted>>
caseVars  == <<state, meta>>
history   == <<forced, chases, leaks>>
fixed     == <<running, policy>>
vars == <<fixed, moneyVars, bookVars, caseVars, session, task, history, faults>>
-----------------------------------------------------------------------------
Links == 1..MaxLinks
Rows  == 1..MaxRows
NoLink == 0
NoRow  == 0

RowStatuses  == {"CREATED", "PAID", "PARTIALLY_PAID", "EXPIRED", "CLOSED"}
OpenStatuses == {"CREATED", "PARTIALLY_PAID"}
Terminal     == {"RECOVERED", "ESCALATED", "CANCELLED", "FAILED"}

LinkType == [amount : 0..Total, partial : BOOLEAN, expires : BOOLEAN, paid : 0..Total,
             state : {"open", "cancelled", "expired"}]
RowType  == [link : Links \cup {NoLink}, kind : Kinds, amount : 0..Total,
             partial : BOOLEAN, status : RowStatuses, paid : 0..Total,
             overdue : BOOLEAN, followed : BOOLEAN]
MetaType == [link : Links \cup {NoLink}, balance : (0..Total) \cup {None}]
AnswerType == [status : {"none", "paid", "open", "cancelled", "expired"}, paid : 0..Total]

Steps == {"idle", "gate", "refuse", "mcp", "sdk", "cancel", "record", "book", "tell",
          "remember", "ask", "settle", "pick", "fetch", "write", "apply", "announce",
          "check", "message", "mark"}
TaskType == [at : Steps, action : Actions, kind : Kinds, amount : 0..Total,
             partial : BOOLEAN, link : Links \cup {NoLink}, row : Rows \cup {NoRow},
             prior : SUBSET Rows, todo : SUBSET Rows, quiet : BOOLEAN,
             seen : LifecycleStates, meta : MetaType, answer : AnswerType,
             was : [status : RowStatuses, paid : 0..Total], settled : SUBSET Links]

NoAnswer == [status |-> "none", paid |-> 0]
Idle == [at |-> "idle", action |-> "SEND_WHATSAPP", kind |-> "LINK", amount |-> 0,
         partial |-> FALSE, link |-> NoLink, row |-> NoRow, prior |-> {}, todo |-> {},
         quiet |-> FALSE, seen |-> "PENDING", meta |-> [link |-> NoLink, balance |-> None],
         answer |-> NoAnswer, was |-> [status |-> "CREATED", paid |-> 0], settled |-> {}]
NoLinkMade == [amount |-> 0, partial |-> FALSE, expires |-> FALSE, paid |-> 0,
               state |-> "cancelled"]
NoRowMade  == [link |-> NoLink, kind |-> "LINK", amount |-> 0, partial |-> FALSE,
               status |-> "CLOSED", paid |-> 0, overdue |-> FALSE, followed |-> FALSE]

At(p, step)     == task[p].at = step
Free(p)         == At(p, "idle")
Begin(p, t)     == task' = [task EXCEPT ![p] = t]
Goto(p, step)   == task' = [task EXCEPT ![p].at = step]
Proceed(p)      == task' = [task EXCEPT ![p] =
                     [Idle EXCEPT !.at = "pick", !.todo = task[p].todo,
                        !.quiet = task[p].quiet, !.settled = task[p].settled]]
Rest(p)         == task' = [task EXCEPT ![p] = Idle]
Real(r)         == rows[r].link # NoLink
Settled(l)      == links[l].amount > 0 /\ links[l].paid >= links[l].amount

Init ==
  /\ running \in Casts /\ policy \in Policies
  /\ links = [l \in Links |-> NoLinkMade] /\ made = 0
  /\ rows = [r \in Rows |-> NoRowMade] /\ minted = 0
  /\ state = "INTERVENING" /\ meta = Idle.meta
  /\ session = "open" /\ task = [p \in Procs |-> Idle]
  /\ forced = {} /\ chases = [r \in Rows |-> 0] /\ leaks = 0 /\ faults = 0
-----------------------------------------------------------------------------
(* Minting.  A tool call of the session is gated, then walks down the      *)
(* transports, closes the links it replaces and books what is left.        *)

\* Mutant of IsPartialAsk: only a plan by name leaves a balance.
PartialByName(amount, action) == action = "OFFER_PARTIAL_PLAN"
IsPartialAsk(amount, action)  == amount < Total \/ action = "OFFER_PARTIAL_PLAN"

Ask(o, quiet) ==
  /\ session # "gone" /\ Free("session") /\ minted < MaxRows
  /\ Begin("session", [Idle EXCEPT !.at = "gate", !.action = o.action, !.kind = o.kind,
                         !.amount = o.amount, !.partial = IsPartialAsk(o.amount, o.action),
                         !.quiet = quiet, !.seen = state])
  /\ UNCHANGED <<fixed, moneyVars, bookVars, caseVars, session, history, faults>>

Proposal(t) ==
  IF t.action = "SEND_WHATSAPP"
  THEN [action |-> t.action, channel |-> "WHATSAPP", discount |-> 0, amount |-> Total,
        total |-> Total, partial |-> FALSE]
  ELSE [action |-> t.action, channel |-> "PAYMENT_LINK", discount |-> 0,
        amount |-> t.amount, total |-> Total, partial |-> t.partial]

\* gate_tool: quiet hours before the sandbox.  (A refusal commits its
\* escalation ticket here and the state in Refuse.)
Gate(p) ==
  /\ At(p, "gate")
  /\ LET t == task[p]
     IN \/ /\ t.quiet
           /\ state' = Flush(t.seen, "WAITING", state)
           /\ IF p = "sweeper" THEN Proceed(p) ELSE Rest(p)
        \/ /\ ~t.quiet /\ ~Approves(policy, Proposal(t))
           /\ Goto(p, "refuse") /\ UNCHANGED state
        \/ /\ ~t.quiet /\ Approves(policy, Proposal(t))
           /\ IF p = "sweeper" THEN Goto(p, "message")
              ELSE Begin(p, [Idle EXCEPT !.at = "mcp", !.kind = t.kind,
                               !.amount = t.amount, !.partial = t.partial])
           /\ UNCHANGED state
  /\ UNCHANGED <<fixed, moneyVars, bookVars, meta, session, history, faults>>

\* A refused call of the session ends the session; the sweeper goes on.
Refuse(p) ==
  /\ At(p, "refuse")
  /\ state' = Flush(task[p].seen, "ESCALATED", state)
  /\ IF p = "sweeper" THEN Proceed(p) /\ UNCHANGED session
     ELSE Rest(p) /\ session' = IF session = "open" THEN "terminal" ELSE session
  /\ UNCHANGED <<fixed, moneyVars, bookVars, meta, history, faults>>

\* The step after the transports: the session replaces older links, the
\* operator's endpoint only notes the new one.
Minted(p) == IF p = "desk" THEN "remember" ELSE "cancel"

\* The gateway creates a link, and p learns its id or does not: a timeout and
\* an unreadable answer are both taken for "no link" and p goes on to next.
Create(p, partial, next) ==
  /\ made < MaxLinks /\ made' = made + 1
  /\ links' = [links EXCEPT ![made + 1] =
       [amount |-> task[p].amount, partial |-> partial, expires |-> partial,
        paid |-> 0, state |-> "open"]]
  /\ \/ /\ task' = [task EXCEPT ![p].at = Minted(p), ![p].link = made + 1]
        /\ UNCHANGED leaks
     \/ Goto(p, next) /\ leaks' = leaks + 1

\* A transport that the settings disable is one that makes no link.
AskMcp(p) ==
  /\ At(p, "mcp")
  /\ \/ Create(p, task[p].partial, "sdk")
     \/ Goto(p, "sdk") /\ UNCHANGED <<moneyVars, leaks>>
  /\ UNCHANGED <<fixed, bookVars, caseVars, session, forced, chases, faults>>

\* The SDK makes plain links only, and no QR codes.
AskSdk(p) ==
  /\ At(p, "sdk")
  /\ \/ task[p].kind # "QR" /\ Create(p, FALSE, Minted(p))
     \/ Goto(p, Minted(p)) /\ UNCHANGED <<moneyVars, leaks>>
  /\ UNCHANGED <<fixed, bookVars, caseVars, session, forced, chases, faults>>

Active == {r \in Rows : r <= minted /\ rows[r].status = "CREATED"}
Live(l) == links[l].state = "open" /\ ~Settled(l)

\* Prior links are cancelled at the gateway one by one.  The first cancellation
\* that fails ends the whole mint, because the handler's log call names an
\* undefined logger.  The gateway refuses for a link that is paid or gone and
\* for a QR code, and may fail for any.
CancelAll(prior, done) ==
  LET real == {rows[r].link : r \in prior} \ {NoLink}
      barred == {l \in real : \/ ~Live(l)
                              \/ \E r \in prior : rows[r].link = l /\ rows[r].kind = "QR"}
  IN /\ done \subseteq {l \in real : Live(l)}
     /\ \A l \in done, k \in real : k < l => k \in done
     /\ links' = [l \in Links |-> IF l \in done THEN [links[l] EXCEPT !.state = "cancelled"]
                                  ELSE links[l]]
     /\ IF done = real
        THEN /\ task' = [task EXCEPT !["session"].at = "record",
                                     !["session"].prior = prior]
             /\ UNCHANGED <<leaks, faults>>
        ELSE /\ Rest("session")
             /\ leaks' = IF task["session"].link # NoLink THEN leaks + 1 ELSE leaks
             /\ IF \E l \in barred : l \notin done THEN UNCHANGED faults
                ELSE faults < MaxFaults /\ faults' = faults + 1

\* Mutant of CancelPrior: a failed cancellation is tolerated.
CancelTolerant ==
  /\ At("session", "cancel")
  /\ task' = [task EXCEPT !["session"].at = "record", !["session"].prior = Active]
  /\ UNCHANGED <<links, leaks, faults>>
  /\ UNCHANGED <<fixed, made, bookVars, caseVars, session, forced, chases>>
CancelPrior ==
  /\ At("session", "cancel")
  /\ \E done \in SUBSET Links : CancelAll(Active, done)
  /\ UNCHANGED <<fixed, made, bookVars, caseVars, session, forced, chases>>

\* First commit of the mint: the new row, and the prior ones closed.
Record ==
  LET t == task["session"]
  IN /\ At("session", "record") /\ minted < MaxRows /\ minted' = minted + 1
     /\ rows' = [r \in Rows |->
          IF r = minted + 1
          THEN [link |-> t.link, kind |-> t.kind, amount |-> t.amount,
                partial |-> t.partial, status |-> "CREATED", paid |-> 0,
                overdue |-> FALSE, followed |-> FALSE]
          ELSE IF r \in t.prior THEN [rows[r] EXCEPT !.status = "CLOSED"] ELSE rows[r]]
     /\ Goto("session", "book")
     /\ UNCHANGED <<fixed, moneyVars, caseVars, session, history, faults>>

Unwatched(l) == \A r \in Rows : ~(r <= minted /\ rows[r].link = l
                                  /\ rows[r].status \in OpenStatuses)
\* Replacing the remembered link loses sight of one that has no open row.
Forget(new) ==
  leaks' = IF meta.link \notin {NoLink, new} /\ Unwatched(meta.link) THEN leaks + 1
           ELSE leaks

\* Second commit: the case remembers the link and what is left of the plan.
Book ==
  LET t == task["session"]
  IN /\ At("session", "book")
     /\ meta' = [link |-> t.link,
                 balance |-> IF t.partial THEN Total - t.amount ELSE meta.balance]
     /\ Forget(t.link)
     /\ task' = [task EXCEPT !["session"].at = "tell", !["session"].seen = state]
     /\ UNCHANGED <<fixed, moneyVars, bookVars, state, session, forced, chases,
                    faults>>

\* The dispatch that carries the link.
Tell ==
  /\ At("session", "tell")
  /\ state' = Flush(task["session"].seen, "INTERVENING", state)
  /\ Rest("session")
  /\ UNCHANGED <<fixed, moneyVars, bookVars, meta, session, history, faults>>
-----------------------------------------------------------------------------
(* The operator's endpoints (desk).                                        *)

\* POST payment-link: the whole amount, outside the artifact table.
DeskLink ==
  /\ Free("desk") /\ made < MaxLinks
  /\ Begin("desk", [Idle EXCEPT !.at = "mcp", !.amount = Total, !.meta = meta])
  /\ UNCHANGED <<fixed, moneyVars, bookVars, caseVars, session, history, faults>>

\* metadata_json is written whole, from the copy loaded before the calls.
Remember ==
  LET t == task["desk"]
  IN /\ At("desk", "remember")
     /\ meta' = Flush(t.meta, [t.meta EXCEPT !.link = t.link], meta)
     /\ Forget(meta'.link)
     /\ Rest("desk")
     /\ UNCHANGED <<fixed, moneyVars, bookVars, state, session, forced, chases,
                    faults>>

\* GET payment-link/status: asks about the remembered link.
DeskStatus ==
  /\ Free("desk") /\ meta.link # NoLink
  /\ Begin("desk", [Idle EXCEPT !.at = "ask", !.link = meta.link, !.seen = state])
  /\ UNCHANGED <<fixed, moneyVars, bookVars, caseVars, session, history, faults>>

Answers(l) == {NoAnswer,
  [status |-> IF Settled(l) THEN "paid" ELSE links[l].state, paid |-> links[l].paid]}

StatusAnswered ==
  /\ At("desk", "ask")
  /\ \E a \in Answers(task["desk"].link) :
       task' = [task EXCEPT !["desk"].at = "settle", !["desk"].answer = a]
  /\ UNCHANGED <<fixed, moneyVars, bookVars, caseVars, session, history, faults>>

\* Mutant of SaysPaid: any answer but "still open" is taken for a payment.
SaysNotOpen(a) == a.status \notin {"none", "open"}
SaysPaid(a)    == a.status = "paid"

CloseByStatus ==
  LET t == task["desk"]
  IN /\ At("desk", "settle")
     /\ state' = IF SaysPaid(t.answer) THEN Flush(t.seen, "RECOVERED", state) ELSE state
     /\ Rest("desk")
     /\ UNCHANGED <<fixed, moneyVars, bookVars, meta, session, history, faults>>

\* Live endpoint check-status: reconcile the newest artifact now.
CheckLatest ==
  /\ Free("desk") /\ session # "gone" /\ minted > 0 /\ Real(minted)
  /\ Begin("desk", [Idle EXCEPT !.at = "fetch", !.row = minted,
                      !.was = [status |-> rows[minted].status, paid |-> rows[minted].paid]])
  /\ UNCHANGED <<fixed, moneyVars, bookVars, caseVars, session, history, faults>>

\* Live endpoint simulate-pay.
Simulate(r) ==
  /\ Free("desk") /\ session # "gone" /\ r <= minted
  /\ rows[r].status \notin {"PAID", "EXPIRED"}
  /\ rows' = [rows EXCEPT ![r].status = "PAID", ![r].paid = rows[r].amount]
  /\ forced' = forced \cup {r}
  /\ Begin("desk", [Idle EXCEPT !.at = "apply", !.row = r,
                      !.was = [status |-> rows[r].status, paid |-> rows[r].paid]])
  /\ UNCHANGED <<fixed, moneyVars, minted, caseVars, session, chases, leaks, faults>>
-----------------------------------------------------------------------------
(* Reconciliation, shared by the poller, the sweeper and check-status.     *)

\* Mutant of Poll: an artifact paid in part is not asked about again.
PollCreated ==
  LET pending == {r \in Rows : r <= minted /\ Real(r) /\ rows[r].status = "CREATED"}
  IN /\ Free("poller") /\ session = "open" /\ pending # {}
     /\ Begin("poller", [Idle EXCEPT !.at = "pick", !.todo = pending])
     /\ UNCHANGED <<fixed, moneyVars, bookVars, caseVars, session, history, faults>>
\* The poller's tick: every real artifact still open, while the session runs.
Poll ==
  LET pending == {r \in Rows : r <= minted /\ Real(r) /\ rows[r].status \in OpenStatuses}
  IN /\ Free("poller") /\ session = "open" /\ pending # {}
     /\ Begin("poller", [Idle EXCEPT !.at = "pick", !.todo = pending])
     /\ UNCHANGED <<fixed, moneyVars, bookVars, caseVars, session, history, faults>>

\* Mutant of Due: an artifact that has been followed up is picked up again.
DueAgain(r) ==
  /\ r <= minted /\ rows[r].partial /\ rows[r].overdue
  /\ rows[r].status \in OpenStatuses /\ state \notin Terminal
Due(r) ==
  /\ r <= minted /\ rows[r].partial /\ rows[r].overdue /\ ~rows[r].followed
  /\ rows[r].status \in OpenStatuses /\ state \notin Terminal

\* Nobody else reconciles, and nobody can begin to: the session is gone.
Alone == session = "gone" /\ Free("desk") /\ Free("poller")

\* The sweeper's tick reads the clock once, for all of its artifacts.
Tick(quiet) ==
  LET due == {r \in Rows : Due(r)}
  IN /\ Free("sweeper") /\ due # {}
     /\ Begin("sweeper", [Idle EXCEPT !.at = "pick", !.todo = due, !.quiet = quiet,
                            !.settled = IF Alone THEN {l \in Links : Settled(l)} ELSE {}])
     /\ UNCHANGED <<fixed, moneyVars, bookVars, caseVars, session, history, faults>>

Pick(p) ==
  /\ At(p, "pick")
  /\ \/ /\ task[p].todo = {} \/ (p = "poller" /\ session # "open")
        /\ Rest(p)
     \/ /\ ~(p = "poller" /\ session # "open")
        /\ \E r \in task[p].todo :
             /\ \A q \in task[p].todo : r <= q
             /\ task' = [task EXCEPT
                  ![p].row = r, ![p].todo = @ \ {r},
                  ![p].at = IF Real(r) THEN "fetch" ELSE "check",
                  ![p].answer = NoAnswer,
                  ![p].was = [status |-> rows[r].status, paid |-> rows[r].paid]]
  /\ UNCHANGED <<fixed, moneyVars, bookVars, caseVars, session, history, faults>>

FetchAs(p, a) ==
  /\ At(p, "fetch")
  /\ task' = [task EXCEPT ![p].at = "write", ![p].answer = a]
  /\ UNCHANGED <<fixed, moneyVars, bookVars, caseVars, session, history, faults>>
FetchNothing(p) == FetchAs(p, NoAnswer)
FetchAnswered(p, r) ==
  /\ At(p, "fetch") /\ task[p].row = r
  /\ \E a \in Answers(rows[r].link) \ {NoAnswer} : FetchAs(p, a)

\* What an answer makes of an artifact's status and paid amount.
Reconciled(amount, old, a) ==
  CASE a.status = "paid" -> [status |-> "PAID", paid |-> amount]
    [] a.status # "paid" /\ a.paid > 0 ->
         [status |-> IF a.paid >= amount THEN "PAID" ELSE "PARTIALLY_PAID", paid |-> a.paid]
    [] a.status = "expired" /\ a.paid = 0 -> [old EXCEPT !.status = "EXPIRED"]
    [] OTHER -> old

Write(p) ==
  LET t == task[p]
      new == Reconciled(rows[t.row].amount, t.was, t.answer)
  IN /\ At(p, "write")
     /\ rows' = [rows EXCEPT ![t.row].status = Flush(t.was.status, new.status, @),
                             ![t.row].paid   = Flush(t.was.paid, new.paid, @)]
     /\ Goto(p, "apply")
     /\ UNCHANGED <<fixed, moneyVars, minted, caseVars, session, history, faults>>

\* _apply_txn_state: a partial artifact books the balance, and only a cleared
\* one closes the case; a plain one closes it when paid.
Apply(p) ==
  LET a == rows[task[p].row]
      balance == IF Total > a.paid THEN Total - a.paid ELSE 0
      closed == state \in {"ESCALATED", "CANCELLED"}
  IN /\ At(p, "apply")
     /\ IF a.partial
        THEN /\ meta' = [meta EXCEPT !.balance = balance]
             /\ state' = CASE balance = 0 -> "RECOVERED"
                           [] balance > 0 /\ a.status = "PARTIALLY_PAID" /\ ~closed
                                -> "WAITING"
                           [] OTHER -> state
        ELSE /\ state' = IF a.status = "PAID" /\ ~closed THEN "RECOVERED" ELSE state
             /\ UNCHANGED meta
     /\ Goto(p, IF p = "sweeper" THEN "check" ELSE "announce")
     /\ UNCHANGED <<fixed, moneyVars, bookVars, session, history, faults>>

\* _announce_payment: a change is told to the customer, and a recovered case
\* ends the session.
Announce(p) ==
  LET r == task[p].row
      changed == [status |-> rows[r].status, paid |-> rows[r].paid] # task[p].was
  IN /\ At(p, "announce")
     /\ session' = IF changed /\ session = "open" /\ state = "RECOVERED"
                   THEN "terminal" ELSE session
     /\ IF p = "poller" THEN Proceed(p) ELSE Rest(p)
     /\ UNCHANGED <<fixed, moneyVars, bookVars, caseVars, history, faults>>
-----------------------------------------------------------------------------
(* The sweeper's follow-up.                                                *)

\* Mutant of StillOwing: what reconciliation just found is not looked at.
OwingAnyway(r) == TRUE
\* Mutant of StillOwing: the last unit of a balance is not chased.
OwingMuch(r) ==
  state \notin Terminal /\ rows[r].status \in OpenStatuses /\ meta.balance > 1
StillOwing(r) ==
  state \notin Terminal /\ rows[r].status \in OpenStatuses /\ meta.balance > 0

Check ==
  /\ At("sweeper", "check")
  /\ IF StillOwing(task["sweeper"].row)
     THEN task' = [task EXCEPT !["sweeper"].at = "gate",
                     !["sweeper"].action = "SEND_WHATSAPP", !["sweeper"].seen = state]
     ELSE Proceed("sweeper")
  /\ UNCHANGED <<fixed, moneyVars, bookVars, caseVars, session, history, faults>>

Message ==
  /\ At("sweeper", "message")
  /\ chases' = [chases EXCEPT ![task["sweeper"].row] = @ + 1]
  /\ Goto("sweeper", "mark")
  /\ UNCHANGED <<fixed, moneyVars, bookVars, caseVars, session, forced, leaks, faults>>

Mark ==
  /\ At("sweeper", "mark")
  /\ rows' = [rows EXCEPT ![task["sweeper"].row].followed = TRUE]
  /\ Proceed("sweeper")
  /\ UNCHANGED <<fixed, moneyVars, minted, caseVars, session, history, faults>>
-----------------------------------------------------------------------------
(* Failures, and the world outside.                                        *)

\* A link that exists at the gateway and in the locals of one process only.
Holds(p) == task[p].link # NoLink /\ task[p].at \in {"cancel", "record", "remember"}

\* A database call of p raises: the request ends in an error, the poller and
\* the sweeper drop the rest of the tick.
Fail(p) ==
  /\ faults < MaxFaults /\ faults' = faults + 1
  /\ ~Free(p) /\ Rest(p)
  /\ leaks' = IF Holds(p) THEN leaks + 1 ELSE leaks
  /\ UNCHANGED <<fixed, moneyVars, bookVars, caseVars, session, forced, chases>>

\* The server stops and restarts: every process and every session is gone.
Crash ==
  /\ faults < MaxFaults /\ faults' = faults + 1
  /\ session' = "gone" /\ task' = [p \in Procs |-> Idle]
  /\ leaks' = leaks + Cardinality({p \in Procs : Holds(p)})
  /\ UNCHANGED <<fixed, moneyVars, bookVars, caseVars, forced, chases>>

Pay(l, x) ==
  /\ links[l].state = "open" /\ links[l].paid + x <= links[l].amount
  /\ ~links[l].partial => x = links[l].amount
  /\ links' = [links EXCEPT ![l].paid = @ + x]
  /\ UNCHANGED <<fixed, made, bookVars, caseVars, session, task, history, faults>>

Lapse(r) ==
  /\ r \in Lapsing /\ r <= minted /\ rows[r].partial /\ ~rows[r].overdue
  /\ rows' = [rows EXCEPT ![r].overdue = TRUE]
  /\ UNCHANGED <<fixed, moneyVars, minted, caseVars, session, task, history, faults>>

\* expire_by is the plan's deadline.
Expire(l) ==
  /\ Live(l) /\ links[l].expires
  /\ \A r \in Rows : r <= minted /\ rows[r].link = l => rows[r].overdue
  /\ links' = [links EXCEPT ![l].state = "expired"]
  /\ UNCHANGED <<fixed, made, bookVars, caseVars, session, task, history, faults>>

-----------------------------------------------------------------------------
Asking == \E o \in Offers, quiet \in BOOLEAN : Ask(o, quiet)
SessionStep == Gate("session") \/ Refuse("session") \/ AskMcp("session")
               \/ AskSdk("session") \/ CancelPrior \/ Record \/ Book \/ Tell
Reconciling(p) == FetchNothing(p) \/ (\E r \in Rows : FetchAnswered(p, r)) \/ Write(p)
                  \/ Apply(p)
DeskStart == DeskLink \/ DeskStatus \/ CheckLatest \/ \E r \in Rows : Simulate(r)
DeskStep == AskMcp("desk") \/ AskSdk("desk") \/ Remember \/ StatusAnswered
            \/ CloseByStatus \/ Reconciling("desk") \/ Announce("desk")
PollerStep ==
  /\ "poller" \in running
  /\ Poll \/ Pick("poller") \/ Reconciling("poller") \/ Announce("poller")
SweeperTick(quiet) == "sweeper" \in running /\ Tick(quiet)
SweeperStep ==
  \/ \E quiet \in BOOLEAN : SweeperTick(quiet)
  \/ Pick("sweeper") \/ Reconciling("sweeper") \/ Check \/ Gate("sweeper")
  \/ Refuse("sweeper") \/ Message \/ Mark
World == (\E l \in Links : Expire(l) \/ \E x \in 1..Total : Pay(l, x))
         \/ (\E r \in Rows : Lapse(r))
Faults == Crash \/ \E p \in Procs : Fail(p)

Next == \/ "session" \in running /\ (Asking \/ SessionStep)
        \/ "desk" \in running /\ (DeskStart \/ DeskStep)
        \/ PollerStep \/ SweeperStep \/ World \/ Faults

Spec == Init /\ [][Next]_vars
-----------------------------------------------------------------------------
(* Fairness: the poller and the sweeper are loops that run until the       *)
(* server stops, and every night's quiet hours end.  A gateway that is     *)
(* asked about one link again and again answers in the end.                *)
FairSpec ==
  /\ Spec
  /\ WF_vars(PollerStep) /\ WF_vars(SweeperStep) /\ SF_vars(SweeperTick(FALSE))
  /\ \A r \in Rows : SF_vars(FetchAnswered("poller", r))
-----------------------------------------------------------------------------
TypeOK ==
  /\ running \in Casts /\ policy \in Policies
  /\ links \in [Links -> LinkType] /\ made \in 0..MaxLinks
  /\ rows \in [Rows -> RowType] /\ minted \in 0..MaxRows
  /\ state \in LifecycleStates /\ meta \in MetaType
  /\ session \in {"open", "terminal", "gone"}
  /\ task \in [Procs -> TaskType]
  /\ forced \subseteq Rows /\ chases \in [Rows -> Nat] /\ leaks \in Nat
  /\ faults \in 0..MaxFaults

\* Money has arrived for the case: a link is paid in full, or the simulator
\* marked an artifact paid.
Paid == forced # {} \/ \E l \in Links : Settled(l)

\* The case is closed as recovered only by money, whichever of the four
\* processes closes it and however old its answer is: none of them takes a lost
\* answer, a cancelled or an expired link for a payment.
Account == INSTANCE CaseAccount WITH settled <- Paid, open <- state # "RECOVERED"
ImplementsAccount == Account!Spec

\* Reconciling an artifact closes an open case only if that artifact covers the
\* whole amount: an upfront part of a plan leaves the case open.
ClosedInFull ==
  [][\A p \in Procs :
       /\ At(p, "apply") /\ task'[p].at # "apply"
       /\ state # "RECOVERED" /\ state' = "RECOVERED"
       => LET r == task[p].row
          IN r \in forced \/ links[rows[r].link].paid >= Total]_vars

\* A link a customer can still pay is watched by an open artifact, remembered
\* by the case, or in the hands of a request; every other one was lost at a
\* step that counts it: an answer that did not come back, an aborted mint, a
\* replaced memory.  (A simulated payment takes an artifact off the watch.)
Watched(l) ==
  \/ \E r \in Rows : r <= minted /\ rows[r].link = l /\ rows[r].status \in OpenStatuses
  \/ meta.link = l
  \/ \E p \in {"session", "desk"} : Holds(p) /\ task[p].link = l
StraysAccountedFor ==
  Cardinality({l \in Links : l <= made /\ Live(l) /\ ~Watched(l)})
    <= leaks + Cardinality(forced)

\* An artifact that a newer mint closes is not one whose link was paid: its
\* money would never be noticed.
NoPaidLinkClosed ==
  \A r \in Rows : r <= minted /\ rows[r].status = "CLOSED" /\ Real(r)
                  => ~Settled(rows[r].link)

\* A customer is followed up once for an artifact; a second message goes out
\* only when a failure came between the message and its mark.
FollowUpsBounded == \A r \in Rows : chases[r] <= 1 + faults

\* Once the session is gone, a follow-up never goes out for a link that was
\* fully paid when the tick began, unless the gateway did not answer.  (With
\* the session's poller at work it can: the sweeper writes an answer older than
\* the poller's.)
NeverChasedIfPaid ==
  [][Message => \/ task["sweeper"].answer.status = "none"
                \/ rows[task["sweeper"].row].link \notin task["sweeper"].settled]_vars

\* Every overdue plan with a balance is dealt with: followed up, closed, or
\* expired.
OverdueHandled ==
  \A r \in Rows :
    ("sweeper" \in running /\ Due(r) /\ meta.balance > 0)
    ~> ~(Due(r) /\ meta.balance > 0)

\* While the session is open, the poller notices a link that was paid.
PaidIsNoticed ==
  \A r \in Rows :
    ("poller" \in running /\ session = "open" /\ r <= minted /\ Real(r)
       /\ rows[r].status \in OpenStatuses /\ Settled(rows[r].link))
    ~> (session # "open" \/ rows[r].status \notin OpenStatuses)
=============================================================================
