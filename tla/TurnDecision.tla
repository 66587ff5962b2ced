----------------------------- MODULE TurnDecision -----------------------------
(***************************************************************************)
(* One turn of the agent, from the customer's words to the gate's verdict, *)
(* over a bounded choice of replies, policies and cases: the reply is read,*)
(* an answer is drafted, a tool is proposed and gated.                     *)
(***************************************************************************)
EXTENDS AgentTools

CONSTANTS Scenes,      \* what turns start from: sets of replies, policies and cases
          Drafts,      \* texts a language model may draft
          Payloads,    \* tools a language model may propose
          Discounts    \* discounts decide_tool may be called with; 0 for none

ASSUME TurnAssumption ==
  /\ \A s \in Scenes : /\ s.replies \subseteq ReplyType(Nat)
                       /\ s.policies \subseteq PolicyType(Nat)
                       /\ s.cases \subseteq CaseType(Nat \ {0})
  /\ \A d \in Drafts : d.upfront # None => d.upfront \in Nat /\ d.amounts # {}
  /\ \A x \in Payloads : x.amount \in Int /\ x.deadline \in Int /\ x.discount \in Int
  /\ Discounts \subseteq 0..100

VARIABLES reply, policy, case, phase, reading, sent, payload, outcome

given == <<reply, policy, case>>
vars  == <<reply, policy, case, phase, reading, sent, payload, outcome>>

NoReading == [verdict |-> Continue, byModel |-> FALSE, commits |-> FALSE, p2p |-> NoDate,
              offer |-> None]
NoDraft   == [by |-> "none", draft |-> None, guarded |-> FALSE]
NoOutcome == Outcome("NONE", FALSE, "NONE", "NONE", FALSE)

Init == /\ \E s \in Scenes : reply \in s.replies /\ policy \in s.policies /\ case \in s.cases
        /\ phase = "heard" /\ reading = NoReading
        /\ sent = NoDraft /\ payload = NoPayload /\ outcome = NoOutcome

Read(answered) ==
  /\ phase = "heard" /\ phase' = "read"
  /\ reading' = ReadReply(reply, answered)
  /\ UNCHANGED <<given, sent, payload, outcome>>

\* A reply that stops the case is answered by no model.
Draft(d, generated, answered) ==
  /\ phase = "read" /\ reading.verdict.disposition = "CONTINUE" /\ phase' = "drafted"
  /\ sent' = [by |-> DraftSent(d, case.total, policy, generated, answered), draft |-> d,
              guarded |-> answered]
  /\ UNCHANGED <<given, reading, payload, outcome>>

\* The decision model, one of the tools it was offered; the language model's
\* payload; or nothing, when both are unavailable or unreadable.
Propose(p) ==
  /\ phase = "drafted" /\ phase' = "proposed"
  /\ payload' = p
  /\ UNCHANGED <<given, reading, sent, outcome>>
ProposeByDecision ==
  \E choice \in OfferedTools(policy), sure \in BOOLEAN, discount \in Discounts :
    Propose(JevPayload(policy, case, choice, sure, reading, discount))
ProposeByLanguage == \E p \in Payloads \cup {NoPayload} : Propose(p)

Decide(quiet) ==
  /\ phase = "proposed" /\ phase' = "gated"
  /\ outcome' = GateTool(policy, case, Proposed(policy, case, payload), payload.discount, quiet)
  /\ UNCHANGED <<given, reading, sent, payload>>

Next == \/ \E answered \in BOOLEAN : Read(answered)
        \/ \E d \in Drafts, generated, answered \in BOOLEAN : Draft(d, generated, answered)
        \/ ProposeByDecision \/ ProposeByLanguage
        \/ \E quiet \in BOOLEAN : Decide(quiet)

Spec == Init /\ [][Next]_vars
-----------------------------------------------------------------------------
Calmer(p, q) == \A x \in Judged : p[x] <= q[x]

\* A reply that looks less like a stop on every question is never held where one
\* that looks more like it goes on: the gates, the review band and the overruling
\* of the keyword screen leave no gap between them.
SuspicionNeverFrees ==
  phase = "read" /\ reading.byModel /\ reading.verdict = Continue =>
    \A p \in [Judged -> {0, 2, 3}] :
      Calmer(p, reply.p) => Verdict(p, reply.phrases) = Continue

\* The day of the month k days from today.
DayAfter(k) ==
  LET d == reply.day + k
  IN IF d <= reply.len THEN d
     ELSE IF d <= reply.len + reply.next THEN d - reply.len ELSE d - reply.len - reply.next

\* What the promise was taken from: the words of the text, or what the model made of
\* them.
Named == IF ~reading.byModel \/ (reply.when = "day_of_month" /\ Explicit(reply) # NoDate)
         THEN [says |-> reply.text.says, number |-> reply.text.number]
         ELSE [says |-> reply.when, number |-> reply.number]
\* A date that is written falls in the month it names, this year's or the next.
OnWrittenDay(k) ==
  /\ k + reply.day - reply.text.number \in {reply.text.first, reply.text.first + reply.text.year}
  /\ k \in (1 - reply.day)..365
  /\ k < 0 => reply.text.first = 0

\* A promise is booked on the day the customer named, or on the first of a month when
\* that month lacks the day; it is never months away and never in the past.  Unless the
\* day is written with its month: then it is in that month, within a year, and past
\* where a day of this month is.  (Of a number no month has, the parser may make any day.)
PromiseOnNamedDay ==
  LET k == reading.p2p
  IN k # NoDate =>
       \/ Named.says = "written" /\ OnWrittenDay(k)
       \/ Named.says # "written" /\ k \in 0..62
            /\ (Named.says = "day_of_month" => DayAfter(k) \in {Named.number, 1})
       \/ Named.says \in {"in_n_days", "day_of_month"} /\ Named.number \notin 1..31

\* A drafted answer that agrees to a part payment agrees to one that the sandbox
\* will not find too small (to half a rupee), though the two measure it against
\* different amounts.
DraftFitsSandbox ==
  LET d == sent.draft
  IN sent.by = "draft" /\ sent.guarded /\ d.p["agrees_to_partial"] >= Gate =>
       /\ policy.partial
       /\ d.upfront # None =>
            ~BelowPct(d.upfront + Rupee \div 2, PartialBase(policy, [total |-> case.total]),
                      policy.minPct)

\* What the code itself asks for, where the customer named no amount and its caller no
\* discount above the cap, is not refused by the sandbox: it keeps the ceiling and the
\* minimum share, but for the rounding of half a minor unit.
Ask == Proposed(policy, case, payload)
OwnAskAccepted ==
  phase = "gated" /\ payload # NoPayload /\ payload \notin Payloads
    /\ Ask.tool \in PaymentTools /\ reading.offer = None
    /\ Ask.tool \in OfferedTools(policy) /\ policy.partial /\ policy.ceiling # 0
    /\ payload.discount <= policy.maxDiscount
  => \/ outcome.allowed \/ outcome.rule = "TRAI_QUIET_HOURS"
     \/ Approves(policy, ToolProposal(case, [Ask EXCEPT !.amount = @ + 1], payload.discount))
=============================================================================
