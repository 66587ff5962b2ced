-------------------------- MODULE TurnDecisionProofs --------------------------
(***************************************************************************)
(* Proofs about one turn of the agent (TurnDecision.tla): what is read,    *)
(* drafted, proposed and allowed is a function of the reply, the policy and*)
(* the case, and keeps its properties for all of them.                     *)
(***************************************************************************)
EXTENDS TurnDecision, TLAPS

Given ==
  /\ reply \in ReplyType(Nat) /\ policy \in PolicyType(Nat) /\ case \in CaseType(Nat \ {0})

\* Where each part of the turn comes from.
WasRead ==
  IF phase = "heard" THEN reading = NoReading
  ELSE \E answered \in BOOLEAN : reading = ReadReply(reply, answered)
WasDrafted ==
  sent = NoDraft \/ \E d \in Drafts, generated, answered \in BOOLEAN :
                      sent = [by |-> DraftSent(d, case.total, policy, generated, answered),
                              draft |-> d, guarded |-> answered]
Chosen(x) == \E choice \in OfferedTools(policy), sure \in BOOLEAN, discount \in Discounts :
               x = JevPayload(policy, case, choice, sure, reading, discount)
WasProposed ==
  IF phase \in {"heard", "read", "drafted"} THEN payload = NoPayload
  ELSE payload \in Payloads \cup {NoPayload} \/ Chosen(payload)
WasGated ==
  phase = "gated" => \E quiet \in BOOLEAN :
    outcome = GateTool(policy, case, Proposed(policy, case, payload), payload.discount, quiet)

TurnInv == Given /\ WasRead /\ WasDrafted /\ WasProposed /\ WasGated

LEMMA InitTurn == Init => TurnInv
  BY TurnAssumption DEF Init, TurnInv, Given, WasRead, WasDrafted, WasProposed, WasGated

LEMMA NextTurn == TurnInv /\ [Next]_vars => TurnInv'
<1> SUFFICES ASSUME TurnInv, [Next]_vars PROVE TurnInv'
  OBVIOUS
<1> USE DEF TurnInv, Given, given
<1>1. ASSUME NEW answered \in BOOLEAN, Read(answered) PROVE TurnInv'
  BY <1>1 DEF Read, WasRead, WasDrafted, WasProposed, WasGated, Chosen
<1>2. ASSUME NEW d \in Drafts, NEW generated \in BOOLEAN, NEW answered \in BOOLEAN,
             Draft(d, generated, answered)
      PROVE  TurnInv'
  BY <1>2 DEF Draft, WasRead, WasDrafted, WasProposed, WasGated, Chosen
<1>3. ASSUME NEW p, Propose(p), p \in Payloads \cup {NoPayload} \/ Chosen(p) PROVE TurnInv'
  BY <1>3 DEF Propose, WasRead, WasDrafted, WasProposed, WasGated, Chosen
<1>4. ASSUME NEW quiet \in BOOLEAN, Decide(quiet) PROVE TurnInv'
  BY <1>4 DEF Decide, WasRead, WasDrafted, WasProposed, WasGated, Chosen
<1>5. CASE UNCHANGED vars
  BY <1>5 DEF vars, WasRead, WasDrafted, WasProposed, WasGated, Chosen
<1>6. ProposeByDecision => TurnInv'
  BY <1>3 DEF ProposeByDecision, Chosen
<1>7. ProposeByLanguage => TurnInv'
  BY <1>3 DEF ProposeByLanguage
<1> QED
  BY <1>1, <1>2, <1>4, <1>5, <1>6, <1>7 DEF Next

LEMMA AlwaysTurn == Spec => []TurnInv
  BY InitTurn, NextTurn, PTL DEF Spec
-----------------------------------------------------------------------------
\* The first phrase list that is hit is one of those that are hit.
LEMMA FirstFound ==
  ASSUME NEW found \in SUBSET StopQuestions, found # {}
  PROVE  First(found) \in found
<1> DEFINE Lead(i) == /\ Precedence[i] \in found
                      /\ \A j \in 1..(i - 1) : Precedence[j] \notin found
<1>1. /\ Precedence[1] = "wants_cancel" /\ Precedence[2] = "wants_no_contact"
      /\ Precedence[3] = "disputes_charge"
  BY DEF Precedence
<1>2. \E i \in 1..3 : Lead(i)
  <2>1. CASE "wants_cancel" \in found
    <3>1. Lead(1)
      BY <1>1, <2>1
    <3> QED BY <3>1
  <2>2. CASE "wants_cancel" \notin found /\ "wants_no_contact" \in found
    <3>1. \A j \in 1..(2 - 1) : j = 1
      OBVIOUS
    <3>2. Lead(2)
      BY <1>1, <2>2, <3>1
    <3> QED BY <3>2
  <2>3. CASE "wants_cancel" \notin found /\ "wants_no_contact" \notin found
    <3>1. \A j \in 1..(3 - 1) : j = 1 \/ j = 2
      OBVIOUS
    <3>2. "disputes_charge" \in found
      BY <2>3 DEF StopQuestions
    <3>3. Lead(3)
      BY <1>1, <2>3, <3>1, <3>2
    <3> QED BY <3>3
  <2> QED
    BY <2>1, <2>2, <2>3
<1>3. Lead(CHOOSE i \in 1..3 : Lead(i))
  BY <1>2
<1> QED
  BY <1>3 DEF First

\* What goes on: no question at its gate or in the review band, and no keyword hit
\* that stands.
GoesOn(p, phrases) ==
  /\ \A q \in StopQuestions : p[q] < ReviewFloor
  /\ p["claims_already_paid"] < Gate /\ p["hardship"] < Gate
  /\ phrases # {} => Overruled(p, First(phrases))

LEMMA StoppedStops ==
  /\ \A rule : Stopped(rule) # Continue
  /\ Review # Continue /\ Review.disposition = "ESCALATE"
  BY DEF Stopped, Continue, Review

LEMMA VerdictOn ==
  ASSUME NEW p \in [Judged -> Int], NEW phrases \in SUBSET StopQuestions
  PROVE  Verdict(p, phrases) = Continue <=> GoesOn(p, phrases)
<1> DEFINE yes   == {q \in StopQuestions : p[q] >= Gate}
           maybe == {q \in StopQuestions : p[q] >= ReviewFloor}
           hit   == First(phrases)
<1>0. \A q \in StopQuestions : q \in Judged /\ p[q] \in Int
  BY DEF Judged
<1>1. yes \subseteq maybe
  BY <1>0 DEF Gate, ReviewFloor
<1>2. CASE yes # {}
  <2>1. Verdict(p, phrases) = Stopped(RuleOf[First(yes)])
    BY <1>2 DEF Verdict
  <2>2. ~GoesOn(p, phrases)
    BY <1>0, <1>1, <1>2 DEF GoesOn, ReviewFloor
  <2> QED
    BY <2>1, <2>2, StoppedStops
<1>3. CASE yes = {} /\ phrases # {} /\ ~Overruled(p, hit)
  <2>1. Verdict(p, phrases)
          = IF p["manipulation"] >= Gate THEN ScreenUserMessage(phrases) ELSE Review
    BY <1>3 DEF Verdict
  <2>2. ScreenUserMessage(phrases) = Stopped(RuleOf[hit])
    BY <1>3 DEF ScreenUserMessage
  <2> QED
    BY <1>3, <2>1, <2>2, StoppedStops DEF GoesOn
<1>4. CASE yes = {} /\ (phrases = {} \/ Overruled(p, hit))
  <2> DEFINE Rest ==
        CASE maybe # {} -> Review
          [] maybe = {} /\ p["claims_already_paid"] >= Gate ->
               [disposition |-> "ESCALATE", rule |-> "NO_DOUBLE_CHARGE"]
          [] maybe = {} /\ p["claims_already_paid"] < Gate /\ p["hardship"] >= Gate -> Review
          [] OTHER -> Continue
  <2>1. Verdict(p, phrases) = Rest
    BY <1>4 DEF Verdict
  <2>2. p["claims_already_paid"] \in Int /\ p["hardship"] \in Int
    BY DEF Judged, SituationQuestions
  <2>3. CASE maybe # {}
    <3>1. Rest = Review
      BY <2>3
    <3>2. ~GoesOn(p, phrases)
      BY <1>0, <2>3 DEF GoesOn, ReviewFloor
    <3> QED BY <2>1, <3>1, <3>2, StoppedStops
  <2>4. CASE maybe = {} /\ p["claims_already_paid"] >= Gate
    <3>1. Rest = [disposition |-> "ESCALATE", rule |-> "NO_DOUBLE_CHARGE"]
      BY <2>2, <2>4 DEF Gate
    <3> QED BY <2>1, <2>2, <2>4, <3>1 DEF GoesOn, Continue, Gate
  <2>5. CASE maybe = {} /\ p["claims_already_paid"] < Gate /\ p["hardship"] >= Gate
    <3>1. Rest = Review
      BY <2>2, <2>5 DEF Gate
    <3> QED BY <2>1, <2>2, <2>5, <3>1, StoppedStops DEF GoesOn, Gate
  <2>6. CASE maybe = {} /\ p["claims_already_paid"] < Gate /\ p["hardship"] < Gate
    <3>1. Rest = Continue
      BY <2>2, <2>6 DEF Gate
    <3>2. GoesOn(p, phrases)
      BY <1>0, <1>4, <2>6 DEF GoesOn, ReviewFloor
    <3> QED BY <2>1, <3>1, <3>2
  <2> QED
    BY <2>2, <2>3, <2>4, <2>5, <2>6 DEF Gate
<1> QED
  BY <1>2, <1>3, <1>4

\* A calmer reply goes on where a less calm one does.
LEMMA CalmerGoesOn ==
  ASSUME NEW p \in [Judged -> Int], NEW q \in [Judged -> Int],
         NEW phrases \in SUBSET StopQuestions, Calmer(p, q), GoesOn(q, phrases)
  PROVE  GoesOn(p, phrases)
<1>1. \A x \in Judged : p[x] \in Int /\ q[x] \in Int /\ p[x] <= q[x]
  BY DEF Calmer
<1>2. \A x \in StopQuestions : p[x] < ReviewFloor
  BY <1>1 DEF GoesOn, ReviewFloor, Judged
<1>3. p["claims_already_paid"] < Gate /\ p["hardship"] < Gate
  BY <1>1 DEF GoesOn, Gate, Judged, SituationQuestions
<1>4. ASSUME phrases # {} PROVE Overruled(p, First(phrases))
  <2>1. First(phrases) \in Judged /\ "manipulation" \in Judged
    BY <1>4, FirstFound DEF Judged
  <2> QED
    BY <1>1, <1>4, <2>1 DEF GoesOn, Overruled, KeywordOverruleMax, Gate
<1> QED
  BY <1>2, <1>3, <1>4 DEF GoesOn

\* A reply that looks less like a stop on every question is never held where one that
\* looks more like it goes on (_verdict in reply_understanding.py).
THEOREM CalmGoesOn == Spec => []SuspicionNeverFrees
<1>1. TurnInv => SuspicionNeverFrees
  <2> SUFFICES ASSUME TurnInv, phase = "read", reading.byModel, reading.verdict = Continue,
                      NEW p \in [Judged -> {0, 2, 3}], Calmer(p, reply.p)
               PROVE  Verdict(p, reply.phrases) = Continue
    BY DEF SuspicionNeverFrees
  <2>1. reply.p \in [Judged -> Int] /\ reply.phrases \in SUBSET StopQuestions
    BY DEF TurnInv, Given, ReplyType, Bands
  <2>2. PICK answered \in BOOLEAN : reading = ReadReply(reply, answered)
    BY DEF TurnInv, WasRead
  <2>3. reading.verdict = Verdict(reply.p, reply.phrases)
    BY <2>2 DEF ReadReply, ModelReading, KeywordReading
  <2>4. p \in [Judged -> Int]
    OBVIOUS
  <2>5. GoesOn(reply.p, reply.phrases)
    BY <2>1, <2>3, VerdictOn
  <2>6. GoesOn(p, reply.phrases)
    BY <2>1, <2>4, <2>5, CalmerGoesOn
  <2> QED
    BY <2>1, <2>4, <2>6, VerdictOn
<1> QED
  BY <1>1, AlwaysTurn, PTL
-----------------------------------------------------------------------------
\* The calendar: a day from 0 to 62 days away, on the named number or on a first.
LEMMA NamedDay ==
  ASSUME NEW n \in 1..31, NEW day \in 1..31, NEW len \in 28..31, NEW next \in 28..31,
         day <= len, NEW k, k = NthOfMonth(n, day, len, next)
  PROVE  /\ k \in 0..62
         /\ (IF day + k <= len THEN day + k
             ELSE IF day + k <= len + next THEN day + k - len ELSE day + k - len - next)
              \in {n, 1}
<1>1. CASE n >= day /\ n <= len
  <2>1. NthOfMonth(n, day, len, next) = n - day
    BY <1>1 DEF NthOfMonth
  <2> QED BY <1>1, <2>1
<1>2. CASE n >= day /\ n > len
  <2>1. NthOfMonth(n, day, len, next) = len - day + 1
    BY <1>2 DEF NthOfMonth, FirstAfter
  <2> QED BY <1>2, <2>1
<1>3. CASE n < day /\ n <= next
  <2>1. NthOfMonth(n, day, len, next) = len - day + n
    BY <1>3 DEF NthOfMonth
  <2> QED BY <1>3, <2>1
<1>4. CASE n < day /\ n > next
  <2>1. NthOfMonth(n, day, len, next) = len - day + next + 1
    BY <1>4 DEF NthOfMonth, FirstAfter
  <2> QED BY <1>4, <2>1
<1> QED
  BY <1>1, <1>2, <1>3, <1>4

\* The words: what the parser finds is booked as PromiseOnNamedDay says.
Booked(says, number, k) ==
  \/ says = "written" /\ OnWrittenDay(k)
  \/ says # "written" /\ k \in 0..62 /\ (says = "day_of_month" => DayAfter(k) \in {number, 1})
  \/ says \in {"in_n_days", "day_of_month"} /\ number \notin 1..31

LEMMA ReplyCalendar ==
  ASSUME Given
  PROVE  /\ reply.when \in Whens /\ reply.number \in (0..99) \cup {None}
         /\ reply.day \in 1..31 /\ reply.len \in 28..31 /\ reply.next \in 28..31
         /\ reply.day <= reply.len
         /\ reply.text \in TextType /\ FitsCalendar(reply.text, reply.len)
BY DEF Given, ReplyType

LEMMA OnNumber ==
  ASSUME Given, NEW n \in 1..31
  PROVE  LET k == NthOfMonth(n, reply.day, reply.len, reply.next)
         IN k \in 0..62 /\ DayAfter(k) \in {n, 1}
<1> DEFINE k == NthOfMonth(n, reply.day, reply.len, reply.next)
<1>1. PICK day \in 1..31, len \in 28..31, next \in 28..31 :
        day = reply.day /\ len = reply.len /\ next = reply.next /\ day <= len
  BY ReplyCalendar
<1>2. /\ k \in 0..62
      /\ (IF day + k <= len THEN day + k
          ELSE IF day + k <= len + next THEN day + k - len ELSE day + k - len - next)
           \in {n, 1}
  BY <1>1, NamedDay
<1> HIDE DEF k
<1>3. PICK m \in 0..62 : m = k
  BY <1>2
<1>4. DayAfter(m) = IF day + m <= len THEN day + m
                    ELSE IF day + m <= len + next THEN day + m - len ELSE day + m - len - next
  BY <1>1 DEF DayAfter
<1>5. k \in 0..62 /\ DayAfter(k) \in {n, 1}
  BY <1>2, <1>3, <1>4
<1> QED
  BY <1>5 DEF k

LEMMA OnWritten ==
  ASSUME Given, reply.text.says = "written", reply.text.number \in 1..reply.text.len
  PROVE  OnWrittenDay(MonthStart(reply.text) + reply.text.number - reply.day)
<1>0. /\ reply.text.number \in 0..99 /\ reply.text.first \in -334..334
      /\ reply.text.year \in 365..366 /\ reply.text.len \in {0} \cup 28..31
      /\ reply.day \in 1..31 /\ reply.len \in 28..31 /\ reply.day <= reply.len
  BY ReplyCalendar DEF TextType
<1>a. PICK day \in 1..31, len \in 28..31 : day = reply.day /\ len = reply.len /\ day <= len
  BY <1>0
<1>b. PICK n \in 0..99, first \in -334..334 : n = reply.text.number /\ first = reply.text.first
  BY <1>0
<1>c. PICK year \in 365..366, days \in {0} \cup 28..31 :
        year = reply.text.year /\ days = reply.text.len
  BY <1>0
<1>1. /\ day = reply.day /\ len = reply.len /\ n = reply.text.number
      /\ first = reply.text.first /\ year = reply.text.year /\ days = reply.text.len
      /\ day <= len
  BY <1>a, <1>b, <1>c
<1>2. /\ first < 0 => first + days <= 0
      /\ first = 0 => days \in {0, len}
      /\ first > 0 => first >= len
      /\ n \in 1..days
  BY <1>1, ReplyCalendar DEF FitsCalendar
<1> DEFINE start == IF first < 0 THEN first + year ELSE first
           k == start + n - day
<1>3. /\ k + day - n \in {first, first + year}
      /\ k \in (1 - day)..365
      /\ k < 0 => first = 0
  <2>0. day \in Int /\ len \in Int /\ n \in Int /\ first \in Int /\ year \in Int /\ days \in Int
        /\ 1 <= day /\ day <= 31 /\ len >= 28 /\ 1 <= n /\ n <= days /\ days <= 31
        /\ first >= -334 /\ first <= 334 /\ year >= 365 /\ year <= 366
    BY <1>2
  <2>1. CASE first < 0
    <3>1. start = first + year /\ first + days <= 0
      BY <1>2, <2>1
    <3> QED BY <2>0, <2>1, <3>1
  <2>2. CASE first = 0
    <3>1. start = 0
      BY <2>2
    <3> QED BY <2>0, <2>2, <3>1
  <2>3. CASE first > 0
    <3>1. start = first /\ first >= len
      BY <1>2, <2>3
    <3> QED BY <1>1, <2>0, <2>3, <3>1
  <2> QED
    BY <2>1, <2>2, <2>3
<1>4. MonthStart(reply.text) + reply.text.number - reply.day = k
  BY <1>1 DEF MonthStart
<1> HIDE DEF k
<1> QED
  BY <1>1, <1>3, <1>4 DEF OnWrittenDay

LEMMA TextBooked ==
  ASSUME Given, NEW k,
         k = ExtractP2PDate(reply.text, reply.day, reply.len, reply.next), k # NoDate
  PROVE  Booked(reply.text.says, reply.text.number, k)
<1> DEFINE t == reply.text
<1>0. t.says \in TextWhens /\ t.number \in 0..99
  BY ReplyCalendar DEF TextType
<1>1. CASE t.says \in {"tomorrow", "day_after_tomorrow", "next_week"}
  <2>1. k \in {1, 2, 7}
    BY <1>1 DEF ExtractP2PDate
  <2> QED BY <1>1, <2>1 DEF Booked
<1>2. CASE t.says = "in_n_days"
  <2>1. k = t.number
    BY <1>2 DEF ExtractP2PDate
  <2> QED BY <1>0, <1>2, <2>1 DEF Booked
<1>3. CASE t.says = "day_of_month"
  <2>1. k = NthOfMonth(t.number, reply.day, reply.len, reply.next)
    BY <1>3 DEF ExtractP2PDate
  <2> QED BY <1>3, <2>1, OnNumber DEF Booked
<1>4. CASE t.says = "written" /\ t.number \in 1..t.len
  <2>1. k = MonthStart(t) + t.number - reply.day
    BY <1>4 DEF ExtractP2PDate
  <2> QED BY <1>4, <2>1, OnWritten DEF Booked
<1>5. CASE t.says = "nothing" \/ (t.says = "written" /\ t.number \notin 1..t.len)
  BY <1>5 DEF ExtractP2PDate
<1> QED
  BY <1>0, <1>1, <1>2, <1>3, <1>4, <1>5 DEF TextWhens

LEMMA ModelBooked ==
  ASSUME Given, NEW k, k = ResolveDate(reply, Candidate(reply.number)), k # NoDate,
         ~(reply.when = "day_of_month" /\ Explicit(reply) # NoDate)
  PROVE  Booked(reply.when, reply.number, k)
<1> DEFINE n == Candidate(reply.number)
<1>0. /\ n \in (1..31) \cup {None} /\ (n = None \/ n = reply.number)
      /\ reply.when \in Whens
  BY ReplyCalendar DEF Candidate
<1> HIDE DEF n
<1>k. k = ResolveDate(reply, n)
  BY DEF n
<1>1. CASE reply.when \in {"today", "tomorrow", "day_after_tomorrow", "next_week"}
  <2>1. k \in {0, 1, 2, 7}
    BY <1>1, <1>k DEF ResolveDate
  <2> QED BY <1>1, <2>1 DEF Booked
<1>2. CASE reply.when = "month_end"
  <2>1. k = reply.len - reply.day
    BY <1>2, <1>k DEF ResolveDate
  <2> QED BY <1>2, <2>1, ReplyCalendar DEF Booked
<1>3. CASE reply.when = "in_n_days" /\ n # None
  <2>1. k = n
    BY <1>3, <1>k DEF ResolveDate
  <2> QED BY <1>0, <1>3, <2>1 DEF Booked
<1>4. CASE reply.when = "day_of_month" /\ n # None
  <2>1. k = NthOfMonth(n, reply.day, reply.len, reply.next)
    BY <1>4, <1>k DEF ResolveDate
  <2> QED BY <1>0, <1>4, <2>1, OnNumber DEF Booked
<1>5. CASE reply.when = "not_stated" \/ (reply.when \in {"in_n_days", "day_of_month"} /\ n = None)
  BY <1>5, <1>k DEF ResolveDate
<1> QED
  BY <1>0, <1>1, <1>2, <1>3, <1>4, <1>5 DEF Whens

\* A promise is booked on the day the customer named, on the first of a month, or on the
\* day that is written with its month (extract_p2p_date in language_parser.py and
\* _resolve_date in reply_understanding.py), for every reply and every calendar.
THEOREM PromiseKept == Spec => []PromiseOnNamedDay
<1>1. TurnInv => PromiseOnNamedDay
  <2> SUFFICES ASSUME TurnInv, reading.p2p # NoDate
               PROVE  Booked(Named.says, Named.number, reading.p2p)
    BY DEF PromiseOnNamedDay, Booked
  <2>1. Given
    BY DEF TurnInv
  <2>2. PICK answered \in BOOLEAN : reading = ReadReply(reply, answered)
    BY DEF TurnInv, WasRead, NoReading
  <2>3. CASE ~answered
    <3>1. /\ reading.p2p = ExtractP2PDate(reply.text, reply.day, reply.len, reply.next)
          /\ ~reading.byModel
      BY <2>2, <2>3 DEF ReadReply, KeywordReading
    <3>2. Named.says = reply.text.says /\ Named.number = reply.text.number
      BY <3>1 DEF Named
    <3> QED BY <2>1, <3>1, <3>2, TextBooked
  <2>4. CASE answered /\ reply.when = "day_of_month" /\ Explicit(reply) # NoDate
    <3>1. reading.p2p = ResolveDate(reply, Candidate(reply.number))
      BY <2>2, <2>4 DEF ReadReply, ModelReading
    <3>2. reading.p2p = Explicit(reply)
      BY <2>4, <3>1 DEF ResolveDate
    <3>3. reading.p2p = ExtractP2PDate(reply.text, reply.day, reply.len, reply.next)
      BY <2>4, <3>2 DEF Explicit
    <3>4. Named.says = reply.text.says /\ Named.number = reply.text.number
      BY <2>4 DEF Named
    <3> QED BY <2>1, <3>3, <3>4, TextBooked
  <2>5. CASE answered /\ ~(reply.when = "day_of_month" /\ Explicit(reply) # NoDate)
    <3>1. reading.p2p = ResolveDate(reply, Candidate(reply.number)) /\ reading.byModel
      BY <2>2, <2>5 DEF ReadReply, ModelReading
    <3>2. Named.says = reply.when /\ Named.number = reply.number
      BY <2>5, <3>1 DEF Named
    <3> QED BY <2>1, <2>5, <3>1, <3>2, ModelBooked
  <2> QED
    BY <2>3, <2>4, <2>5
<1> QED
  BY <1>1, AlwaysTurn, PTL
-----------------------------------------------------------------------------
\* A draft that was sent agrees to a part payment the sandbox will not find too small
\* (check_draft in draft_guard.py against PolicySandbox.validate).
THEOREM DraftStands == Spec => []DraftFitsSandbox
<1>1. TurnInv => DraftFitsSandbox
  <2> DEFINE d == sent.draft
             base == PartialBase(policy, [total |-> case.total])
  <2> SUFFICES ASSUME TurnInv, sent.by = "draft", sent.guarded,
                      d.p["agrees_to_partial"] >= Gate
               PROVE  /\ policy.partial
                      /\ d.upfront # None =>
                           ~BelowPct(d.upfront + Rupee \div 2, base, policy.minPct)
    BY DEF DraftFitsSandbox
  <2>1. PICK draft \in Drafts, generated \in BOOLEAN, answered \in BOOLEAN :
          sent = [by |-> DraftSent(draft, case.total, policy, generated, answered),
                  draft |-> draft, guarded |-> answered]
    BY DEF TurnInv, WasDrafted, NoDraft
  <2>2. d = draft /\ answered /\ CheckDraft(d, case.total, policy, answered)
    BY <2>1 DEF DraftSent
  <2>3. policy.partial
    BY <2>2 DEF CheckDraft
  <2>4. ASSUME d.upfront # None
        PROVE  ~BelowPct(d.upfront + Rupee \div 2, base, policy.minPct)
    <3>1. d.upfront \in Nat /\ d.amounts # {}
      BY <2>1, <2>2, <2>4, TurnAssumption
    <3>2. 200 * d.upfront + 100 * Rupee >= 2 * case.total * policy.minPct
      BY <2>2, <2>4, <3>1 DEF CheckDraft
    <3>3. case.total \in Nat \ {0} /\ policy.minPct \in 0..100 /\ policy.ceiling \in Nat \cup {None}
      BY DEF TurnInv, Given, PolicyType, CaseType
    <3>4. base \in Nat /\ base <= case.total
      BY <3>3 DEF PartialBase, None
    <3> DEFINE whole == case.total * policy.minPct
               part  == base * policy.minPct
    <3>5. whole \in Nat /\ part \in Nat /\ part <= whole
      <4>1. (case.total - base) * policy.minPct >= 0
        BY <3>3, <3>4
      <4> QED
        BY <3>3, <3>4, <4>1
    <3>6. 2 * case.total * policy.minPct = 2 * whole
      BY <3>3
    <3>7. (200 * policy.minPct - 1) * base = 200 * part - base
      BY <3>3, <3>4
    <3>8. Rupee \div 2 = 50 /\ Rupee = 100
      BY DEF Rupee
    <3> HIDE DEF d, base, whole, part
    <3> QED
      BY <3>1, <3>2, <3>4, <3>5, <3>6, <3>7, <3>8 DEF BelowPct
  <2> QED
    BY <2>3, <2>4
<1> QED
  BY <1>1, AlwaysTurn, PTL
-----------------------------------------------------------------------------
LEMMA Products ==
  ASSUME NEW small \in Nat, NEW large \in Nat, NEW pct \in 0..100, small <= large
  PROVE  /\ small * pct \in Nat /\ large * pct \in Nat
         /\ small * pct <= large * pct /\ small * pct <= 100 * small
<1>1. (large - small) * pct >= 0 /\ small * (100 - pct) >= 0
  OBVIOUS
<1> QED
  BY <1>1

\* round() is within half a unit, and a share of a whole is no more than it.
LEMMA ShareBounds ==
  ASSUME NEW total \in Nat, NEW pct \in 0..100
  PROVE  /\ RoundedShare(total, pct) \in 0..total
         /\ 100 * RoundedShare(total, pct) >= total * pct - 50
         /\ 100 * RoundedShare(total, pct) <= total * pct + 50
<1> DEFINE x == total * pct
           q == x \div 100
           rest == x % 100
<1>1. x \in Nat /\ x <= 100 * total
  <2>1. total * (100 - pct) >= 0
    OBVIOUS
  <2> QED BY <2>1
<1> HIDE DEF x
<1>2. q \in Nat /\ rest \in 0..99 /\ x = 100 * q + rest
  BY <1>1
<1>3. RoundedShare(total, pct) = IF rest > 50 \/ (rest = 50 /\ q % 2 = 1) THEN q + 1 ELSE q
  BY DEF RoundedShare, x
<1> HIDE DEF q, rest
<1>4. CASE rest > 50
  BY <1>1, <1>2, <1>3, <1>4 DEF x
<1>5. CASE rest = 50
  BY <1>1, <1>2, <1>3, <1>5 DEF x
<1>6. CASE rest < 50
  BY <1>1, <1>2, <1>3, <1>6 DEF x
<1> QED
  BY <1>2, <1>4, <1>5, <1>6

\* What the sandbox asks of a payment tool that moves x.
Fits(x) ==
  /\ policy.ceiling # None => x <= policy.ceiling
  /\ ~BelowPct(x, IF policy.ceiling \in {None, 0} \/ case.total <= policy.ceiling
                  THEN case.total ELSE policy.ceiling, policy.minPct)

LEMMA FitsApproved ==
  ASSUME TurnInv, NEW tool \in PaymentTools \cap OfferedTools(policy), policy.partial,
         NEW x \in Nat \ {0}, NEW deadline, NEW discount \in 0..100, discount <= policy.maxDiscount,
         Fits(x) \/ (x = case.total /\ tool # "OFFER_PARTIAL_PLAN"
                      /\ (policy.ceiling # None => x <= policy.ceiling))
  PROVE  Approves(policy, ToolProposal(case, [tool |-> tool, amount |-> x, deadline |-> deadline],
                                       discount))
<1> DEFINE pr == [tool |-> tool, amount |-> x, deadline |-> deadline]
           a  == ToolProposal(case, pr, discount)
<1>1. /\ policy.maxDiscount \in 0..100 /\ policy.ceiling \in Nat \cup {None}
      /\ case.total \in Nat \ {0}
  BY DEF TurnInv, Given, PolicyType, CaseType
<1>2. ToolAction[tool] = tool /\ ToolChannel[tool] = "PAYMENT_LINK" /\ tool \in Tools
  BY DEF ToolAction, ToolChannel, PaymentTools, Tools, Dispositive
<1>3. tool \in policy.actions /\ "PAYMENT_LINK" \in policy.channels
  BY <1>2 DEF OfferedTools, NoAction, NoChannel, PaymentTools
<1>4. Amount(case, pr) = x
  BY DEF Amount, None
<1>5. a = [action |-> tool, channel |-> "PAYMENT_LINK", discount |-> discount, amount |-> x,
           total |-> case.total, partial |-> x < case.total \/ tool = "OFFER_PARTIAL_PLAN"]
  BY <1>2, <1>4 DEF ToolProposal
<1> HIDE DEF a, pr
<1>6. CeilingAllows(policy, a)
  BY <1>1, <1>5 DEF CeilingAllows, Fits
<1>7. PartialAllowed(policy, a)
  <2>1. CASE Fits(x)
    BY <1>5, <2>1 DEF PartialAllowed, Fits, PartialBase
  <2>2. CASE x = case.total /\ tool # "OFFER_PARTIAL_PLAN"
    <3>0. ~(x < case.total \/ tool = "OFFER_PARTIAL_PLAN")
      BY <1>1, <2>2
    <3>1. a.action = tool /\ a.amount = x /\ a.total = case.total /\ ~a.partial
      BY <1>5, <3>0
    <3>2. ~IsPartial(a)
      BY <1>1, <2>2, <3>1 DEF IsPartial
    <3> QED BY <3>2 DEF PartialAllowed
  <2> QED BY <2>1, <2>2
<1>8. Approves(policy, a)
  BY <1>1, <1>3, <1>5, <1>6, <1>7 DEF Approves
<1> QED
  BY <1>8 DEF a, pr

\* The minimum share, rounded, is enough, or the next unit is.
LEMMA ShareFits ==
  ASSUME TurnInv, policy.ceiling # 0,
         NEW x \in Nat, x = RoundedShare(case.total, policy.minPct), x > 0,
         policy.ceiling # None => x <= policy.ceiling
  PROVE  Fits(x) \/ Fits(x + 1)
<1> DEFINE pct  == policy.minPct
           base == IF policy.ceiling \in {None, 0} \/ case.total <= policy.ceiling
                   THEN case.total ELSE policy.ceiling
<1>1. /\ pct \in 0..100 /\ policy.ceiling \in Nat \cup {None} /\ case.total \in Nat \ {0}
  BY DEF TurnInv, Given, PolicyType, CaseType
<1>2. base \in Nat /\ base <= case.total /\ (base = case.total \/ base = policy.ceiling)
  BY <1>1 DEF None
<1> HIDE DEF base
<1> DEFINE whole == case.total * pct
           part  == base * pct
<1>3. whole \in Nat /\ part \in Nat /\ part <= whole /\ part <= 100 * base
  BY <1>1, <1>2, Products
<1>4. (200 * pct - 1) * base = 200 * part - base
  BY <1>1, <1>2
<1>5. x <= case.total /\ 100 * x >= whole - 50
  <2>1. PICK t \in Nat, m \in 0..100 : t = case.total /\ m = pct
    BY <1>1
  <2>2. /\ RoundedShare(t, m) \in 0..t /\ 100 * RoundedShare(t, m) >= t * m - 50
    BY ShareBounds
  <2> QED
    BY <2>1, <2>2
<1> HIDE DEF whole, part
<1>6. CASE x >= base
  <2>1. ~BelowPct(x, base, pct)
    BY <1>1, <1>2, <1>3, <1>4, <1>6 DEF BelowPct
  <2> QED BY <2>1 DEF Fits, base
<1>7. CASE x < base
  <2>1. ~BelowPct(x + 1, base, pct)
    BY <1>1, <1>2, <1>3, <1>4, <1>5 DEF BelowPct
  <2>2. policy.ceiling # None => x + 1 <= policy.ceiling
    BY <1>1, <1>2, <1>7 DEF base, None
  <2> QED BY <2>1, <2>2 DEF Fits, base
<1> QED
  BY <1>1, <1>2, <1>6, <1>7

\* What the code itself asks for is not refused by its own sandbox, but for the
\* rounding of one minor unit (decide_tool and gate_tool in agent_tools.py).
THEOREM AskStands == Spec => []OwnAskAccepted
<1>1. TurnInv => OwnAskAccepted
  <2> DEFINE next == [Ask EXCEPT !.amount = @ + 1]
  <2> SUFFICES ASSUME TurnInv, phase = "gated", payload # NoPayload, payload \notin Payloads,
                      Ask.tool \in PaymentTools, reading.offer = None,
                      Ask.tool \in OfferedTools(policy), policy.partial, policy.ceiling # 0,
                      payload.discount <= policy.maxDiscount,
                      ~outcome.allowed, outcome.rule # "TRAI_QUIET_HOURS"
               PROVE  Approves(policy, ToolProposal(case, next, payload.discount))
    BY DEF OwnAskAccepted
  <2>1. Chosen(payload)
    BY DEF TurnInv, WasProposed
  <2>2. PICK choice \in OfferedTools(policy), sure \in BOOLEAN, discount \in Discounts :
          payload = JevPayload(policy, case, choice, sure, reading, discount)
    BY <2>1 DEF Chosen
  <2>21. /\ payload.discount = discount /\ discount \in 0..100
         /\ discount <= policy.maxDiscount
    BY <2>2, TurnAssumption DEF JevPayload
  <2>3. PICK quiet \in BOOLEAN : outcome = GateTool(policy, case, Ask, discount, quiet)
    BY <2>21 DEF TurnInv, WasGated, Ask
  <2>4. PICK tool \in PaymentTools \cap OfferedTools(policy) : tool = Ask.tool
    OBVIOUS
  <2>5. tool \in Tools /\ ToolAction[tool] = tool /\ ToolChannel[tool] = "PAYMENT_LINK"
        /\ tool \notin Dispositive
        /\ tool # "SEND_WHATSAPP" /\ tool # "VOICE_CALL" /\ tool # "RETRY_CHARGE"
    BY DEF ToolAction, ToolChannel, PaymentTools, Tools, Dispositive
  <2>6. payload.tool = tool
    <3>1. choice \in Tools
      BY DEF OfferedTools
    <3>2. payload.tool \in {choice, ClassDefault(case.class)}
      BY <2>2 DEF JevPayload
    <3>3. tool = IF payload.tool \in Tools THEN payload.tool ELSE ClassDefault(case.class)
      BY <2>4, <2>5 DEF Ask, Proposed
    <3> QED BY <2>5, <3>1, <3>2, <3>3
  <2>7. ~Approves(policy, ToolProposal(case, Ask, discount))
    <3>1. CASE quiet
      <4>1. outcome = Outcome(Ask.tool, FALSE, "WAITING", "TRAI_QUIET_HOURS", FALSE)
        BY <2>3, <2>4, <2>5, <3>1 DEF GateTool, NoChannel, Dispositive
      <4> QED BY <4>1 DEF Outcome
    <3>2. CASE ~quiet /\ Approves(policy, ToolProposal(case, Ask, discount))
      BY <2>3, <2>4, <2>5, <3>2 DEF GateTool, NoChannel, Dispositive, Outcome
    <3> QED BY <3>1, <3>2
  <2> DEFINE total == case.total
             floor == RoundedShare(case.total, policy.minPct)
             amount == JevAmount(policy, case.total, tool, None)
  <2>8. payload.amount = amount
    BY <2>2, <2>6 DEF JevPayload
  <2>9. /\ total \in Nat \ {0} /\ policy.ceiling \in (Nat \ {0}) \cup {None}
        /\ policy.minPct \in 0..100
    BY DEF TurnInv, Given, PolicyType, CaseType
  <2>10. /\ floor \in 0..total /\ 100 * floor >= total * policy.minPct - 50
    <3>1. PICK t \in Nat, m \in 0..100 : t = case.total /\ m = policy.minPct
      BY <2>9
    <3>2. RoundedShare(t, m) \in 0..t /\ 100 * RoundedShare(t, m) >= t * m - 50
      BY ShareBounds
    <3> QED BY <3>1, <3>2
  <2>11. Ask = [tool |-> tool,
                amount |-> IF amount # None THEN Larger(1, Smaller(amount, total)) ELSE None,
                deadline |-> Ask.deadline]
    BY <2>4, <2>5, <2>6, <2>8 DEF Ask, Proposed
  <2>12. ASSUME NEW x \in Nat \ {0}, Ask.amount = x, Fits(x) PROVE FALSE
    <3>1. Ask = [tool |-> tool, amount |-> x, deadline |-> Ask.deadline]
      BY <2>11, <2>12
    <3> QED BY <2>7, <2>12, <3>1, <2>21, FitsApproved
  <2>13. CASE amount = None
    <3>1. tool # "OFFER_PARTIAL_PLAN" /\ (policy.ceiling # None => total <= policy.ceiling)
      BY <2>9, <2>10, <2>13 DEF JevAmount, None
    <3>2. ToolProposal(case, Ask, discount)
            = ToolProposal(case, [tool |-> tool, amount |-> total, deadline |-> Ask.deadline], discount)
      BY <2>9, <2>11, <2>13 DEF ToolProposal, Amount, None
    <3> QED BY <2>7, <2>9, <3>1, <3>2, <2>21, FitsApproved
  <2>14. CASE amount # None /\ amount = policy.ceiling /\ policy.ceiling < total
    <3>1. policy.ceiling \in Nat \ {0}
      BY <2>9, <2>14
    <3>2. Ask.amount = policy.ceiling
      BY <2>9, <2>11, <2>14, <3>1 DEF Larger, Smaller
    <3>3. Fits(policy.ceiling)
      <4>1. (200 * policy.minPct - 1) * policy.ceiling <= 20000 * policy.ceiling
        BY <2>9, <3>1
      <4> QED BY <2>9, <2>14, <3>1, <4>1 DEF Fits, BelowPct, None
    <3> QED BY <2>12, <3>1, <3>2, <3>3
  <2>15. CASE /\ amount = floor /\ tool = "OFFER_PARTIAL_PLAN" /\ floor > 0
              /\ (policy.ceiling # None => floor <= policy.ceiling)
    <3>1. Ask.amount = floor
      BY <2>9, <2>10, <2>11, <2>15 DEF Larger, Smaller, None
    <3>2. Fits(floor) \/ Fits(floor + 1)
      BY <2>10, <2>15, ShareFits
    <3>3. Fits(floor + 1)
      BY <2>10, <2>12, <2>15, <3>1, <3>2
    <3>4. next = [tool |-> tool, amount |-> floor + 1, deadline |-> Ask.deadline]
      BY <2>10, <2>11, <3>1
    <3> QED BY <2>10, <3>3, <3>4, <2>21, FitsApproved
  <2>16. CASE amount = floor /\ tool = "OFFER_PARTIAL_PLAN" /\ floor = 0
    <3>1. Ask.amount = 1
      BY <2>9, <2>11, <2>16 DEF Larger, Smaller, None
    <3>2. Fits(1)
      <4> DEFINE base == IF policy.ceiling \in {None, 0} \/ case.total <= policy.ceiling
                         THEN case.total ELSE policy.ceiling
      <4>1. base \in Nat /\ base <= total
        BY <2>9 DEF None
      <4> HIDE DEF base
      <4>2. base * policy.minPct \in Nat /\ base * policy.minPct <= total * policy.minPct
        BY <2>9, <4>1, Products
      <4>3. (200 * policy.minPct - 1) * base = 200 * (base * policy.minPct) - base
        BY <2>9, <4>1
      <4>4. ~BelowPct(1, base, policy.minPct)
        BY <2>9, <2>10, <2>16, <4>1, <4>2, <4>3 DEF BelowPct
      <4> QED BY <2>9, <4>4 DEF Fits, base
    <3> QED BY <2>12, <3>1, <3>2
  <2>17. \/ amount = None
         \/ amount # None /\ amount = policy.ceiling /\ policy.ceiling < total
         \/ /\ amount = floor /\ tool = "OFFER_PARTIAL_PLAN" /\ floor > 0
            /\ (policy.ceiling # None => floor <= policy.ceiling)
         \/ amount = floor /\ tool = "OFFER_PARTIAL_PLAN" /\ floor = 0
    <3>1. CASE tool = "OFFER_PARTIAL_PLAN"
      BY <2>9, <2>10, <3>1 DEF JevAmount, None
    <3>2. CASE tool # "OFFER_PARTIAL_PLAN"
      BY <2>9, <3>2 DEF JevAmount, None
    <3> QED BY <3>1, <3>2
  <2> QED
    BY <2>13, <2>14, <2>15, <2>16, <2>17
<1> QED
  BY <1>1, AlwaysTurn, PTL
=============================================================================
