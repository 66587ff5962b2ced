---------------------------- MODULE ReplyReading ----------------------------
(***************************************************************************)
(* What one customer reply is taken to say (operations/                    *)
(* reply_understanding.py) from the answers of the decision model          *)
(* (operations/jev_client.py), or from the keyword screen alone            *)
(* (operations/compliance_rules.py), and which drafted answers may be sent *)
(* (operations/draft_guard.py, operations/message_drafter.py).             *)
(*                                                                         *)
(* A probability is one of the bands the gates cut: NO below 0.2, LOW      *)
(* below 0.35, UNSURE below 0.5, YES above.  A date is the number of days  *)
(* from today.                                                             *)
(***************************************************************************)
EXTENDS PolicySandbox, FiniteSets

Bands == 0..3
KeywordOverruleMax == 1   \* 0.2
ReviewFloor        == 2   \* 0.35
Gate               == 3   \* 0.5: STOP, MANIPULATION, ALREADY_PAID, HARDSHIP, COMMIT

StopQuestions      == {"wants_cancel", "wants_no_contact", "disputes_charge"}
SituationQuestions == {"claims_already_paid", "hardship"}
Judged == StopQuestions \cup SituationQuestions \cup {"manipulation"}

RuleOf == [q \in StopQuestions |->
             CASE q = "wants_cancel"     -> "EXPLICIT_CANCEL"
               [] q = "wants_no_contact" -> "OPT_OUT"
               [] q = "disputes_charge"  -> "DISPUTE_FREEZE"]
Continue == [disposition |-> "CONTINUE", rule |-> "NONE"]
Review   == [disposition |-> "ESCALATE", rule |-> "HUMAN_REVIEW"]
Stopped(rule) ==
  [disposition |-> IF rule = "DISPUTE_FREEZE" THEN "ESCALATE" ELSE "TERMINATE",
   rule |-> rule]

\* screen_user_message: which phrase lists the text hits; cancel wins over
\* opt-out, opt-out over dispute.
Precedence == <<"wants_cancel", "wants_no_contact", "disputes_charge">>
First(found) == Precedence[CHOOSE i \in 1..3 : /\ Precedence[i] \in found
                                               /\ \A j \in 1..(i - 1) : Precedence[j] \notin found]
ScreenUserMessage(phrases) ==
  IF phrases = {} THEN Continue ELSE Stopped(RuleOf[First(phrases)])

\* Mutant of Overruled: the check for manipulation has lost its negation.
OverruledManipulated(p, q) == p[q] < KeywordOverruleMax /\ p["manipulation"] >= Gate
\* A keyword hit is overruled only by a model that is sure, of a reply that does
\* not try to manipulate it.
Overruled(p, q) == p[q] < KeywordOverruleMax /\ p["manipulation"] < Gate

Verdict(p, phrases) ==
  LET yes   == {q \in StopQuestions : p[q] >= Gate}
      hit   == First(phrases)
      maybe == {q \in StopQuestions : p[q] >= ReviewFloor}
  IN CASE yes # {} -> Stopped(RuleOf[First(yes)])
       [] yes = {} /\ phrases # {} /\ ~Overruled(p, hit) ->
            IF p["manipulation"] >= Gate THEN ScreenUserMessage(phrases) ELSE Review
       [] yes = {} /\ (phrases = {} \/ Overruled(p, hit)) ->
            CASE maybe # {} -> Review
              [] maybe = {} /\ p["claims_already_paid"] >= Gate ->
                   [disposition |-> "ESCALATE", rule |-> "NO_DOUBLE_CHARGE"]
              [] maybe = {} /\ p["claims_already_paid"] < Gate /\ p["hardship"] >= Gate ->
                   Review
              [] OTHER -> Continue
-----------------------------------------------------------------------------
(* The day a customer promises to pay: today is the day-th of a month of   *)
(* len days, the next one has next days.                                   *)
Whens == {"today", "tomorrow", "day_after_tomorrow", "next_week", "month_end",
          "in_n_days", "day_of_month", "not_stated"}

\* A day the month does not have becomes the day 30 days after its first, put on a
\* first again: that of the next month, or of the same one when it has 31 days.
FirstAfter(len) == IF len = 31 THEN 0 ELSE len
\* Mutant of NthOfMonth: the day is taken in the month that has begun.
NthOfThisMonth(n, day, len, next) == n - day
NthOfMonth(n, day, len, next) ==
  CASE n >= day /\ n \in 1..len    -> n - day
    [] n >= day /\ n \notin 1..len -> FirstAfter(len) - day + 1
    [] n < day /\ n \in 1..next    -> len - day + n
    [] n < day /\ n \notin 1..next -> len - day + FirstAfter(next) + 1

\* What extract_p2p_date finds first in the words: it knows no "today" and no end of
\* the month.  A date is written with its month ("10/11"), whose first lies `first`
\* days from the first of this one, `year` more a year later; it has len days, none
\* for a month that does not exist.
TextWhens == {"tomorrow", "day_after_tomorrow", "next_week", "in_n_days", "day_of_month",
              "written", "nothing"}
TextType == [says : TextWhens, number : 0..99, dashed : BOOLEAN, first : -334..334,
             len : {0} \cup 28..31, year : 365..366]
FitsCalendar(text, len) ==
  text.says = "written" => /\ text.dashed
                           /\ text.first < 0 => text.first + text.len <= 0
                           /\ text.first = 0 => text.len \in {0, len}
                           /\ text.first > 0 => text.first >= len
NoDate == -1000

\* Mutant of MonthStart: the month is one of this calendar year.
MonthStartThisYear(text) == text.first
\* A month that is over is next year's; a day that is over of this month is not.
MonthStart(text) == IF text.first < 0 THEN text.first + text.year ELSE text.first
ExtractP2PDate(text, day, len, next) ==
  CASE text.says = "tomorrow"           -> 1
    [] text.says = "day_after_tomorrow" -> 2
    [] text.says = "next_week"          -> 7
    [] text.says = "in_n_days"          -> text.number
    [] text.says = "day_of_month"       -> NthOfMonth(text.number, day, len, next)
    [] text.says = "written" /\ text.number \in 1..text.len ->
         MonthStart(text) + text.number - day
    [] OTHER -> NoDate

\* number is None when the model picked none of the numbers in the text.  In a text
\* with a slash or a dash the parser, where it finds a date, has the last word on a day
\* of the month.
Explicit(r) == IF r.text.dashed THEN ExtractP2PDate(r.text, r.day, r.len, r.next) ELSE NoDate
ResolveDate(r, number) ==
  CASE r.when = "today"              -> 0
    [] r.when = "tomorrow"           -> 1
    [] r.when = "day_after_tomorrow" -> 2
    [] r.when = "next_week"          -> 7
    [] r.when = "month_end"          -> r.len - r.day
    [] r.when = "in_n_days" /\ number # None -> number
    [] r.when = "day_of_month" /\ Explicit(r) # NoDate -> Explicit(r)
    [] r.when = "day_of_month" /\ Explicit(r) = NoDate /\ number # None ->
         NthOfMonth(number, r.day, r.len, r.next)
    [] OTHER -> NoDate

\* A reply: the bands of the model's judgments, the phrase lists its text hits, the
\* commitment and the offer in it, the day the model says it names, and the dates in
\* its text.
ReplyType(amounts) ==
  {r \in [p : [Judged -> Bands], phrases : SUBSET StopQuestions, commits : BOOLEAN,
          offer : amounts \cup {None}, when : Whens, number : (0..99) \cup {None},
          text : TextType, day : 1..31, len : 28..31, next : 28..31] :
     r.day <= r.len /\ FitsCalendar(r.text, r.len)}

\* The keyword reading stands in when the model is off, unreachable or answers
\* in the wrong shape.  Its parser knows no offers, and a date is a promise.
KeywordReading(r) ==
  LET v == ScreenUserMessage(r.phrases)
      p2p == IF v = Continue THEN ExtractP2PDate(r.text, r.day, r.len, r.next) ELSE NoDate
  IN [verdict |-> v, byModel |-> FALSE, commits |-> p2p # NoDate, p2p |-> p2p, offer |-> None]

\* The numbers the model may pick from are days of a month.
Candidate(number) == IF number \in 1..31 THEN number ELSE None
ModelReading(r) ==
  LET v == Verdict(r.p, r.phrases)
  IN [verdict |-> v, byModel |-> TRUE, commits |-> r.commits,
      p2p |-> IF r.commits /\ v.disposition = "CONTINUE"
              THEN ResolveDate(r, Candidate(r.number)) ELSE NoDate,
      offer |-> IF r.commits THEN r.offer ELSE None]

ReadReply(r, answered) == IF answered THEN ModelReading(r) ELSE KeywordReading(r)
-----------------------------------------------------------------------------
(* The guard of drafted messages.  A draft is what it names: the amounts,  *)
(* the largest percentage off, the amount to pay now, and the model's      *)
(* answers about it.                                                       *)
DraftQuestions == {"coercive", "off_topic", "leaks_internal"}
Rupee == 100

\* Mutant of CheckDraft: any part payment the policy allows at all is agreed to.
CheckDraftTrusting(d, total, policy, answered) ==
  /\ \A x \in d.amounts : 2 * x <= 2 * total + Rupee
  /\ (answered /\ d.p["agrees_to_partial"] >= Gate) => policy.partial
CheckDraft(d, total, policy, answered) ==
  /\ \A x \in d.amounts : 2 * x <= 2 * total + Rupee
  /\ answered =>
       /\ \A q \in DraftQuestions : d.p[q] < Gate
       /\ d.p["promises_discount"] >= Gate =>
            policy.maxDiscount > 0 /\ d.percent <= policy.maxDiscount
       /\ d.p["agrees_to_partial"] >= Gate =>
            /\ policy.partial
            /\ (d.amounts # {} /\ d.upfront # None)
                 => 200 * d.upfront + 100 * Rupee >= 2 * total * policy.minPct

\* draft_message: a generated text that passes, else the fixed template.
DraftSent(d, total, policy, generated, answered) ==
  IF generated /\ CheckDraft(d, total, policy, answered) THEN "draft" ELSE "template"
=============================================================================
