---------------------------- MODULE MCTurnDecision ----------------------------
(***************************************************************************)
(* Situations around every threshold of a turn.                            *)
(***************************************************************************)
EXTENDS TurnDecision

Lenient == [actions |-> Actions, channels |-> Channels, maxDiscount |-> 15,
            ceiling |-> 600, partial |-> TRUE, minPct |-> 50]
Case1 == [class |-> 2, total |-> 1001, retries |-> 0, voice |-> 0, nudges |-> 0]

Words(says, n, dashed) ==
  [says |-> says, number |-> n, dashed |-> dashed, first |-> 0, len |-> 30, year |-> 365]
Written(n, first, len) ==
  [says |-> "written", number |-> n, dashed |-> TRUE, first |-> first, len |-> len, year |-> 366]

Said(p, phrases, commits, offer) ==
  [p |-> p, phrases |-> phrases, commits |-> commits, offer |-> offer,
   when |-> "not_stated", number |-> None, text |-> Words("nothing", 0, FALSE),
   day |-> 15, len |-> 30, next |-> 31]
Calm == [q \in Judged |-> 0]

\* Every reading of a reply: each stop in every band, the rest NO or YES.
Judgements == {f \in [Judged -> Bands] : \A q \in Judged \ StopQuestions : f[q] \in {0, 3}}
Readings ==
  [replies  |-> {Said(p, phrases, FALSE, None) : p \in Judgements,
                                                  phrases \in SUBSET StopQuestions},
   policies |-> {Lenient}, cases |-> {Case1}]

\* Every way to name a day, in months of every length; texts that name one too, with a
\* month of this year that is over, this one, one to come and none.
Months == {<<1, 30, 31>>, <<15, 30, 31>>, <<30, 30, 31>>, <<28, 28, 31>>,
           <<31, 31, 28>>, <<30, 31, 29>>, <<29, 31, 30>>}
Numbers == {0, 1, 15, 28, 29, 30, 31, 32}
Texts(len, next) ==
  {Words(says, 0, dashed) : says \in {"tomorrow", "next_week", "nothing"}, dashed \in BOOLEAN}
    \cup {Words(says, n, dashed) :
            says \in {"in_n_days", "day_of_month"}, n \in {0, 15, 31, 32}, dashed \in BOOLEAN}
    \cup {Written(n, m[1], m[2]) :
            n \in {1, 15, 29, 31}, m \in {<<-334, 31>>, <<-31, 31>>, <<0, len>>, <<len, next>>,
                                  <<334, 31>>, <<0, 0>>}}
Dated(d, w, n, text) ==
  [Said(Calm, {}, TRUE, None) EXCEPT !.when = w, !.number = n, !.text = text,
     !.day = d[1], !.len = d[2], !.next = d[3]]
Dates ==
  [replies |-> {Dated(d, w, n, Words("nothing", 0, FALSE)) :
                  d \in Months, w \in Whens, n \in {None} \cup Numbers}
                 \cup UNION {{Dated(d, "day_of_month", n, text) :
                               n \in {None, 15}, text \in Texts(d[2], d[3])} : d \in Months},
   policies |-> {Lenient}, cases |-> {Case1}]

\* Policies and cases around the ceiling, the minimum share, the caps.
Weighed ==
  [replies  |-> {Said(Calm, {}, TRUE, offer) : offer \in {None, 400}},
   policies |-> {[actions |-> Actions \ barred, channels |-> Channels, maxDiscount |-> 0,
                  ceiling |-> ceil, partial |-> part, minPct |-> pct] :
                   barred \in {{}, {"VOICE_CALL"}}, ceil \in {None, 0, 600},
                   part \in BOOLEAN, pct \in {50, 51}},
   cases    |-> [class : {1, 3}, total : {500, 1001}, retries : {0, 3}, voice : {1, 2},
                 nudges : {2, 3}]]

AllScenes == {Readings, Dates, Weighed}

Text(upfront, agrees) ==
  [amounts |-> IF upfront = None THEN {} ELSE {upfront}, percent |-> 0, upfront |-> upfront,
   p |-> [q \in DraftQuestions \cup {"promises_discount", "agrees_to_partial"} |->
            IF q = "agrees_to_partial" /\ agrees THEN 3 ELSE 0]]
SomeDrafts == {Text(None, FALSE), Text(300, TRUE), Text(460, TRUE)}

Says(tool, amount, discount, deadline) ==
  [tool |-> tool, amount |-> amount, discount |-> discount, deadline |-> deadline]
SomePayloads == {Says("SEND_WHATSAPP", None, 16, NoDate), Says("SELL_THE_DEBT", None, 0, NoDate),
                 Says("OFFER_PARTIAL_PLAN", 5000, 0, 400), Says("STOP", None, 0, NoDate)}
SomeDiscounts == {0, 15}
=============================================================================
