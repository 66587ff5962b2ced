----------------------------- MODULE AgentTools -----------------------------
(***************************************************************************)
(* The closed set of tools of the agent, how a proposal is put together    *)
(* from the decision model's choice, a language model's or the class       *)
(* default, and the gates it passes (operations/agent_tools.py).           *)
(***************************************************************************)
EXTENDS ReplyReading

WhatsappNudgeCap == 3

Tools == {"SEND_WHATSAPP", "VOICE_CALL", "GENERATE_PAYMENT_LINK", "GENERATE_QR_CODE",
          "OFFER_PARTIAL_PLAN", "OFFER_FEE_WAIVER", "SCHEDULE_RETRY",
          "HANDOFF_TO_HUMAN", "STOP"}
Dispositive  == {"HANDOFF_TO_HUMAN", "STOP"}
PaymentTools == {"GENERATE_PAYMENT_LINK", "GENERATE_QR_CODE", "OFFER_PARTIAL_PLAN"}

NoAction == "NONE"
ToolAction == [t \in Tools |-> CASE t \in Dispositive      -> NoAction
                                 [] t = "SCHEDULE_RETRY"   -> "RETRY_CHARGE"
                                 [] OTHER                  -> t]
ToolChannel == [t \in Tools |-> CASE t \in Dispositive \cup {"SCHEDULE_RETRY"} -> NoChannel
                                  [] t \in PaymentTools  -> "PAYMENT_LINK"
                                  [] t = "VOICE_CALL"    -> "VOICE"
                                  [] OTHER               -> "WHATSAPP"]
ToolForPlaybook(pb) ==
  CHOOSE t \in Tools : ToolAction[t] = PlaybookAction[pb] /\ ToolChannel[t] = PlaybookChannel[pb]
ClassDefault(class) == ToolForPlaybook(DefaultPlaybook[class])

CaseType(amounts) ==
  [class : FailureClasses, total : amounts, retries : Nat, voice : Nat, nudges : Nat]

\* The tools the decision model may choose from.
OfferedTools(policy) ==
  {t \in Tools : /\ ToolAction[t] # NoAction => ToolAction[t] \in policy.actions
                 /\ ToolChannel[t] # NoChannel => ToolChannel[t] \in policy.channels}
-----------------------------------------------------------------------------
Smaller(x, y) == IF x < y THEN x ELSE y
Larger(x, y)  == IF x > y THEN x ELSE y

\* round() to the nearest minor unit, halves to the even one.
RoundedShare(total, pct) ==
  LET q == (total * pct) \div 100
      rest == (total * pct) % 100
  IN IF rest > 50 \/ (rest = 50 /\ q % 2 = 1) THEN q + 1 ELSE q

\* The amount the decision model's payload asks for: the customer's offer, the
\* policy's minimum for a plan, and never more than one intervention may move.
\* Mutant of JevAmount: the ceiling is not looked at.
JevAmountUncapped(policy, total, tool, offer) ==
  IF offer # None THEN offer
  ELSE IF tool = "OFFER_PARTIAL_PLAN" THEN RoundedShare(total, policy.minPct) ELSE None
JevAmount(policy, total, tool, offer) ==
  LET asked == IF offer # None THEN offer
               ELSE IF tool = "OFFER_PARTIAL_PLAN" THEN RoundedShare(total, policy.minPct)
               ELSE None
      sum == IF asked \in {None, 0} THEN total ELSE asked
  IN IF tool \in PaymentTools /\ policy.ceiling # None /\ policy.partial
        /\ sum > policy.ceiling
     THEN policy.ceiling ELSE asked

\* Payloads: what a model proposed.  deadline is NoDate when it named none; no discount
\* is as good as one of 0.  The decision model's is the one decide_tool was called with.
JevPayload(policy, case, choice, sure, reading, discount) ==
  LET tool == IF sure THEN choice ELSE ClassDefault(case.class)
  IN [tool |-> tool,
      amount |-> JevAmount(policy, case.total, tool, reading.offer), discount |-> discount,
      deadline |-> IF reading.p2p \in {NoDate, 0} THEN NoDate ELSE reading.p2p]
NoPayload == [tool |-> "NONE", amount |-> None, discount |-> 0, deadline |-> NoDate]

\* After three nudges the next one is a call, if there may be one.
NudgeBecomesCall(policy, case) ==
  /\ case.nudges >= WhatsappNudgeCap /\ ~VoiceAttemptsExhausted(case.voice)
  /\ "VOICE" \in policy.channels /\ "VOICE_CALL" \in policy.actions

\* decide_tool after the models: an unknown tool becomes the class default, the
\* amount is put within 1 and the total, the deadline within 1 and 90 days.
Proposed(policy, case, payload) ==
  LET named == IF payload.tool \in Tools THEN payload.tool ELSE ClassDefault(case.class)
      tool  == IF named = "SEND_WHATSAPP" /\ NudgeBecomesCall(policy, case)
               THEN "VOICE_CALL" ELSE named
  IN [tool |-> tool,
      amount |-> IF tool \in PaymentTools /\ payload.amount # None
                 THEN Larger(1, Smaller(payload.amount, case.total)) ELSE None,
      deadline |-> IF payload.deadline = NoDate THEN NoDate
                   ELSE Larger(1, Smaller(payload.deadline, 90))]
-----------------------------------------------------------------------------
(* gate_tool.  An outcome is the tool as decided, whether it may go out,   *)
(* the state the gate commits ("NONE": it leaves the state), the rule that *)
(* fired and whether a ticket was queued.                                  *)
Amount(case, pr) == IF pr.amount = None THEN case.total ELSE pr.amount

ToolProposal(case, pr, discount) ==
  [action |-> ToolAction[pr.tool], channel |-> ToolChannel[pr.tool],
   discount |-> discount, amount |-> Amount(case, pr), total |-> case.total,
   partial |-> Amount(case, pr) < case.total \/ pr.tool = "OFFER_PARTIAL_PLAN"]

Outcome(tool, allowed, state, rule, ticket) ==
  [tool |-> tool, allowed |-> allowed, state |-> state, rule |-> rule, ticket |-> ticket]

GateTool(policy, case, pr, discount, quiet) ==
  LET action == ToolAction[pr.tool]
      channel == ToolChannel[pr.tool]
  IN CASE pr.tool = "HANDOFF_TO_HUMAN" -> Outcome(pr.tool, TRUE, "ESCALATED", "NONE", TRUE)
       [] pr.tool = "STOP" -> Outcome(pr.tool, TRUE, "CANCELLED", "NONE", FALSE)
       [] channel # NoChannel /\ quiet ->
            Outcome(pr.tool, FALSE, "WAITING", "TRAI_QUIET_HOURS", FALSE)
       [] action = "RETRY_CHARGE" /\ RetryCapExceeded(case.retries, RbiMaxRetries) ->
            Outcome(pr.tool, FALSE, "CANCELLED", "RBI_MAX_RETRIES", FALSE)
       [] channel = "VOICE" /\ ~quiet /\ VoiceAttemptsExhausted(case.voice) ->
            Outcome(pr.tool, FALSE, "CANCELLED", "VOICE_ATTEMPT_CAP", FALSE)
       [] OTHER ->
            CASE ~Approves(policy, ToolProposal(case, pr, discount)) ->
                   Outcome("HANDOFF_TO_HUMAN", FALSE, "ESCALATED", "NONE", TRUE)
              [] Approves(policy, ToolProposal(case, pr, discount)) ->
                   Outcome(pr.tool, TRUE,
                           IF pr.tool = "SCHEDULE_RETRY" THEN "WAITING" ELSE "NONE",
                           "NONE", FALSE)
=============================================================================
