----------------------------- MODULE Compliance -----------------------------
(***************************************************************************)
(* The closed vocabularies of the recovery engine and the deterministic    *)
(* rules every decision is measured against: what a playbook does, when    *)
(* contact is forbidden, and the regulatory caps (application/constants.py,*)
(* operations/compliance_rules.py, operations/playbook_map.py,             *)
(* operations/failure_classifier.py).                                      *)
(***************************************************************************)
EXTENDS Integers

FailureClasses == 1..4

LifecycleStates == {"PENDING", "DIAGNOSING", "WAITING", "INTERVENING",
                    "RECOVERED", "ESCALATED", "CANCELLED", "FAILED"}

Actions == {"SEND_WHATSAPP", "VOICE_CALL", "OFFER_FEE_WAIVER",
            "GENERATE_PAYMENT_LINK", "GENERATE_QR_CODE", "OFFER_PARTIAL_PLAN",
            "RETRY_CHARGE", "CANCEL_SUBSCRIPTION"}

Channels == {"WHATSAPP", "VOICE", "PAYMENT_LINK"}

\* The channel of an action that reaches nobody (an auto-debit retry).
NoChannel == "NONE"

Playbooks == {"REROUTE_RAIL", "PREAUTH_LINK", "UPI_AUTOPAY_NUDGE", "NEGOTIATION",
              "SALARY_CYCLE_SEQUENCER", "MANDATE_REFRESH", "P2P_TRACKER"}

PlaybookAction ==
  [p \in Playbooks |->
     CASE p \in {"REROUTE_RAIL", "PREAUTH_LINK"}     -> "GENERATE_PAYMENT_LINK"
       [] p \in {"UPI_AUTOPAY_NUDGE", "P2P_TRACKER"} -> "SEND_WHATSAPP"
       [] p = "NEGOTIATION"                          -> "OFFER_FEE_WAIVER"
       [] p = "SALARY_CYCLE_SEQUENCER"               -> "RETRY_CHARGE"
       [] p = "MANDATE_REFRESH"                      -> "VOICE_CALL"]

PlaybookChannel ==
  [p \in Playbooks |->
     CASE p \in {"REROUTE_RAIL", "PREAUTH_LINK"} -> "PAYMENT_LINK"
       [] p \in {"UPI_AUTOPAY_NUDGE", "P2P_TRACKER", "NEGOTIATION"} -> "WHATSAPP"
       [] p = "SALARY_CYCLE_SEQUENCER" -> NoChannel
       [] p = "MANDATE_REFRESH"        -> "VOICE"]

DefaultPlaybook == <<"REROUTE_RAIL", "UPI_AUTOPAY_NUDGE",
                     "SALARY_CYCLE_SEQUENCER", "P2P_TRACKER">>

(***************************************************************************)
(* Classification of a gateway signal.  Unmapped stands for the            *)
(* UnclassifiableSignal exception; a code outside the table, or none, is   *)
(* "OTHER".                                                                *)
(***************************************************************************)
Unmapped == 0

RealtimeCodes    == {"BAD_REQUEST_GATEWAY_TIMEOUT", "GATEWAY_TIMEOUT",
                     "ISSUER_DOWN", "NETWORK_FAILURE"}
AbandonmentCodes == {"AUTH_3DS_DROPPED", "CUSTOMER_AUTH_TIMEOUT",
                     "SESSION_EXPIRED", "CUSTOMER_DROPPED_OFF"}
MandateCodes     == {"INSUFFICIENT_FUNDS", "MANDATE_PAUSED", "TOKEN_EXPIRED",
                     "MANDATE_REJECTED"}
ErrorCodes == RealtimeCodes \cup AbandonmentCodes \cup MandateCodes \cup {"OTHER"}
EventTypes == {"payment.failed", "payment.captured", "invoice.overdue"}

Classify(type, code) ==
  IF type = "invoice.overdue" THEN 4
  ELSE CASE code \in RealtimeCodes    -> 1
         [] code \in AbandonmentCodes -> 2
         [] code \in MandateCodes     -> 3
         [] OTHER                     -> Unmapped

(***************************************************************************)
(* Caps and clocks.                                                        *)
(***************************************************************************)
RbiMaxRetries   == 3
VoiceAttemptCap == 2
HoursOfDay      == 0..23

RetryCapExceeded(retries, max)    == retries >= max
VoiceAttemptsExhausted(attempts)  == attempts >= VoiceAttemptCap
IsWithinQuietHours(hour)          == hour >= 20 \/ hour < 9

\* next_salary_window: the months from today to the month whose 1st is the
\* retry date.  0 is this month (its 1st has come), 1 the next month's.
\* Mutant of SalaryMonthsAhead: days where months are meant.
SalaryDaysAhead(dayOfMonth) == dayOfMonth
SalaryMonthsAhead(dayOfMonth) == IF dayOfMonth <= 5 THEN 0 ELSE 1

SettlementEvents == {"payment.captured", "payment.authorized"}
=============================================================================
