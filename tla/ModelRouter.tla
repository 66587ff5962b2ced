----------------------------- MODULE ModelRouter -----------------------------
(***************************************************************************)
(* The fallback of a model call from one provider to the next and the one  *)
(* retry (operations/model_router.py), the diagnosis                       *)
(* (operations/diagnosis_service.py), and the lanes simulated cases end in *)
(* (simulation/triage.py).                                                 *)
(*                                                                         *)
(* The providers' answers of one call are a function of the attempt (1, 2) *)
(* and of the place of the provider in the order (1, 2): "down" for any    *)
(* exception, "garbled" for an empty, refusing or malformed answer,        *)
(* "unsure" for a well-formed one of low confidence, "good".               *)
(***************************************************************************)
EXTENDS PolicySandbox

Answers == {"down", "garbled", "unsure", "good"}
Weather == [(1..2) \X (1..2) -> Answers]

\* The provider that answers an attempt, in the order they are tried; 0 for none.
Responder(w, n) ==
  CASE w[n, 1] # "down"                    -> 1
    [] w[n, 1] = "down" /\ w[n, 2] # "down" -> 2
    [] OTHER                               -> 0
Accepted(answer) == answer = "good"
SecondAttempt(w) == Responder(w, 1) # 0 /\ ~Accepted(w[1, Responder(w, 1)])

\* The answer of a call: the first good one, or whatever the second attempt
\* brings; "down" when ProviderUnavailable is raised.
Answer(w) ==
  LET n == IF SecondAttempt(w) THEN 2 ELSE 1
  IN IF Responder(w, n) = 0 THEN "down" ELSE w[n, Responder(w, n)]

(***************************************************************************)
(* DiagnosisEngine.diagnose.  Jev is unavailable, unsure or sure of a      *)
(* playbook; only when it is unavailable is the language model asked, and  *)
(* an answer of low confidence is taken if it can be parsed.  advice is the*)
(* playbook the model that answers names, "NONE" for one outside the set.  *)
(***************************************************************************)
JevAnswers == {"unavailable", "unsure", "sure"}

ModelNamed(jev, w) == jev = "sure" \/ (jev = "unavailable" /\ Answer(w) \in {"unsure", "good"})
Diagnosed(cls, jev, w, advice) ==
  IF ModelNamed(jev, w) /\ advice # "NONE" THEN advice ELSE DefaultPlaybook[cls]
-----------------------------------------------------------------------------
(* Triage: where a simulated case ended.                                    *)

Lanes == {"closed", "human", "postponed", "in_flight"}
\* disposition.
Lane(state) ==
  CASE state = "ESCALATED" -> "human"
    [] state = "WAITING"   -> "postponed"
    [] state \in {"RECOVERED", "CANCELLED", "FAILED"} -> "closed"
    [] OTHER -> "in_flight"
=============================================================================
