------------------------------ MODULE MCRecovery ------------------------------
(***************************************************************************)
(* Values of the constants of RecoveryGraph for the model-checking runs.   *)
(***************************************************************************)
EXTENDS RecoveryGraph, TLC

Policy(allowed, chans) ==
  [actions |-> allowed, channels |-> chans, maxDiscount |-> 15, ceiling |-> 1000,
   partial |-> TRUE, minPct |-> 50]
OpenPolicy  == Policy(Actions, Channels)
NoVoice     == Policy(Actions \ {"VOICE_CALL"}, Channels)

JustOpen     == {OpenPolicy}
VoiceOnOff   == {OpenPolicy, NoVoice}

On(t, type, code) == [txn |-> t, type |-> type, code |-> code]

MandateMail  == [e \in Events |-> On("t1", "payment.failed", "INSUFFICIENT_FUNDS")]
\* A mandate failure, an invoice overdue on the same case, and a signal the
\* engine cannot classify.
MixedMail == [e \in Events |->
  CASE e = "e1" -> On("t1", "payment.failed", "INSUFFICIENT_FUNDS")
    [] e = "e2" -> On("t1", "invoice.overdue", "OTHER")
    [] OTHER    -> On("t1", "payment.captured", "OTHER")]

Rupees    == [t \in Txns |-> 500]
Unretried == [t \in Txns |-> 0]
\* The second case has spent its retries.
SomeRetried == [t \in Txns |-> IF t = "t2" THEN 3 ELSE 0]

OwnCase == [c \in Cases |-> IF c = "c1" THEN "t1" ELSE "t2"]
NoCase  == [c \in Cases |-> "t1"]
NoInputs == {}

Input(message, outcome, voice, playbook, hour, cls) ==
  [message |-> message, outcome |-> outcome, voice |-> voice, playbook |-> playbook,
   hour |-> hour, class |-> cls]
\* Planned cases: every reading of a message, every outcome, a pinned playbook
\* for every gate, both sides of quiet hours and of the voice cap.
PlannedCases ==
  {Input(m, "NONE", 0, "NONE", 12, 3) : m \in {"TERMINATE", "ESCALATE"}}
  \cup {Input("CONTINUE", out, 0, "MANDATE_REFRESH", h, 3) :
          out \in {"payment.captured", "payment.failed"}, h \in {12, 21}}
  \cup {Input("CONTINUE", "payment.authorized", v, "MANDATE_REFRESH", 8, 3) :
          v \in {1, 2}}
  \cup {Input("CONTINUE", "payment.authorized", v, "MANDATE_REFRESH", 9, 3) :
          v \in {1, 2}}
  \cup {Input("CONTINUE", "NONE", 0, "SALARY_CYCLE_SEQUENCER", 21, 3)}
  \cup {Input("CONTINUE", "payment.captured", 0, "NONE", 12, cls) : cls \in {1, 2, 4}}

VoiceAdvice  == {"MANDATE_REFRESH"}
FewAdvice    == {"MANDATE_REFRESH", "SALARY_CYCLE_SEQUENCER"}

RequestSymmetry == Permutations(Requests)
CallSymmetry    == Permutations(Calls)
=============================================================================
