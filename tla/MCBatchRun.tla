------------------------------ MODULE MCBatchRun ------------------------------
(***************************************************************************)
(* Values of the constants of BatchRun for the model-checking run.         *)
(***************************************************************************)
EXTENDS BatchRun

OpenPolicy == [actions |-> Actions, channels |-> Channels, maxDiscount |-> 15,
               ceiling |-> 10, partial |-> TRUE, minPct |-> 50]
CappedPolicy == [OpenPolicy EXCEPT !.ceiling = 1]
OneEdit == {CappedPolicy}

TwoCases == [r \in Runs |-> IF r = "a" THEN <<"a1", "a2">> ELSE <<"b1">>]

Written == [class |-> 4, message |-> "CONTINUE", retries |-> 0, voice |-> 0, amount |-> 1,
            outcome |-> "payment.captured", playbook |-> "NONE"]
Generated == [custom |-> <<>>, count |-> 2, mix |-> <<2, 0, 1, 3>>, replies |-> <<3, 0, 1, 1, 0>>,
              late |-> 50, cross |-> 0, retries |-> 2, voice |-> 0, amount |-> 2, hour |-> 12,
              overrides |-> [maxDiscount |-> 5], live |-> FALSE]
\* A generated book half of which settles late; an authored case that models
\* diagnose.
MCScenarios == [r \in Runs |->
  IF r = "a" THEN {Generated}
  ELSE {[Generated EXCEPT !.count = 0, !.custom = <<Written>>, !.live = TRUE]}]
MCDraws == {{1, 2}}

Say(a, b, c, d) == [x \in (1..2) \X (1..2) |->
  CASE x = <<1, 1>> -> a [] x = <<1, 2>> -> b [] x = <<2, 1>> -> c [] OTHER -> d]
SomeWeather == {Say("down", "garbled", "down", "unsure")}
=============================================================================
