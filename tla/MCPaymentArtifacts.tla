-------------------------- MODULE MCPaymentArtifacts --------------------------
(***************************************************************************)
(* Values of the constants of PaymentArtifacts for the runs.               *)
(***************************************************************************)
EXTENDS PaymentArtifacts

Lenient == [actions |-> Actions, channels |-> Channels, maxDiscount |-> 0,
            ceiling |-> 2, partial |-> TRUE, minPct |-> 50]
\* No messages and larger part payments: refuses follow-ups and an upfront half.
Strict == [Lenient EXCEPT !.channels = {"PAYMENT_LINK"}, !.minPct = 60]

OnePolicy   == {Lenient}
TwoPolicies == {Lenient, Strict}

Offer(action, kind, amount) == [action |-> action, kind |-> kind, amount |-> amount]
\* A link for the whole amount or for a part of it.
WholeOrPart == {Offer("GENERATE_PAYMENT_LINK", "LINK", x) : x \in {1, 2}}
\* A QR code, an upfront part, and the whole amount as a plan payable in parts.
CodeOrPlan  == {Offer("GENERATE_QR_CODE", "QR", 2), Offer("OFFER_PARTIAL_PLAN", "LINK", 1),
                Offer("OFFER_PARTIAL_PLAN", "LINK", 2)}

RequestsOnly == {{"session", "desk"}}
OneDaemon    == {{"session", "sweeper"}, {"session", "poller"}}
=============================================================================
