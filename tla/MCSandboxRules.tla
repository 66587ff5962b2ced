---------------------------- MODULE MCSandboxRules ----------------------------
(***************************************************************************)
(* Policies and proposals around every limit of the sandbox.               *)
(***************************************************************************)
EXTENDS SandboxRules

ManyPolicies ==
  [actions : {Actions, {"SEND_WHATSAPP", "RETRY_CHARGE"}},
   channels : {Channels, {"WHATSAPP"}}, maxDiscount : {0, 15},
   ceiling : {None, 0, 60}, partial : BOOLEAN, minPct : {50, 51}]

ManyProposals ==
  [action : {"OFFER_PARTIAL_PLAN", "SEND_WHATSAPP", "RETRY_CHARGE"},
   channel : {"WHATSAPP", NoChannel}, discount : {0, 16}, amount : {None, 0, 30, 50, 100},
   total : {None, 0, 100}, partial : {FALSE}]
  \cup [action : {"GENERATE_PAYMENT_LINK"}, channel : {"PAYMENT_LINK"}, discount : {15},
        amount : {29, 30, 31, 49, 505},
        total : {None, 60, 100, 1000}, partial : BOOLEAN]
=============================================================================
