----------------------------- MODULE SandboxRules -----------------------------
(***************************************************************************)
(* The sandbox's verdicts compared over a bounded choice of policies and   *)
(* proposals.                                                              *)
(***************************************************************************)
EXTENDS PolicySandbox

CONSTANTS SomePolicies, Proposals

ASSUME RulesAssumption ==
  SomePolicies \subseteq PolicyType(Nat) /\ Proposals \subseteq ProposalType(Nat)

VARIABLES p, a, verdict

Verdicts == {"none", "approved", "refused"}

Init == p \in SomePolicies /\ a \in Proposals /\ verdict = "none"

Validate ==
  /\ verdict = "none"
  /\ verdict' = IF Approves(p, a) THEN "approved" ELSE "refused"
  /\ UNCHANGED <<p, a>>

Spec == Init /\ [][Validate]_<<p, a, verdict>>
-----------------------------------------------------------------------------
\* r forbids nothing that s allows, under the same ceiling.
NoStricter(r, s) ==
  /\ s.actions \subseteq r.actions /\ s.channels \subseteq r.channels
  /\ s.maxDiscount <= r.maxDiscount /\ r.minPct <= s.minPct
  /\ s.partial => r.partial
  /\ r.ceiling = s.ceiling

\* Loosening a policy never refuses what it approved: an operator who allows more
\* cannot send more cases to the queue.  The ceiling is left out, because raising
\* it also raises the base that a partial offer is measured against.
LooseningIsMonotone ==
  verdict = "approved" => \A q \in SomePolicies : NoStricter(q, p) => Approves(q, a)
=============================================================================
