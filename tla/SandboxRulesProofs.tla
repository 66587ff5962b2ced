-------------------------- MODULE SandboxRulesProofs --------------------------
(***************************************************************************)
(* The sandbox's verdicts for every policy and every proposal, whatever the*)
(* limits and the amounts are.                                             *)
(***************************************************************************)
EXTENDS SandboxRules, TLAPS

\* A share that is not below a limit is not below a smaller limit: the half
\* hundredth that rounding forgives does not spoil it.
LEMMA LowerFloor ==
  ASSUME NEW amount \in Nat, NEW base \in Nat,
         NEW low \in 0..100, NEW high \in 0..100, low <= high,
         ~BelowPct(amount, base, high)
  PROVE  ~BelowPct(amount, base, low)
<1> DEFINE a1 == 200 * low - 1
           b1 == 200 * high - 1
<1>1. /\ a1 \in Int /\ b1 \in Int /\ a1 <= b1
  OBVIOUS
<1>2. \A x, y \in Int, n \in Nat : x <= y => x * n <= y * n
  OBVIOUS
<1>3. a1 * base <= b1 * base
  <2> HIDE DEF a1, b1
  <2> QED BY <1>1, <1>2
<1>4. b1 * base <= 20000 * amount
  BY DEF BelowPct
<1>5. QED
  <2>1. 20000 * amount \in Int /\ a1 * base \in Int /\ b1 * base \in Int
    OBVIOUS
  <2>2. a1 * base <= 20000 * amount
    <3> HIDE DEF a1, b1
    <3> QED BY <1>3, <1>4, <2>1
  <2> QED BY <2>1, <2>2 DEF BelowPct

\* What a policy approves, every looser policy with the same ceiling approves.
LEMMA LoosenedApproves ==
  ASSUME NEW r \in PolicyType(Nat), NEW s \in PolicyType(Nat),
         NEW x \in ProposalType(Nat), NoStricter(r, s), Approves(s, x)
  PROVE  Approves(r, x)
<1>1. /\ x.action \in r.actions
      /\ x.channel # NoChannel => x.channel \in r.channels
  BY DEF NoStricter, Approves
<1>2. /\ x.discount \in Int /\ r.maxDiscount \in Int /\ s.maxDiscount \in Int
      /\ r.minPct \in 0..100 /\ s.minPct \in 0..100
      /\ s.ceiling \in Nat \cup {None} /\ r.ceiling = s.ceiling
      /\ x.amount \in Nat \cup {None} /\ x.total \in Nat \cup {None}
      /\ r.minPct <= s.minPct
  BY DEF PolicyType, ProposalType, NoStricter
<1>3. x.discount <= r.maxDiscount
  BY <1>2 DEF NoStricter, Approves
<1>4. CeilingAllows(r, x)
  BY <1>2 DEF Approves, CeilingAllows
<1>5. PartialAllowed(r, x)
  <2> SUFFICES ASSUME IsPartial(x) PROVE PartialAllowed(r, x)
    BY DEF PartialAllowed
  <2>1. r.partial
    BY DEF NoStricter, Approves, PartialAllowed, PolicyType
  <2>2. PartialBase(r, x) = PartialBase(s, x)
    BY <1>2 DEF PartialBase
  <2>3. ASSUME x.total # None, x.amount # None, x.total > 0
        PROVE  ~BelowPct(x.amount, PartialBase(r, x), r.minPct)
    <3>1. x.amount \in Nat /\ PartialBase(s, x) \in Nat
      BY <1>2, <2>3 DEF PartialBase, None
    <3>2. ~BelowPct(x.amount, PartialBase(s, x), s.minPct)
      BY <2>3 DEF Approves, PartialAllowed
    <3> QED
      BY <1>2, <2>2, <3>1, <3>2, LowerFloor
  <2> QED
    BY <2>1, <2>3 DEF PartialAllowed
<1> QED
  BY <1>1, <1>3, <1>4, <1>5 DEF Approves

\* A verdict is the sandbox's own, of a policy and a proposal that do not change.
VerdictInv ==
  /\ p \in SomePolicies /\ a \in Proposals
  /\ verdict = "approved" => Approves(p, a)

LEMMA VerdictStands == Spec => []VerdictInv
<1>1. Init => VerdictInv
  BY DEF Init, VerdictInv
<1>2. VerdictInv /\ [Validate]_<<p, a, verdict>> => VerdictInv'
  <2> SUFFICES ASSUME VerdictInv, [Validate]_<<p, a, verdict>> PROVE VerdictInv'
    OBVIOUS
  <2>1. CASE Validate
    BY <2>1 DEF VerdictInv, Validate, Approves, PartialAllowed, PartialBase,
                IsPartial, CeilingAllows, BelowPct
  <2>2. CASE UNCHANGED <<p, a, verdict>>
    BY <2>2 DEF VerdictInv, Approves, PartialAllowed, PartialBase, IsPartial,
                CeilingAllows, BelowPct
  <2> QED BY <2>1, <2>2
<1> QED
  BY <1>1, <1>2, PTL DEF Spec

\* Loosening a policy under an unchanged ceiling never refuses what the policy
\* approved (PolicySandbox.validate).
THEOREM Monotone == Spec => []LooseningIsMonotone
<1>1. VerdictInv => LooseningIsMonotone
  <2> SUFFICES ASSUME VerdictInv, verdict = "approved",
                      NEW q \in SomePolicies, NoStricter(q, p)
               PROVE  Approves(q, a)
    BY DEF LooseningIsMonotone
  <2>1. p \in PolicyType(Nat) /\ q \in PolicyType(Nat) /\ a \in ProposalType(Nat)
    BY RulesAssumption DEF VerdictInv
  <2> QED
    BY <2>1, LoosenedApproves DEF VerdictInv
<1> QED
  BY <1>1, VerdictStands, PTL
=============================================================================
