---------------------------- MODULE PolicySandbox ----------------------------
(***************************************************************************)
(* PolicySandbox.validate (operations/policy_guard.py): the model-free gate*)
(* an outbound action passes.  A policy is the merchant's row; a proposal  *)
(* is what the engine is about to do.  An absent optional is None.         *)
(***************************************************************************)
EXTENDS Compliance

None == -1

PolicyType(amounts) ==
  [actions : SUBSET Actions, channels : SUBSET Channels, maxDiscount : 0..100,
   ceiling : amounts \cup {None}, partial : BOOLEAN, minPct : 0..100]

ProposalType(amounts) ==
  [action : Actions, channel : Channels \cup {NoChannel}, discount : 0..100,
   amount : amounts \cup {None}, total : amounts \cup {None}, partial : BOOLEAN]

MoneyMoving == {"GENERATE_PAYMENT_LINK", "GENERATE_QR_CODE", "OFFER_PARTIAL_PLAN",
                "RETRY_CHARGE", "OFFER_FEE_WAIVER"}

IsPartial(a) ==
  \/ a.partial
  \/ a.action = "OFFER_PARTIAL_PLAN"
  \/ a.total # None /\ a.amount # None /\ a.amount < a.total

\* The amount a partial offer is measured against: the smaller of the total
\* and the ceiling, a zero or absent ceiling not counting.
PartialBase(p, a) ==
  IF p.ceiling \in {None, 0} \/ a.total <= p.ceiling THEN a.total ELSE p.ceiling

\* round(100 * amount / base, 2) < minPct, over the integers: the rounding
\* lifts a percentage that is less than half a hundredth short.  (At exactly
\* half, the code's binary floating point may go either way.)
BelowPct(amount, base, minPct) == 20000 * amount < (200 * minPct - 1) * base

PartialAllowed(p, a) ==
  IsPartial(a) =>
    /\ p.partial
    /\ (a.total # None /\ a.amount # None /\ a.total > 0)
         => ~BelowPct(a.amount, PartialBase(p, a), p.minPct)

CeilingAllows(p, a) ==
  (a.action \in MoneyMoving /\ p.ceiling # None /\ a.amount # None)
    => a.amount <= p.ceiling

\* Mutant of Approves: a discount is read as an amount the merchant must offer.
ApprovesDiscountAbove(p, a) ==
  /\ a.action \in p.actions
  /\ a.channel # NoChannel => a.channel \in p.channels
  /\ PartialAllowed(p, a)
  /\ a.discount >= p.maxDiscount
  /\ CeilingAllows(p, a)

Approves(p, a) ==
  /\ a.action \in p.actions
  /\ a.channel # NoChannel => a.channel \in p.channels
  /\ PartialAllowed(p, a)
  /\ a.discount <= p.maxDiscount
  /\ CeilingAllows(p, a)

\* The proposal for a whole amount that the graph and call/start build.
WholeAmount(act, chan, disc, amt) ==
  [action |-> act, channel |-> chan, discount |-> disc, amount |-> amt,
   total |-> None, partial |-> FALSE]

\* Startup unions two actions into the stored allowlist.
BackfillActions == {"GENERATE_QR_CODE", "OFFER_PARTIAL_PLAN"}
\* Mutant of Backfilled: the list is replaced, not extended.
BackfillOverwrites(p) == [p EXCEPT !.actions = BackfillActions]
Backfilled(p) == [p EXCEPT !.actions = @ \cup BackfillActions]

\* A database session writes a column only when the value assigned differs from
\* the value it loaded; otherwise whatever is stored stays.
Flush(loaded, new, stored) == IF loaded = new THEN stored ELSE new
=============================================================================
