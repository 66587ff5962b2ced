----------------------------- MODULE CaseAccount -----------------------------
(***************************************************************************)
(* What the payment subsystem promises about one case, whoever polls and   *)
(* whatever is minted: the case is closed as recovered only after one of   *)
(* its links has been paid in full.  A closed case may be reopened.        *)
(***************************************************************************)
VARIABLES settled,  \* some link of the case has been paid in full
          open      \* the case is not RECOVERED

Init == settled = FALSE /\ open = TRUE

Settle == ~settled /\ settled' /\ open' = open
Close  == settled /\ open /\ ~open' /\ settled' = settled
Reopen == ~open /\ open' /\ settled' = settled

Next == Settle \/ Close \/ Reopen
Spec == Init /\ [][Next]_<<settled, open>>
=============================================================================
