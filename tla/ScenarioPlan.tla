----------------------------- MODULE ScenarioPlan -----------------------------
(***************************************************************************)
(* The cases a what-if scenario expands into (simulation/scenario.py), and *)
(* the state the engine leaves each one in.  A scenario is                 *)
(*   custom  the cases an operator wrote, count the number generated,      *)
(*   mix     the weights of the four failure classes,                      *)
(*   replies the weights of ReplyKinds, late and cross the percentages that*)
(*           settle late or elsewhere,                                     *)
(*   retries, voice  the attempts every generated case has behind it,      *)
(*   amount  the ticket of its generated cases,                            *)
(*   hour    the hour it is worked at,                                     *)
(*   overrides  the policy fields it sets, live  whether models diagnose   *)
(***************************************************************************)
EXTENDS ModelRouter, Sequences, FiniteSetsExt, Functions

\* In the order the apportionment breaks ties by.
ReplyKinds == <<"cooperative", "dispute", "opt_out", "p2p", "silent">>
\* How the keyword screen reads the text each kind of reply stands for.
ReadOf(reply) ==
  CASE reply = "dispute" -> "ESCALATE"
    [] reply = "opt_out" -> "TERMINATE"
    [] reply = "p2p"     -> "CONTINUE"
    [] reply \in {"cooperative", "silent"} -> "NONE"

(***************************************************************************)
(* _weighted_cycle: count picks shared out by largest remainder, then dealt*)
(* round by round so that no key comes in a block.                         *)
(***************************************************************************)
Allocation(weights, count) ==
  LET total     == SumFunction(weights)
      share     == [i \in DOMAIN weights |-> (count * weights[i]) \div total]
      rest      == [i \in DOMAIN weights |-> (count * weights[i]) % total]
      left      == count - SumFunction(share)
      Before(i) == {j \in DOMAIN weights : rest[j] > rest[i] \/ (rest[j] = rest[i] /\ j > i)}
  IN [i \in DOMAIN weights |->
        IF Cardinality(Before(i)) < left THEN share[i] + 1 ELSE share[i]]

WeightedCycle(weights, count) ==
  LET alloc == Allocation(weights, count)
      deals == {d \in (1..count) \X (DOMAIN weights) : d[1] <= alloc[d[2]]}
      Earlier(d) == {e \in deals : e[1] < d[1] \/ (e[1] = d[1] /\ e[2] < d[2])}
  IN [n \in 1..count |-> (CHOOSE d \in deals : Cardinality(Earlier(d)) = n - 1)[2]]

\* A bound the scenario says is spent: the case cannot be drawn to settle.
Blocked(sc, playbook) ==
  \/ PlaybookChannel[playbook] = NoChannel /\ RetryCapExceeded(sc.retries, RbiMaxRetries)
  \/ PlaybookChannel[playbook] = "VOICE" /\ VoiceAttemptsExhausted(sc.voice)
Drawn(sc, draws, n, playbook) == n \in draws /\ ~Blocked(sc, playbook)

\* screen_user_message always names a disposition, so any message at all counts.
StopsEarly(message) == message # "NONE"

\* The authored case at index n - 1; UNSET leaves the outcome to the draw.
PlanCustom(sc, draws, n) ==
  LET c == sc.custom[n]
      playbook == IF c.playbook = "NONE" THEN DefaultPlaybook[c.class] ELSE c.playbook
  IN [class |-> c.class, message |-> c.message, retries |-> c.retries, voice |-> c.voice,
      amount |-> c.amount, playbook |-> c.playbook,
      outcome |-> CASE c.outcome # "UNSET" -> c.outcome
                    [] c.outcome = "UNSET" /\ ~StopsEarly(c.message)
                         /\ Drawn(sc, draws, n, playbook) -> "payment.captured"
                    [] OTHER -> "NONE"]

\* The generated case with generated_index n - 1.
PlanGenerated(sc, draws, n) ==
  LET cls     == WeightedCycle(sc.mix, sc.count)[n]
      message == ReadOf(ReplyKinds[WeightedCycle(sc.replies, sc.count)[n]])
      late    == 100 * (n - 1) < sc.count * sc.late
      cross   == 100 * (n - 1) < sc.count * (sc.late + sc.cross)
      draw    == Drawn(sc, draws, Len(sc.custom) + n, DefaultPlaybook[cls])
  IN [class |-> cls, message |-> message, retries |-> sc.retries, voice |-> sc.voice,
      amount |-> sc.amount, playbook |-> "NONE",
      outcome |-> CASE late                                        -> "payment.authorized"
                    [] ~late /\ cross                              -> "payment.captured"
                    [] ~cross /\ ~StopsEarly(message) /\ draw      -> "payment.captured"
                    [] OTHER                                       -> "NONE"]

Size(sc) == Len(sc.custom) + sc.count
\* draws: the cases whose draw falls below their estimate.
Plan(sc, draws) ==
  [n \in 1..Size(sc) |-> IF n <= Len(sc.custom) THEN PlanCustom(sc, draws, n)
                         ELSE PlanGenerated(sc, draws, n - Len(sc.custom))]

\* PolicyOverrides.applied_to: what is set is laid over a copy of the merchant's row.
AppliedTo(sc, policy) ==
  [f \in DOMAIN policy |-> IF f \in DOMAIN sc.overrides THEN sc.overrides[f] ELSE policy[f]]

\* Where the recovery graph leaves a case (RecoveryGraph models it node by node):
\* screened, deferred, stopped by a cap, refused by the sandbox, settled or open.
EngineEnd(case, policy, hour, playbook) ==
  LET act  == PlaybookAction[playbook]
      chan == PlaybookChannel[playbook]
  IN CASE case.message = "TERMINATE" -> "CANCELLED"
       [] case.message = "ESCALATE"  -> "ESCALATED"
       [] OTHER ->
          CASE chan # NoChannel /\ IsWithinQuietHours(hour) -> "WAITING"
            [] ~(chan # NoChannel /\ IsWithinQuietHours(hour))
                 /\ (\/ act = "RETRY_CHARGE" /\ RetryCapExceeded(case.retries, RbiMaxRetries)
                     \/ chan = "VOICE" /\ VoiceAttemptsExhausted(case.voice)) -> "CANCELLED"
            [] OTHER ->
               CASE ~Approves(policy, WholeAmount(act, chan, 0, case.amount)) -> "ESCALATED"
                 [] Approves(policy, WholeAmount(act, chan, 0, case.amount)) ->
                    IF case.outcome \in SettlementEvents THEN "RECOVERED" ELSE "INTERVENING"
=============================================================================
