---------------------------- MODULE WebhookInbox ----------------------------
(***************************************************************************)
(* What the webhook endpoint promises the gateway, without the handler, the*)
(* graph or the database: an inbox that takes events one at a time, each at*)
(* most once ever, and acts at most once on behalf of an event it has taken*)
(* and has not yet put down.  An event may be put down unacted: it was     *)
(* unclassifiable, deferred, stopped or escalated, or the process stopped. *)
(***************************************************************************)
CONSTANTS Events, NoEvent

VARIABLES
  stage,   \* Events -> how far the inbox has come with it
  inHand   \* the event being worked, or NoEvent

vars == <<stage, inHand>>

Stages == {"new", "taken", "acted", "closed"}

Init == stage = [e \in Events |-> "new"] /\ inHand = NoEvent

Take(e) ==
  /\ inHand = NoEvent /\ stage[e] = "new"
  /\ stage' = [stage EXCEPT ![e] = "taken"]
  /\ inHand' = e

Act(e) ==
  /\ inHand = e /\ stage[e] = "taken"
  /\ stage' = [stage EXCEPT ![e] = "acted"]
  /\ UNCHANGED inHand

PutDown(e) ==
  /\ inHand = e
  /\ stage' = [stage EXCEPT ![e] = IF @ = "taken" THEN "closed" ELSE @]
  /\ inHand' = NoEvent

Next == \E e \in Events : Take(e) \/ Act(e) \/ PutDown(e)

Safety == Init /\ [][Next]_vars

\* What is in hand is eventually put down: no event blocks the inbox for good.
Spec == Safety /\ \A e \in Events : WF_vars(PutDown(e))
=============================================================================
