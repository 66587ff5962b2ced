-------------------------- MODULE LiveSessionProofs --------------------------
(***************************************************************************)
(* What holds of a live session however many requests overlap, whatever    *)
(* tools the models pick, and wherever the process dies.                   *)
(***************************************************************************)
EXTENDS LiveSession, FiniteSetTheorems, TLAPS

USE DEF rows, object, At, Goto

-----------------------------------------------------------------------------
(* The outcomes of the gate.                                               *)

LEMMA ClassDefaultType ==
  ASSUME NEW class \in FailureClasses
  PROVE  ClassDefault(class) \in Tools
<1>1. \A pb \in Playbooks : pb = DefaultPlaybook[class] =>
        \E t \in Tools : ToolAction[t] = PlaybookAction[pb] /\ ToolChannel[t] = PlaybookChannel[pb]
  <2>1. CASE class = 1
    <3>1. /\ ToolAction["GENERATE_PAYMENT_LINK"] = PlaybookAction["REROUTE_RAIL"]
          /\ ToolChannel["GENERATE_PAYMENT_LINK"] = PlaybookChannel["REROUTE_RAIL"]
      BY DEF ToolAction, ToolChannel, PlaybookAction, PlaybookChannel, Tools, Playbooks,
             Dispositive, PaymentTools, NoAction, NoChannel
    <3> QED
      BY <2>1, <3>1 DEF DefaultPlaybook, Tools
  <2>2. CASE class = 2
    <3>1. /\ ToolAction["SEND_WHATSAPP"] = PlaybookAction["UPI_AUTOPAY_NUDGE"]
          /\ ToolChannel["SEND_WHATSAPP"] = PlaybookChannel["UPI_AUTOPAY_NUDGE"]
      BY DEF ToolAction, ToolChannel, PlaybookAction, PlaybookChannel, Tools, Playbooks,
             Dispositive, PaymentTools, NoAction, NoChannel
    <3> QED
      BY <2>2, <3>1 DEF DefaultPlaybook, Tools
  <2>3. CASE class = 3
    <3>1. /\ ToolAction["SCHEDULE_RETRY"] = PlaybookAction["SALARY_CYCLE_SEQUENCER"]
          /\ ToolChannel["SCHEDULE_RETRY"] = PlaybookChannel["SALARY_CYCLE_SEQUENCER"]
      BY DEF ToolAction, ToolChannel, PlaybookAction, PlaybookChannel, Tools, Playbooks,
             Dispositive, PaymentTools, NoAction, NoChannel
    <3> QED
      BY <2>3, <3>1 DEF DefaultPlaybook, Tools
  <2>4. CASE class = 4
    <3>1. /\ ToolAction["SEND_WHATSAPP"] = PlaybookAction["P2P_TRACKER"]
          /\ ToolChannel["SEND_WHATSAPP"] = PlaybookChannel["P2P_TRACKER"]
      BY DEF ToolAction, ToolChannel, PlaybookAction, PlaybookChannel, Tools, Playbooks,
             Dispositive, PaymentTools, NoAction, NoChannel
    <3> QED
      BY <2>4, <3>1 DEF DefaultPlaybook, Tools
  <2> QED
    BY <2>1, <2>2, <2>3, <2>4 DEF FailureClasses
<1>2. DefaultPlaybook[class] \in Playbooks
  BY DEF DefaultPlaybook, Playbooks, FailureClasses
<1> QED
  BY <1>1, <1>2 DEF ClassDefault, ToolForPlaybook

\* No arm of the gate overlaps another.
LEMMA ToolTable ==
  ASSUME NEW t \in Tools
  PROVE  /\ t \in {"HANDOFF_TO_HUMAN", "STOP"} =>
              ToolChannel[t] = NoChannel /\ ToolAction[t] # "RETRY_CHARGE"
         /\ ToolAction[t] = "RETRY_CHARGE" => ToolChannel[t] = NoChannel
         /\ t \notin {"HANDOFF_TO_HUMAN", "STOP", "SCHEDULE_RETRY"} => ToolChannel[t] \in Channels
         /\ NoChannel \notin Channels
         /\ NoChannel # "VOICE"
  BY DEF Tools, ToolChannel, ToolAction, NoChannel, NoAction, Dispositive, PaymentTools, Channels

\* The gate hands a case to a person only with a ticket.
LEMMA GateType ==
  ASSUME NEW policy, NEW case, NEW pr, pr.tool \in Tools, NEW quiet \in BOOLEAN
  PROVE  LET o == GateTool(policy, case, pr, 0, quiet)
         IN /\ o \in Outcomes /\ o.tool \in Tools /\ (o.state = "ESCALATED" <=> o.ticket)
            /\ o.state = "NONE" => o.allowed /\ ToolChannel[o.tool] \in Channels
<1> DEFINE o == GateTool(policy, case, pr, 0, quiet)
<1> SUFFICES /\ o \in Outcomes /\ o.tool \in Tools
             /\ o.state = "ESCALATED" <=> o.ticket
             /\ o.state = "NONE" => o.allowed /\ ToolChannel[o.tool] \in Channels
  OBVIOUS
<1>1. "HANDOFF_TO_HUMAN" \in Tools
  BY DEF Tools
<1>2. \/ o = Outcome(pr.tool, TRUE, "ESCALATED", "NONE", TRUE)
      \/ o = Outcome(pr.tool, TRUE, "CANCELLED", "NONE", FALSE)
      \/ o = Outcome(pr.tool, FALSE, "WAITING", "TRAI_QUIET_HOURS", FALSE)
      \/ o = Outcome(pr.tool, FALSE, "CANCELLED", "RBI_MAX_RETRIES", FALSE)
      \/ o = Outcome(pr.tool, FALSE, "CANCELLED", "VOICE_ATTEMPT_CAP", FALSE)
      \/ o = Outcome("HANDOFF_TO_HUMAN", FALSE, "ESCALATED", "NONE", TRUE)
      \/ o = Outcome(pr.tool, TRUE, "WAITING", "NONE", FALSE)
      \/ o = Outcome(pr.tool, TRUE, "NONE", "NONE", FALSE) /\ ToolChannel[pr.tool] \in Channels
  BY ToolTable DEF GateTool
<1> HIDE DEF o
<1>3. /\ o.state = "ESCALATED" <=> o.ticket
      /\ o.state = "NONE" => o.allowed /\ ToolChannel[o.tool] \in Channels
  BY <1>2 DEF Outcome
<1>4. o.tool \in Tools
  BY <1>1, <1>2 DEF Outcome
<1>5. o \in Outcomes
  <2>1. \A x \in Tools : /\ Outcome(x, TRUE, "ESCALATED", "NONE", TRUE) \in Outcomes
                        /\ Outcome(x, TRUE, "CANCELLED", "NONE", FALSE) \in Outcomes
                        /\ Outcome(x, FALSE, "WAITING", "TRAI_QUIET_HOURS", FALSE) \in Outcomes
    BY DEF Outcome, Outcomes
  <2>2. \A x \in Tools : /\ Outcome(x, FALSE, "CANCELLED", "RBI_MAX_RETRIES", FALSE) \in Outcomes
                        /\ Outcome(x, FALSE, "CANCELLED", "VOICE_ATTEMPT_CAP", FALSE) \in Outcomes
                        /\ Outcome(x, FALSE, "ESCALATED", "NONE", TRUE) \in Outcomes
    BY DEF Outcome, Outcomes
  <2>3. \A x \in Tools : /\ Outcome(x, TRUE, "WAITING", "NONE", FALSE) \in Outcomes
                        /\ Outcome(x, TRUE, "NONE", "NONE", FALSE) \in Outcomes
    BY DEF Outcome, Outcomes
  <2> QED
    BY <1>1, <1>2, <2>1, <2>2, <2>3
<1> QED
  BY <1>3, <1>4, <1>5
\* What a process may decide.
LEMMA RuledType ==
  ASSUME TypeOK, NEW p \in Requests, NEW o \in Ruled(p)
  PROVE  /\ o \in Outcomes /\ o.tool \in Tools /\ (o.state = "ESCALATED" <=> o.ticket)
         /\ o.state = "NONE" => o.allowed /\ ToolChannel[o.tool] \in Channels
<1>1. /\ Choices \in [Jobs -> SUBSET Tools] /\ JobOf \in [Requests -> Jobs] /\ p # "poller"
      /\ Hush \subseteq BOOLEAN /\ Case.class \in FailureClasses
  BY LiveAssumption DEF CaseType
<1>2. PICK t, quiet :
        /\ t \in (IF p \in opening THEN {ClassDefault(Case.class)} ELSE Choices[Job(p)])
        /\ quiet \in Hush
        /\ o = GateTool(Policy, CaseSeen(p),
                        IF Job(p) = "tool" THEN Payload(t)
                        ELSE Proposed(Policy, CaseSeen(p), Payload(t)), 0, quiet)
  BY DEF Ruled
<1> DEFINE pr == IF Job(p) = "tool" THEN Payload(t) ELSE Proposed(Policy, CaseSeen(p), Payload(t))
<1>3. t \in Tools
  BY <1>1, <1>2, ClassDefaultType DEF Job
<1>4. Payload(t).tool = t
  BY DEF Payload
<1>5. Proposed(Policy, CaseSeen(p), Payload(t)).tool \in Tools
  BY <1>3, <1>4 DEF Proposed, Tools
<1>6. pr.tool \in Tools
  BY <1>3, <1>4, <1>5
<1> HIDE DEF pr
<1> QED
  BY <1>1, <1>2, <1>6, GateType DEF pr
-----------------------------------------------------------------------------
(* Types.  The poller's steps are few, and what it says ends in a look at  *)
(* the case.                                                               *)

PollerSteps ==
  /\ pc["poller"] \in {"new", "announce", "announced", "say", "saving", "finish", "complete", "signal"}
  /\ pc["poller"] \in {"say", "saving"} => me["poller"].back = "announced"

TypeInv == TypeOK /\ PollerSteps

\* What every step of a process keeps.
Moved(p) ==
  /\ pc' \in [Procs -> Labels] /\ me' \in [Procs -> LocalType] /\ opening' \subseteq Requests
  /\ \A q \in Procs \ {p} : pc'[q] = pc[q] /\ me'[q] = me[q]
  /\ pc'[p] = "saving" => me'[p].seq \in Nat
  /\ p = "poller" => PollerSteps'

LEMMA FreshType == Fresh \in LocalType
<1>1. Undecided \in Outcomes
  BY DEF Undecided, Outcome, Outcomes
<1>2. [c \in Channels |-> 0] \in [Channels -> Nat]
  OBVIOUS
<1> QED
  BY <1>1, <1>2 DEF Fresh, LocalType

LEMMA LeaveMoves ==
  ASSUME TypeInv, NEW p \in Procs, Leave(p)
  PROVE  Moved(p)
<1>1. pc'[p] \in {"bind", "entered", "new", "done"} /\ (p = "poller" => pc'[p] = "new")
  BY LiveAssumption DEF TypeInv, TypeOK, Leave, Opened, Procs
<1>2. pc' = [pc EXCEPT ![p] = pc'[p]] /\ me' = [me EXCEPT ![p] = Fresh] /\ opening' \subseteq Requests
  BY DEF TypeInv, TypeOK, Leave
<1>3. pc' \in [Procs -> Labels]
  BY <1>1, <1>2 DEF TypeInv, TypeOK, Labels
<1>4. me' \in [Procs -> LocalType]
  BY <1>2, FreshType DEF TypeInv, TypeOK
<1>5. \A q \in Procs \ {p} : pc'[q] = pc[q] /\ me'[q] = me[q]
  BY <1>2 DEF TypeInv, TypeOK
<1> QED
  BY <1>1, <1>2, <1>3, <1>4, <1>5 DEF Moved, PollerSteps

\* A step to a label that leaves what the process holds.
LEMMA GotoMoves ==
  ASSUME TypeInv, NEW p \in Procs, NEW l \in Labels \ {"saving"}, Goto(p, l),
         UNCHANGED <<opening, me>>,
         p = "poller" => l \in {"new", "announced", "finish", "complete", "signal"}
  PROVE  Moved(p)
  BY DEF TypeInv, TypeOK, Moved, PollerSteps

\* A step to a label and a change of what the process holds.
LEMMA HoldMoves ==
  ASSUME TypeInv, NEW p \in Procs, NEW l \in Labels, Goto(p, l), UNCHANGED opening,
         NEW h \in LocalType, me' = [me EXCEPT ![p] = h],
         l = "saving" => h.seq \in Nat,
         p = "poller" => /\ l \in {"new", "announced", "say", "saving", "finish"}
                         /\ l \in {"say", "saving"} => h.back = "announced"
  PROVE  Moved(p)
  BY DEF TypeInv, TypeOK, Moved, PollerSteps

\* Saying something.
LEMMA SayMoves ==
  ASSUME TypeInv, NEW p \in Procs, NEW l \in {"heard", "finish", "offer", "leave", "announced"},
         SayThen(p, l), UNCHANGED opening, p = "poller" => l = "announced"
  PROVE  Moved(p)
<1> DEFINE h == [me[p] EXCEPT !.back = l]
<1>1. h \in LocalType /\ h.back = l
  BY DEF TypeInv, TypeOK, LocalType
<1>2. me' = [me EXCEPT ![p] = h] /\ Goto(p, "say") /\ "say" \in Labels
  BY DEF SayThen, TypeInv, TypeOK, Labels
<1> HIDE DEF h
<1> QED
  BY <1>1, <1>2, HoldMoves
\* The numbers of the messages begin at 0 and have no hole.
Threaded == \E k \in Nat : Numbers = {n \in Nat : n < k}

LEMMA NextSeqType ==
  ASSUME NEW p \in Procs, Threaded
  PROVE  NextSeq(p) \in Nat /\ Numbers = {n \in Nat : n < NextSeq(p)}
<1>1. PICK k \in Nat : Numbers = {n \in Nat : n < k}
  BY DEF Threaded
<1>0. thread = {} <=> Numbers = {}
  BY DEF Numbers
<1>2. CASE k = 0
  BY <1>0, <1>1, <1>2 DEF NextSeq
<1>3. CASE k > 0
  <2>1. k - 1 \in Numbers /\ \A m \in Numbers : m <= k - 1
    BY <1>1, <1>3
  <2>2. LastSeq \in Numbers /\ \A m \in Numbers : m <= LastSeq
    BY <2>1 DEF LastSeq
  <2>3. LastSeq = k - 1
    BY <1>1, <2>1, <2>2
  <2> QED
    BY <1>0, <1>1, <1>3, <2>1, <2>3 DEF NextSeq
<1> QED
  BY <1>2, <1>3

LEMMA WorkMoves ==
  ASSUME TypeInv, Threaded, NEW p \in Procs, Work(p)
  PROVE  Moved(p)
<1> USE DEF TypeInv, TypeOK, Labels
<1>0. me[p] \in LocalType /\ pc[p] \in Labels /\ (p # "poller" => p \in Requests)
      /\ (p = "poller" => PollerSteps)
  BY DEF Procs
<1>1. CASE Start(p)
  BY <1>0, <1>1 DEF Start, Moved, PollerSteps
<1>2. CASE Flag(p)
  BY <1>0, <1>2, GotoMoves DEF Flag, PollerSteps
<1>3. CASE Enter(p)
  <2>1. p # "poller"
    BY <1>0, <1>3 DEF Enter, PollerSteps
  <2> QED
    BY <1>3, <2>1, GotoMoves, SayMoves DEF Enter
<1>4. CASE Say(p)
  <2> DEFINE h == [me[p] EXCEPT !.seq = NextSeq(p)]
  <2>1. NextSeq(p) \in Nat
    BY NextSeqType
  <2>2. h \in LocalType /\ h.seq \in Nat /\ h.back = me[p].back
    BY <1>0, <2>1 DEF LocalType
  <2>3. Goto(p, "saving") /\ me' = [me EXCEPT ![p] = h] /\ UNCHANGED opening
    BY <1>4 DEF Say
  <2>4. p = "poller" => h.back = "announced"
    BY <1>0, <1>4, <2>2 DEF Say, PollerSteps
  <2> HIDE DEF h
  <2>5. "saving" \in Labels
    OBVIOUS
  <2> QED
    BY <2>2, <2>3, <2>4, <2>5, HoldMoves
<1>5. CASE Save(p)
  <2>1. CASE Leave(p)
    BY <2>1, LeaveMoves
  <2>2. CASE ~Leave(p)
    <3> DEFINE h == [me[p] EXCEPT !.seq = None]
    <3>1. h \in LocalType
      BY <1>0 DEF LocalType
    <3>2. Goto(p, me[p].back) /\ UNCHANGED opening /\ me' = [me EXCEPT ![p] = h]
      BY <1>5, <2>2 DEF Save
    <3>3. me[p].back \in Labels \ {"saving", "say"}
      BY <1>0, <1>5, <2>2 DEF Save, LocalType
    <3> HIDE DEF h
    <3> QED
      BY <1>0, <1>5, <3>1, <3>2, <3>3, HoldMoves DEF PollerSteps, Save
  <2> QED
    BY <2>1, <2>2
<1>6. CASE Screen(p)
  <2>1. p # "poller"
    BY <1>0, <1>6 DEF Screen, PollerSteps
  <2>2. CASE UNCHANGED me
    <3>1. \E l \in Labels \ {"saving"} : Goto(p, l)
      BY <1>6 DEF Screen
    <3> QED
      BY <1>6, <2>1, <2>2, <3>1, GotoMoves DEF Screen
  <2>3. ASSUME NEW s \in {"ESCALATED", "CANCELLED"},
               me' = [me EXCEPT ![p].decision = Outcome("NONE", FALSE, s, "NONE", s = "ESCALATED")],
               Goto(p, IF s = "ESCALATED" THEN "stop ticket" ELSE "stop")
        PROVE  Moved(p)
    <3> DEFINE o == Outcome("NONE", FALSE, s, "NONE", s = "ESCALATED")
               h == [me[p] EXCEPT !.decision = o]
    <3>1. o \in Outcomes
      BY DEF Outcome, Outcomes
    <3>2. h \in LocalType
      BY <1>0, <3>1 DEF LocalType
    <3>3. me' = [me EXCEPT ![p] = h] /\ UNCHANGED opening
      BY <1>6, <2>3 DEF Screen
    <3> HIDE DEF o, h
    <3> QED
      BY <2>1, <2>3, <3>2, <3>3, HoldMoves
  <2> QED
    BY <1>6, <2>2, <2>3 DEF Screen
<1>7. CASE StopTicket(p)
  BY <1>0, <1>7, GotoMoves DEF StopTicket, PollerSteps
<1>8. CASE Stop(p)
  BY <1>0, <1>8, SayMoves DEF Stop, PollerSteps
<1>9. CASE Load(p)
  <2> DEFINE h == [me[p] EXCEPT !.loaded = state]
  <2>1. h \in LocalType
    BY <1>0 DEF LocalType
  <2>2. me' = [me EXCEPT ![p] = h] /\ Goto(p, "count") /\ UNCHANGED opening /\ p # "poller"
    BY <1>0, <1>9 DEF Load, PollerSteps
  <2> HIDE DEF h
  <2> QED
    BY <2>1, <2>2, HoldMoves
<1>10. CASE Count(p)
  <2> DEFINE h == [me[p] EXCEPT !.seen = sent]
  <2>1. h \in LocalType
    BY <1>0 DEF LocalType
  <2>2. me' = [me EXCEPT ![p] = h] /\ Goto(p, "decide") /\ UNCHANGED opening /\ p # "poller"
    BY <1>0, <1>10 DEF Count, PollerSteps
  <2> HIDE DEF h
  <2> QED
    BY <2>1, <2>2, HoldMoves
<1>11. CASE Decide(p)
  <2>0. p # "poller" /\ p \in Requests
    BY <1>0, <1>11 DEF Decide, PollerSteps
  <2>1. PICK o \in Ruled(p) :
          /\ me' = [me EXCEPT ![p].decision = o, ![p].body = Job(p) # "tool",
                              ![p].back = AfterWords(o)]
          /\ Goto(p, CASE CommitFirst(o) -> "commit"
                       [] o.ticket /\ ~CommitFirst(o) -> "ticket"
                       [] OTHER -> Follow(o, Job(p) # "tool"))
    BY <1>11 DEF Decide
  <2>2. /\ o \in Outcomes /\ o.tool \in Tools
        /\ o.state = "NONE" => o.allowed /\ ToolChannel[o.tool] \in Channels
    BY <2>0, <2>1, RuledType
  <2> DEFINE h == [me[p] EXCEPT !.decision = o, !.body = Job(p) # "tool", !.back = AfterWords(o)]
  <2>3. AfterWords(o) \in {"finish", "leave"}
    BY DEF AfterWords
  <2>4. h \in LocalType
    BY <1>0, <2>2, <2>3 DEF LocalType
  <2>5. me' = [me EXCEPT ![p] = h] /\ UNCHANGED opening
    BY <1>0, <1>11, <2>1 DEF Decide, LocalType
  <2> HIDE DEF h
  <2>6. ~CommitFirst(o) /\ ~o.ticket => Follow(o, Job(p) # "tool") = "dispatch"
    BY <2>2, ToolTable DEF CommitFirst, Follow, Outcomes, Dispositive
  <2>7. PICK l \in {"commit", "ticket", "dispatch"} : Goto(p, l)
    BY <2>1, <2>6
  <2>8. l \in Labels /\ l # "saving"
    OBVIOUS
  <2> HIDE DEF TypeInv, Labels
  <2> QED
    BY <2>0, <2>4, <2>5, <2>7, <2>8, HoldMoves
<1>12. CASE Ticket(p)
  <2> DEFINE h == [me[p] EXCEPT !.loaded = "NONE"]
  <2>1. h \in LocalType
    BY <1>0 DEF LocalType
  <2>2. me' = [me EXCEPT ![p] = h] /\ Goto(p, "commit") /\ UNCHANGED opening /\ p # "poller"
    BY <1>0, <1>12 DEF Ticket, PollerSteps
  <2> HIDE DEF h
  <2> QED
    BY <2>1, <2>2, HoldMoves
<1>13. CASE Commit(p)
  <2>1. Follow(me[p].decision, me[p].body) \in {"dispatch", "say", "finish", "leave"}
    BY DEF Follow, AfterWords
  <2> QED
    BY <1>0, <1>13, <2>1, GotoMoves, LeaveMoves DEF Commit, Proceed, PollerSteps
<1>14. CASE Dispatch(p)
  BY <1>0, <1>14, GotoMoves DEF Dispatch, PollerSteps
<1>15. CASE Audit(p)
  BY <1>0, <1>15, GotoMoves, LeaveMoves, SayMoves DEF Audit, Proceed, PollerSteps
<1>16. CASE Offer(p) \/ Signal(p)
  BY <1>16, LeaveMoves DEF Offer, Signal
<1>17. CASE Finish(p) \/ Complete(p) \/ Bind(p)
  BY <1>0, <1>17, GotoMoves DEF Finish, Complete, Bind, PollerSteps
<1>18. CASE Listen(p)
  <2>1. p # "poller" /\ pc[p] = "listening"
    BY <1>0, <1>18 DEF Listen, PollerSteps
  <2>2. CASE UNCHANGED pc
    BY <1>0, <1>18, <2>1, <2>2 DEF Listen, Moved
  <2> QED
    BY <1>18, <2>1, <2>2, GotoMoves DEF Listen
<1> QED
  BY <1>1, <1>2, <1>3, <1>4, <1>5, <1>6, <1>7, <1>8, <1>9, <1>10, <1>11, <1>12, <1>13, <1>14,
     <1>15, <1>16, <1>17, <1>18 DEF Work
LEMMA BeginMoves ==
  ASSUME TypeInv, NEW p \in Requests, Begin(p)
  PROVE  Moved(p)
<1> DEFINE h == IF Job(p) = "tool" THEN [me[p] EXCEPT !.loaded = state] ELSE me[p]
<1>0. p \in Procs /\ p # "poller" /\ JobOf[p] \in Jobs /\ me[p] \in LocalType
  BY LiveAssumption DEF Procs, TypeInv, TypeOK
<1>1. h \in LocalType
  BY <1>0 DEF LocalType, TypeInv, TypeOK
<1>2. me' = [me EXCEPT ![p] = h] /\ UNCHANGED opening
  BY <1>0 DEF Begin, TypeInv, TypeOK
<1>3. PICK l \in {"starting", "bind", "entered", "count"} : Goto(p, l)
  BY <1>0 DEF Begin, Job, Jobs, Opened
<1>4. l \in Labels /\ l # "saving"
  BY DEF Labels
<1> HIDE DEF h
<1> QED
  BY <1>0, <1>1, <1>2, <1>3, <1>4, HoldMoves

LEMMA PollerMoves ==
  ASSUME TypeInv, Announce \/ Announced \/ Poll
  PROVE  Moved("poller")
<1>0. "poller" \in Procs /\ me["poller"] \in LocalType
  BY DEF Procs, TypeInv, TypeOK
<1>1. CASE Announce
  BY <1>0, <1>1, GotoMoves, SayMoves DEF Announce, Labels
<1>2. CASE Announced
  <2> DEFINE h == [me["poller"] EXCEPT !.decision = [@ EXCEPT !.state = "RECOVERED"]]
  <2>1. h \in LocalType
    BY <1>0 DEF LocalType, Outcomes
  <2>2. \/ Goto("poller", "finish") /\ me' = [me EXCEPT !["poller"] = h]
        \/ Goto("poller", "new") /\ me' = [me EXCEPT !["poller"] = Fresh]
    BY <1>0, <1>2 DEF Announced, TypeInv, TypeOK, LocalType, Outcomes
  <2> HIDE DEF h
  <2> QED
    BY <1>0, <1>2, <2>1, <2>2, FreshType, HoldMoves DEF Announced, Labels
<1>3. CASE Poll
  BY <1>0, <1>3 DEF Poll, Moved, TypeInv, TypeOK, Labels, PollerSteps
<1> QED
  BY <1>1, <1>2, <1>3

\* What the rows and the session object hold.
Stored ==
  /\ state \in LifecycleStates /\ ticket \in BOOLEAN
  /\ sent \in [Channels -> Nat] /\ rang \in Nat
  /\ started \in BOOLEAN /\ closed \in BOOLEAN /\ terminal \in BOOLEAN
  /\ queue \in Seq({"complete", End}) /\ scheduled \in Seq({"complete", End, "drain"})
  /\ deleting \in BOOLEAN /\ events \in 0..MaxEvents

\* What is sent off to the stream.
LEMMA PostStores ==
  ASSUME queue \in Seq({"complete", End}), scheduled \in Seq({"complete", End, "drain"}),
         NEW item \in {"complete", End, "drain"}
  PROVE  /\ Shown(item) \in Seq({"complete", End})
         /\ Post(item) => /\ queue' \in Seq({"complete", End})
                          /\ scheduled' \in Seq({"complete", End, "drain"})
<1>1. Shown(item) \in Seq({"complete", End})
  <2>1. CASE item = "drain"
    <3>1. <<End>> \in Seq({"complete", End})
      OBVIOUS
    <3> QED
      BY <2>1, <3>1 DEF Shown
  <2>2. CASE item # "drain"
    <3>1. item \in {"complete", End}
      BY <2>2
    <3> QED
      BY <2>2, <3>1 DEF Shown
  <2> QED
    BY <2>1, <2>2
<1> QED
  BY <1>1 DEF Post

\* A process knows what to write where it writes a state, and a decision to hand the
\* case over has its ticket but for the one commit before.
Committing(p) ==
  \/ pc[p] \in {"commit", "ticket", "stop", "stop ticket", "finish"}
  \/ pc[p] \in {"say", "saving"} /\ me[p].back = "finish"
LocalInv(p) ==
  /\ Committing(p) => me[p].decision.state # "NONE"
  /\ me[p].decision.state = "ESCALATED" => ticket \/ pc[p] \in {"stop ticket", "ticket"}
  /\ pc[p] \in {"ticket", "commit"} => me[p].back # "offer"

LEMMA WorkStores ==
  ASSUME TypeInv, NEW p \in Procs, LocalInv(p), Work(p)
  PROVE  Stored'
<1>0. /\ me[p].decision.state \in {"NONE", "WAITING", "ESCALATED", "CANCELLED", "RECOVERED"}
      /\ Stored
  BY DEF LocalType, Outcomes, TypeInv, TypeOK, Stored
<1>1. CASE Start(p) \/ Flag(p) \/ Enter(p)
  BY <1>0, <1>1 DEF Start, Flag, Enter, Stored, LifecycleStates
<1>2. CASE Say(p) \/ Screen(p) \/ Load(p) \/ Count(p)
  BY <1>0, <1>2 DEF Say, Screen, Load, Count, Stored
<1>3. CASE StopTicket(p) \/ Ticket(p)
  BY <1>0, <1>3 DEF StopTicket, Ticket, Stored
<1>4. CASE Decide(p) \/ Save(p)
  BY <1>0, <1>4 DEF Decide, Save, Stored
<1>5. CASE Stop(p) \/ Commit(p) \/ Finish(p)
  <2>1. me[p].decision.state \in LifecycleStates
    BY <1>0, <1>5 DEF Stop, Commit, Finish, LocalInv, Committing, LifecycleStates
  <2> QED
    BY <1>0, <1>5, <2>1 DEF Stop, Commit, Finish, WriteLoaded, Flush, Stored
<1>6. CASE Dispatch(p)
  BY <1>0, <1>6 DEF Dispatch, WriteLoaded, Flush, Stored, LifecycleStates
<1>7. CASE Audit(p)
  <2>1. ASSUME NEW c PROVE [sent EXCEPT ![c] = @ + 1] \in [Channels -> Nat]
    <3>1. CASE c \in Channels
      BY <1>0, <3>1 DEF Stored
    <3>2. CASE c \notin Channels
      BY <1>0, <3>2 DEF Stored
    <3> QED
      BY <3>1, <3>2
  <2> QED
    BY <1>0, <1>7, <2>1 DEF Audit, Counted, Stored
<1>8. CASE Offer(p)
  BY <1>0, <1>8 DEF Offer, Stored
<1>9. CASE Complete(p) \/ Signal(p)
  <2>1. \/ UNCHANGED <<queue, scheduled>>
        \/ \E item \in {"complete", End, "drain"} : Post(item)
    BY <1>9 DEF Complete, Signal
  <2>2. /\ queue' \in Seq({"complete", End})
        /\ scheduled' \in Seq({"complete", End, "drain"})
    BY <1>0, <2>1, PostStores DEF Stored
  <2>3. /\ UNCHANGED <<rows, started, closed, deleting, events>>
        /\ terminal' \in {terminal, TRUE}
    BY <1>9 DEF Complete, Signal
  <2> QED
    BY <1>0, <2>2, <2>3 DEF Stored
<1>10. CASE Bind(p) \/ Listen(p)
  <2>1. Listen(p) => Tail(queue) \in Seq({"complete", End})
    BY <1>0 DEF Listen, Stored
  <2> QED
    BY <1>0, <1>10, <2>1 DEF Bind, Listen, Stored
<1> QED
  BY <1>1, <1>2, <1>3, <1>4, <1>5, <1>6, <1>7, <1>8, <1>9, <1>10 DEF Work

LEMMA LeaveFresh ==
  ASSUME TypeInv, NEW p \in Procs, Leave(p)
  PROVE  /\ me'[p] = Fresh /\ pc'[p] \in {"bind", "entered", "new", "done"}
         /\ Fresh.decision.state = "NONE"
<1>1. me'[p] = Fresh /\ pc'[p] \in {"bind", "entered", "new", "done"}
  BY LiveAssumption DEF TypeInv, TypeOK, Leave, Opened
<1>2. Fresh.decision.state = "NONE"
  BY DEF Fresh, Undecided, Outcome
<1> QED
  BY <1>1, <1>2

LEMMA SaidThen ==
  ASSUME TypeInv, NEW p \in Procs, NEW l, SayThen(p, l)
  PROVE  /\ pc'[p] = "say" /\ me'[p].back = l /\ me'[p].decision = me[p].decision
<1>1. me[p] \in LocalType /\ me'[p] = [me[p] EXCEPT !.back = l] /\ pc'[p] = "say"
  BY DEF TypeInv, TypeOK, SayThen
<1> QED
  BY <1>1 DEF LocalType

\* What a step does to the decision of its process, and to the place it is at.
LEMMA WorkDecides ==
  ASSUME TypeInv, NEW p \in Procs, Moved(p), LocalInv(p), Work(p)
  PROVE  LocalInv(p)' /\ (ticket => ticket')
<1> USE DEF LocalInv, Committing
<1>0. /\ me[p] \in LocalType /\ pc[p] \in Labels /\ pc'[p] \in Labels
      /\ pc \in [Procs -> Labels] /\ me \in [Procs -> LocalType] /\ ticket \in BOOLEAN
      /\ (p # "poller" => p \in Requests)
  BY DEF TypeInv, TypeOK, Moved, Procs
<1>1. CASE Leave(p)
  <2>1. ticket => ticket'
    BY <1>0, <1>1 DEF Work, Start, Flag, Enter, Say, Save, Screen, StopTicket, Stop, Load, Count,
         Decide, Ticket, Commit, Dispatch, Audit, Offer, Finish, Complete, Signal,
         Bind, Listen
  <2> QED
    BY <1>1, <2>1, LeaveFresh
<1>2. CASE Start(p) \/ Flag(p) \/ Bind(p) \/ Listen(p)
  BY <1>0, <1>2 DEF Start, Flag, Bind, Listen
<1>3. CASE Enter(p)
  <2>0. UNCHANGED ticket /\ pc[p] = "entered"
    BY <1>3 DEF Enter
  <2>1. CASE SayThen(p, "heard")
    <3>1. pc'[p] = "say" /\ me'[p].back = "heard" /\ me'[p].decision = me[p].decision
      BY <2>1, SaidThen
    <3> QED
      BY <1>0, <2>0, <3>1
  <2>2. CASE Goto(p, "done") /\ UNCHANGED me
    BY <1>0, <1>3, <2>2 DEF Enter
  <2> QED
    BY <1>3, <2>1, <2>2 DEF Enter
<1>4. CASE Say(p)
  <2>1. me'[p] = [me[p] EXCEPT !.seq = NextSeq(p)] /\ pc'[p] = "saving" /\ UNCHANGED ticket
    BY <1>0, <1>4 DEF Say
  <2> QED
    BY <1>0, <1>4, <2>1 DEF Say, LocalType
<1>5. CASE Save(p) /\ ~Leave(p)
  <2>1. /\ me'[p] = [me[p] EXCEPT !.seq = None]
        /\ pc'[p] = me[p].back /\ pc[p] = "saving" /\ UNCHANGED ticket
    BY <1>0, <1>5 DEF Save
  <2>2. me[p].back \in {"done", "heard", "finish", "offer", "leave", "announced"}
    BY <1>0 DEF LocalType
  <2> QED
    BY <1>0, <2>1, <2>2 DEF LocalType
<1>6. CASE Screen(p)
  <2>1. UNCHANGED ticket
    BY <1>6 DEF Screen
  <2>2. CASE Goto(p, "load") /\ UNCHANGED me
    BY <1>0, <1>6, <2>1, <2>2 DEF Screen
  <2>3. ASSUME NEW s \in {"ESCALATED", "CANCELLED"},
               me' = [me EXCEPT ![p].decision = Outcome("NONE", FALSE, s, "NONE", s = "ESCALATED")],
               Goto(p, IF s = "ESCALATED" THEN "stop ticket" ELSE "stop")
        PROVE  LocalInv(p)'
    <3> DEFINE o == Outcome("NONE", FALSE, s, "NONE", s = "ESCALATED")
    <3>1. o.state = s
      BY DEF Outcome
    <3> HIDE DEF o
    <3>2. me'[p] = [me[p] EXCEPT !.decision = o]
      BY <1>0, <2>3 DEF o
    <3>3. me'[p].decision = o
      BY <1>0, <3>2 DEF LocalType
    <3>4. pc'[p] = IF s = "ESCALATED" THEN "stop ticket" ELSE "stop"
      BY <1>0, <2>3
    <3> QED
      BY <3>1, <3>3, <3>4
  <2>4. (Goto(p, "load") /\ UNCHANGED me) \/ \E s \in {"ESCALATED", "CANCELLED"} :
          /\ me' = [me EXCEPT ![p].decision = Outcome("NONE", FALSE, s, "NONE", s = "ESCALATED")]
          /\ Goto(p, IF s = "ESCALATED" THEN "stop ticket" ELSE "stop")
    BY <1>6 DEF Screen
  <2> HIDE DEF LocalInv
  <2> QED
    BY <2>1, <2>2, <2>3, <2>4
<1>7. CASE StopTicket(p) \/ Finish(p) \/ Complete(p)
  BY <1>0, <1>7 DEF StopTicket, Finish, Complete
<1>8. CASE Stop(p)
  BY <1>0, <1>8, SaidThen DEF Stop
<1>9. CASE Load(p) \/ Count(p)
  <2>1. /\ me'[p] \in {[me[p] EXCEPT !.loaded = state], [me[p] EXCEPT !.seen = sent]}
        /\ pc'[p] \in {"count", "decide"} /\ UNCHANGED ticket
    BY <1>0, <1>9 DEF Load, Count
  <2>2. pc[p] \in {"load", "count"}
    BY <1>9 DEF Load, Count
  <2>3. me'[p].decision = me[p].decision
    <3>1. CASE me'[p] = [me[p] EXCEPT !.loaded = state]
      BY <1>0, <3>1 DEF LocalType
    <3>2. CASE me'[p] = [me[p] EXCEPT !.seen = sent]
      BY <1>0, <3>2 DEF LocalType
    <3> QED
      BY <2>1, <3>1, <3>2
  <2> QED
    BY <2>1, <2>2, <2>3
<1>10. CASE Decide(p)
  <2>1. p # "poller"
    BY <1>10 DEF Decide, TypeInv, PollerSteps
  <2>2. PICK o \in Ruled(p) :
          /\ me' = [me EXCEPT ![p].decision = o, ![p].body = Job(p) # "tool",
                              ![p].back = AfterWords(o)]
          /\ Goto(p, CASE CommitFirst(o) -> "commit"
                       [] o.ticket /\ ~CommitFirst(o) -> "ticket"
                       [] OTHER -> Follow(o, Job(p) # "tool"))
    BY <1>10 DEF Decide
  <2>3. /\ o \in Outcomes /\ o.tool \in Tools /\ (o.state = "ESCALATED" <=> o.ticket)
        /\ o.state = "NONE" => o.allowed /\ ToolChannel[o.tool] \in Channels
    BY <1>0, <2>1, <2>2, RuledType DEF TypeInv
  <2>4. me'[p].decision = o /\ me'[p].back = AfterWords(o)
    BY <1>0, <2>2 DEF LocalType
  <2>5. ~CommitFirst(o) /\ ~o.ticket => Follow(o, Job(p) # "tool") = "dispatch"
    BY <2>3, ToolTable DEF CommitFirst, Follow, Outcomes, Dispositive
  <2>6. pc'[p] = IF o.ticket THEN "ticket" ELSE IF o.state = "NONE" THEN "dispatch" ELSE "commit"
    BY <1>0, <2>2, <2>3, <2>5 DEF CommitFirst, Outcomes
  <2> QED
    BY <1>10, <2>3, <2>4, <2>6 DEF Decide, AfterWords
<1>11. CASE Ticket(p)
  BY <1>0, <1>11 DEF Ticket, LocalType
<1>12. CASE Commit(p) /\ ~Leave(p)
  <2>1. UNCHANGED <<me, ticket>> /\ pc[p] = "commit"
    BY <1>0, <1>12 DEF Commit, Proceed
  <2>2. pc'[p] \notin {"stop ticket", "ticket"}
    BY <1>0, <1>12 DEF Commit, Proceed, Follow, AfterWords
  <2> QED
    BY <2>1, <2>2
<1>13. CASE Dispatch(p)
  BY <1>0, <1>13 DEF Dispatch
<1>14. CASE Audit(p) /\ ~Leave(p)
  <2>1. pc'[p] \in {"say", "offer"} /\ UNCHANGED ticket /\ pc[p] = "audit"
    BY <1>0, <1>14, SaidThen DEF Audit, Proceed
  <2>2. me'[p].decision = me[p].decision /\ (pc'[p] = "say" => me'[p].back # "finish")
    BY <1>0, <1>14, SaidThen DEF Audit, Proceed
  <2> QED
    BY <2>1, <2>2
<1> QED
  BY <1>1, <1>2, <1>3, <1>4, <1>5, <1>6, <1>7, <1>8, <1>9, <1>10, <1>11, <1>12, <1>13, <1>14
  DEF Work, Offer, Signal
-----------------------------------------------------------------------------
(* The numbers of the messages: a request may save a number another has    *)
(* saved, but never one past the next, nor one it has used itself.         *)

ThreadingTo(k) ==
  /\ thread \subseteq Nat \X Procs /\ Numbers = {n \in Nat : n < k}
  /\ \A p \in Procs : pc[p] = "saving" =>
       me[p].seq <= k /\ \A m \in thread : m[2] = p => m[1] < me[p].seq
Threading == \E k \in Nat : ThreadingTo(k)

SaysNothing(p) == thread' = thread /\ pc'[p] # "saving"
Says(p) == thread' = thread /\ me'[p].seq = NextSeq(p)
Saves(p) == /\ pc[p] = "saving" /\ pc'[p] # "saving"
            /\ thread' = thread \cup {<<me[p].seq, p>>}

LEMMA WorkThreads ==
  ASSUME TypeInv, NEW p \in Procs, Work(p)
  PROVE  SaysNothing(p) \/ Says(p) \/ Saves(p)
<1> USE DEF SaysNothing, Says, Saves
<1>0. /\ me[p] \in LocalType /\ pc \in [Procs -> Labels] /\ me \in [Procs -> LocalType]
  BY DEF TypeInv, TypeOK
<1>1. CASE Save(p)
  <2>1. pc[p] = "saving" /\ thread' = thread \cup {<<me[p].seq, p>>}
    BY <1>1 DEF Save
  <2>2. CASE Leave(p)
    BY <2>1, <2>2, LeaveFresh
  <2>3. CASE ~Leave(p)
    <3>1. pc'[p] = me[p].back
      BY <1>0, <1>1, <2>3 DEF Save
    <3>2. me[p].back \in {"done", "heard", "finish", "offer", "leave", "announced"}
      BY <1>0 DEF LocalType
    <3> QED
      BY <2>1, <3>1, <3>2
  <2> QED
    BY <2>2, <2>3
<1>2. CASE Say(p)
  <2>1. me'[p] = [me[p] EXCEPT !.seq = NextSeq(p)] /\ UNCHANGED thread
    BY <1>0, <1>2 DEF Say
  <2> QED
    BY <1>0, <2>1 DEF LocalType
<1>3. CASE ~Save(p) /\ ~Say(p)
  <2>1. UNCHANGED thread
    BY <1>3 DEF Work, Start, Flag, Enter, Screen, StopTicket, Stop, Load, Count,
         Decide, Ticket, Commit, Dispatch, Audit, Offer, Finish, Complete, Signal, Bind, Listen
  <2>2. pc'[p] # "saving"
    <3>1. CASE Leave(p)
      BY <3>1, LeaveFresh
    <3>2. CASE Decide(p)
      <4>1. \E o : pc'[p] \in {"commit", "ticket", Follow(o, Job(p) # "tool")}
        BY <1>0, <3>2 DEF Decide
      <4> QED
        BY <4>1 DEF Follow, AfterWords
    <3>3. CASE (Commit(p) \/ Audit(p)) /\ ~Leave(p)
      BY <1>0, <3>3 DEF Commit, Audit, Proceed, SayThen, Follow, AfterWords
    <3>4. CASE Start(p) \/ Flag(p) \/ Enter(p) \/ Screen(p) \/ StopTicket(p) \/ Stop(p)
      BY <1>0, <3>4 DEF Start, Flag, Enter, Screen, StopTicket, Stop, SayThen
    <3>5. CASE Load(p) \/ Count(p) \/ Ticket(p) \/ Dispatch(p) \/ Finish(p)
               \/ Complete(p) \/ Bind(p) \/ Listen(p)
      BY <1>0, <3>5 DEF Load, Count, Ticket, Dispatch, Finish, Complete, Bind, Listen
    <3> QED
      BY <1>3, <3>1, <3>2, <3>3, <3>4, <3>5 DEF Work, Offer, Signal
  <2> QED
    BY <2>1, <2>2
<1> QED
  BY <1>1, <1>2, <1>3

\* Whatever a process does, the numbers stay in order.
LEMMA StillThreading ==
  ASSUME TypeInv, Threading, NEW p \in Procs, Moved(p), SaysNothing(p) \/ Says(p) \/ Saves(p)
  PROVE  Threading'
<1>0. PICK k \in Nat : ThreadingTo(k)
  BY DEF Threading
<1>1. /\ pc[p] = "saving" => me[p].seq \in Nat
      /\ \A q \in Procs : pc[q] = "saving" => me[q].seq \in Nat
  BY DEF TypeInv, TypeOK
<1>2. \A q \in Procs \ {p} : pc'[q] = pc[q] /\ me'[q] = me[q]
  BY DEF Moved
<1>3. CASE SaysNothing(p)
  <2>1. Numbers' = Numbers /\ thread' = thread
    BY <1>3 DEF SaysNothing, Numbers
  <2>2. ThreadingTo(k)'
    BY <1>0, <1>2, <1>3, <2>1 DEF ThreadingTo, SaysNothing
  <2> QED
    BY <2>2 DEF Threading
<1>4. CASE Says(p)
  <2>1. NextSeq(p) = k
    <3>1. NextSeq(p) \in Nat /\ Numbers = {n \in Nat : n < NextSeq(p)}
      BY <1>0, NextSeqType DEF ThreadingTo, Threaded
    <3>2. k \notin Numbers /\ NextSeq(p) \notin Numbers
      BY <1>0, <3>1 DEF ThreadingTo
    <3> QED
      BY <1>0, <3>1, <3>2 DEF ThreadingTo
  <2>2. Numbers' = Numbers /\ thread' = thread /\ me'[p].seq = k
    BY <1>4, <2>1 DEF Says, Numbers
  <2>3. \A m \in thread : m[1] < k
    <3>1. \A m \in thread : m[1] \in Numbers
      BY DEF Numbers
    <3> QED
      BY <1>0, <3>1 DEF ThreadingTo
  <2>4. ThreadingTo(k)'
    BY <1>0, <1>2, <2>2, <2>3 DEF ThreadingTo
  <2> QED
    BY <2>4 DEF Threading
<1>5. CASE Saves(p)
  <2> DEFINE n == me[p].seq
  <2>1. n \in Nat /\ n <= k
    BY <1>0, <1>1, <1>5 DEF Saves, ThreadingTo
  <2>2. /\ thread' = thread \cup {<<n, p>>} /\ Numbers' = Numbers \cup {n}
        /\ thread' \subseteq Nat \X Procs
    <3>1. thread' = thread \cup {<<n, p>>}
      BY <1>5 DEF Saves
    <3> HIDE DEF n
    <3>2. Numbers' = Numbers \cup {n}
      <4> DEFINE new == <<n, p>>
      <4>1. new[1] = n
        OBVIOUS
      <4>2. \A x : x \in Numbers' <=> \E m \in thread' : x = m[1]
        BY DEF Numbers
      <4>3. \A x : x \in Numbers <=> \E m \in thread : x = m[1]
        BY DEF Numbers
      <4>4. thread' = thread \cup {new}
        BY <3>1
      <4> HIDE DEF new
      <4> QED
        BY <4>1, <4>2, <4>3, <4>4
    <3>3. thread' \subseteq Nat \X Procs
      BY <1>0, <2>1, <3>1 DEF ThreadingTo
    <3> QED
      BY <3>1, <3>2, <3>3
  <2> HIDE DEF n
  <2>3. \A q \in Procs \ {p} : pc'[q] = "saving" =>
          me'[q].seq <= k /\ \A m \in thread' : m[2] = q => m[1] < me'[q].seq
    BY <1>0, <1>2, <2>2 DEF ThreadingTo
  <2>4. pc'[p] # "saving"
    BY <1>5 DEF Saves
  <2>5. CASE n < k
    <3>1. Numbers' = {i \in Nat : i < k}
      BY <1>0, <2>1, <2>2, <2>5 DEF ThreadingTo
    <3>2. ThreadingTo(k)'
      BY <2>2, <2>3, <2>4, <3>1 DEF ThreadingTo
    <3> QED
      BY <3>2 DEF Threading
  <2>6. CASE n = k
    <3>1. Numbers' = {i \in Nat : i < k + 1}
      BY <1>0, <2>1, <2>2, <2>6 DEF ThreadingTo
    <3>2. \A q \in Procs \ {p} : pc'[q] = "saving" => me'[q].seq \in Nat
      BY <1>1, <1>2
    <3>3. \A q \in Procs \ {p} : pc'[q] = "saving" => me'[q].seq <= k + 1
      BY <2>3, <3>2
    <3>4. ThreadingTo(k + 1)'
      BY <2>2, <2>3, <2>4, <3>1, <3>3 DEF ThreadingTo
    <3> QED
      BY <3>4 DEF Threading
  <2> QED
    BY <1>0, <2>1, <2>5, <2>6
<1> QED
  BY <1>3, <1>4, <1>5
-----------------------------------------------------------------------------
(* The invariant.                                                          *)

SessionInv ==
  /\ TypeInv /\ Threading
  /\ \A p \in Procs : LocalInv(p)
  /\ state = "ESCALATED" => ticket

\* What a process's step has to keep of itself, for all of it to be kept.
LEMMA StepKeeps ==
  ASSUME SessionInv, NEW p \in Procs, Moved(p), SaysNothing(p) \/ Says(p) \/ Saves(p), Stored',
         LocalInv(p)', ticket => ticket', (state = "ESCALATED" => ticket)'
  PROVE  SessionInv'
<1>1. Threading'
  BY StillThreading DEF SessionInv
<1>2. thread' \subseteq Nat \X Procs
  BY <1>1 DEF Threading, ThreadingTo
<1>3. TypeInv'
  <2>1. \A q \in Procs : pc'[q] = "saving" => me'[q].seq \in Nat
    BY DEF Moved, SessionInv, TypeInv, TypeOK
  <2>2. PollerSteps'
    BY DEF Moved, SessionInv, TypeInv, PollerSteps, Procs
  <2> QED
    BY <1>2, <2>1, <2>2 DEF TypeInv, TypeOK, Stored, Moved
<1>4. \A q \in Procs : LocalInv(q)'
  <2>1. \A q \in Procs \ {p} : pc'[q] = pc[q] /\ me'[q] = me[q] /\ LocalInv(q)
    BY DEF Moved, SessionInv
  <2>2. ASSUME NEW q \in Procs \ {p} PROVE LocalInv(q)'
    BY <2>1 DEF LocalInv, Committing
  <2> QED
    BY <2>2
<1> QED
  BY <1>1, <1>3, <1>4 DEF SessionInv

LEMMA InitSession == Init => SessionInv
<1> SUFFICES ASSUME Init PROVE SessionInv
  OBVIOUS
<1>1. Fresh.decision.state = "NONE"
  BY DEF Fresh, Undecided, Outcome
<1>2. \A p \in Procs : pc[p] = "new" /\ me[p] = Fresh
  BY DEF Init
<1>3. TypeInv
  <2>1. sent \in [Channels -> Nat]
    BY LiveAssumption DEF Init, Clipped, Smaller
  <2>2. pc \in [Procs -> Labels] /\ me \in [Procs -> LocalType]
    BY FreshType DEF Init, Labels
  <2>3. PollerSteps
    BY <1>2 DEF PollerSteps, Procs
  <2>4. queue = <<>> /\ scheduled = <<>> /\ events = 0 /\ 0 \in 0..MaxEvents
    BY LiveAssumption DEF Init
  <2>5. /\ queue \in Seq({"complete", End}) /\ scheduled \in Seq({"complete", End, "drain"})
        /\ events \in 0..MaxEvents
    BY <2>4
  <2> QED
    BY <1>2, <2>1, <2>2, <2>3, <2>5 DEF Init, TypeInv, TypeOK, LifecycleStates
<1>4. ThreadingTo(0)
  <2>1. thread = {} /\ Numbers = {}
    BY DEF Init, Numbers
  <2> QED
    BY <1>2, <2>1 DEF ThreadingTo
<1> QED
  BY <1>1, <1>2, <1>3, <1>4 DEF SessionInv, LocalInv, Committing, Threading, Init

LEMMA NextSession == SessionInv /\ [Next]_vars => SessionInv'
<1> SUFFICES ASSUME SessionInv, [Next]_vars PROVE SessionInv'
  OBVIOUS
<1>0. TypeInv /\ Threading /\ Stored /\ (state = "ESCALATED" => ticket)
      /\ (\A p \in Procs : LocalInv(p)) /\ "poller" \in Procs /\ Requests \subseteq Procs
  BY DEF SessionInv, Stored, TypeInv, TypeOK, Procs
<1>1. ASSUME NEW p \in Requests, Begin(p) PROVE SessionInv'
  <2>1. Moved(p) /\ p \in Procs
    BY <1>0, <1>1, BeginMoves
  <2>2. UNCHANGED <<rows, object, events>> /\ pc[p] = "new"
        /\ pc'[p] \in {"starting", "bind", "entered", "count"}
    BY <1>0, <1>1, LiveAssumption DEF Begin, TypeInv, TypeOK, Job, Jobs, Opened
  <2>3. me'[p].decision = me[p].decision
    BY <1>0, <1>1 DEF Begin, TypeInv, TypeOK, LocalType
  <2>4. SaysNothing(p) /\ Stored' /\ LocalInv(p)'
    BY <1>0, <2>1, <2>2, <2>3 DEF SaysNothing, Stored, LocalInv, Committing
  <2> QED
    BY <1>0, <2>1, <2>2, <2>4, StepKeeps
<1>2. ASSUME NEW p \in Procs, Work(p) PROVE SessionInv'
  <2>1. Moved(p) /\ Stored' /\ (SaysNothing(p) \/ Says(p) \/ Saves(p))
    BY <1>0, <1>2, WorkMoves, WorkStores, WorkThreads DEF Threading, ThreadingTo, Threaded
  <2>2. LocalInv(p)' /\ (ticket => ticket')
    BY <1>0, <1>2, <2>1, WorkDecides
  <2>3. state' \in {state, me[p].decision.state, "DIAGNOSING", "INTERVENING"}
    BY <1>2 DEF Work, Start, Flag, Enter, Say, Save, Screen, StopTicket, Stop, Load, Count, Decide,
         Ticket, Commit, Dispatch, Audit, Offer, Finish, Complete, Signal,
         Bind, Listen, WriteLoaded, Flush
  <2>4. (state = "ESCALATED" => ticket)'
    <3>1. CASE state' = me[p].decision.state /\ state' # state
      <4>1. pc[p] \in {"flag", "stop", "commit", "dispatch", "finish"}
        BY <1>2, <3>1 DEF Work, Start, Flag, Enter, Say, Save, Screen, StopTicket, Stop, Load, Count,
           Decide, Ticket, Commit, Dispatch, Audit, Offer, Finish, Complete, Signal,
         Bind, Listen, WriteLoaded, Flush
      <4> QED
        BY <1>0, <2>2, <3>1, <4>1 DEF LocalInv
    <3> QED
      BY <1>0, <2>2, <2>3, <3>1
  <2> QED
    BY <2>1, <2>2, <2>4, StepKeeps
<1>3. CASE Announce \/ Announced \/ Poll
  <2>1. Moved("poller")
    BY <1>0, <1>3, PollerMoves
  <2>2. thread' = thread /\ ticket' = ticket /\ state' \in {state, "RECOVERED", "WAITING"} /\ Stored'
    <3>1. CASE Announce \/ Announced
      BY <1>0, <3>1 DEF Announce, Announced, Stored
    <3>2. CASE Poll
      BY <1>0, <3>2, LiveAssumption DEF Poll, Stored, LifecycleStates
    <3> QED
      BY <1>3, <3>1, <3>2
  <2>3. pc'["poller"] \in {"new", "announce", "announced", "say", "finish"}
    BY <1>0, <1>3 DEF Announce, Announced, Poll, SayThen, TypeInv, TypeOK
  <2>4. me["poller"] \in LocalType /\ me \in [Procs -> LocalType]
    BY <1>0 DEF TypeInv, TypeOK
  <2>5. LocalInv("poller")'
    <3>1. CASE Announce
      <4>1. CASE UNCHANGED me /\ Goto("poller", "new")
        BY <1>0, <2>2, <4>1 DEF LocalInv, Committing, TypeInv, TypeOK, PollerSteps
      <4>2. CASE SayThen("poller", "announced")
        <5>1. /\ pc["poller"] = "announce"
              /\ me'["poller"].decision = me["poller"].decision /\ pc'["poller"] = "say"
              /\ me'["poller"].back = "announced"
          BY <1>0, <3>1, <4>2, SaidThen DEF Announce
        <5> QED
          BY <1>0, <2>2, <5>1 DEF LocalInv, Committing
      <4> QED
        BY <3>1, <4>1, <4>2 DEF Announce
    <3>2. CASE Announced
      <4>1. CASE me' = [me EXCEPT !["poller"].decision.state = "RECOVERED"]
        <5>1. me'["poller"].decision.state = "RECOVERED"
          BY <1>0, <2>4, <4>1 DEF LocalType, Outcomes
        <5> QED
          BY <2>3, <5>1 DEF LocalInv
      <4>2. CASE me' = [me EXCEPT !["poller"] = Fresh] /\ Goto("poller", "new")
        <5>1. me'["poller"] = Fresh /\ pc'["poller"] = "new"
          BY <1>0, <2>4, <4>2 DEF TypeInv, TypeOK
        <5>2. Fresh.decision.state = "NONE"
          BY DEF Fresh, Undecided, Outcome
        <5> QED
          BY <5>1, <5>2 DEF LocalInv, Committing
      <4> QED
        BY <3>2, <4>1, <4>2 DEF Announced
    <3>3. CASE Poll
      <4>1. UNCHANGED me /\ pc["poller"] = "new" /\ pc'["poller"] = "announce"
        BY <1>0, <3>3 DEF Poll, TypeInv, TypeOK
      <4> QED
        BY <1>0, <2>2, <4>1 DEF LocalInv, Committing
    <3> QED
      BY <1>3, <3>1, <3>2, <3>3
  <2>6. SaysNothing("poller")
    BY <2>2, <2>3, <2>5 DEF SaysNothing
  <2> QED
    BY <1>0, <2>1, <2>2, <2>5, <2>6, StepKeeps
<1>4. CASE Delete \/ SignalClose \/ Deliver \/ UNCHANGED vars
  <2>1. /\ UNCHANGED <<state, ticket, sent, thread, rang, started, terminal, pc, opening, me>>
        /\ closed' \in BOOLEAN /\ deleting' \in BOOLEAN /\ events' \in 0..MaxEvents
        /\ queue' \in Seq({"complete", End}) /\ scheduled' \in Seq({"complete", End, "drain"})
    <3>1. CASE Delete
      BY <1>0, <3>1, LiveAssumption DEF Delete, Stored
    <3>2. CASE SignalClose
      BY <1>0, <3>2, PostStores DEF SignalClose, Stored
    <3>3. CASE Deliver
      <4>1. Head(scheduled) \in {"complete", End, "drain"}
            /\ Tail(scheduled) \in Seq({"complete", End, "drain"})
        BY <1>0, <3>3 DEF Deliver, Stored
      <4> QED
        BY <1>0, <3>3, <4>1, PostStores DEF Deliver, Stored
    <3>4. CASE UNCHANGED vars
      BY <1>0, <3>4 DEF vars, Stored
    <3> QED
      BY <1>4, <3>1, <3>2, <3>3, <3>4
  <2>2. TypeInv'
    BY <1>0, <2>1 DEF TypeInv, TypeOK, PollerSteps
  <2>3. Threading' /\ \A p \in Procs : LocalInv(p)'
    BY <1>0, <2>1 DEF Threading, ThreadingTo, Numbers, LocalInv, Committing
  <2> QED
    BY <1>0, <2>1, <2>2, <2>3 DEF SessionInv
<1>5. CASE Crash
  <2>1. \A p \in Procs : pc'[p] \in {"new", "done"} /\ me'[p] = Fresh
    BY <1>5 DEF Crash
  <2>2. Fresh.decision.state = "NONE"
    BY DEF Fresh, Undecided, Outcome
  <2>3. TypeInv'
    <3>1. pc' \in [Procs -> Labels] /\ me' \in [Procs -> LocalType]
      BY <1>5, FreshType DEF Crash, Labels
    <3>2. pc'["poller"] = "new"
      BY <1>0, <1>5 DEF Crash
    <3>3. queue' = <<>> /\ scheduled' = <<>> /\ events' \in 0..MaxEvents /\ UNCHANGED rows
      BY <1>0, <1>5, LiveAssumption DEF Crash, Stored
    <3>4. queue' \in Seq({"complete", End}) /\ scheduled' \in Seq({"complete", End, "drain"})
      BY <3>3
    <3> QED
      BY <1>0, <1>5, <2>1, <3>1, <3>2, <3>3, <3>4 DEF Crash, TypeInv, TypeOK, PollerSteps
  <2>4. Threading'
    BY <1>0, <1>5, <2>1 DEF Crash, Threading, ThreadingTo, Numbers
  <2> QED
    BY <1>0, <1>5, <2>1, <2>2, <2>3, <2>4 DEF Crash, SessionInv, LocalInv, Committing
<1> QED
  BY <1>1, <1>2, <1>3, <1>4, <1>5 DEF Next, Running

LEMMA AlwaysSession == Spec => []SessionInv
  BY InitSession, NextSession, PTL DEF Spec

\* The rows, the session object and what each request holds have their types.
THEOREM SessionTyped == Spec => []TypeOK
<1>1. SessionInv => TypeOK
  BY DEF SessionInv, TypeInv
<1> QED
  BY <1>1, AlwaysSession, PTL

\* A case is not in the hands of a person without a ticket, however requests overlap
\* and wherever the process dies.
THEOREM TicketFirst == Spec => []EscalatedHasTicket
<1>1. SessionInv => EscalatedHasTicket
  BY DEF SessionInv, EscalatedHasTicket
<1> QED
  BY <1>1, AlwaysSession, PTL

\* What a request says is numbered after what it said before, and the numbers have
\* no hole; two requests that overlap may use one number.
THEOREM ThreadSorted == Spec => []ThreadInOrder
<1>1. SessionInv => ThreadInOrder
  BY DEF SessionInv, Threading, ThreadingTo, ThreadInOrder
<1> QED
  BY <1>1, AlwaysSession, PTL
-----------------------------------------------------------------------------
(* A session that is over.                                                 *)

LEMMA RestingStep ==
  ASSUME SessionInv, Next, Resting
  PROVE  (UNCHANGED <<state, thread>> /\ Resting') \/ ByTool \/ Crash
<1> USE DEF Resting, AtRest
<1>0. /\ pc \in [Procs -> Labels] /\ Requests \subseteq Procs /\ "poller" \in Procs
      /\ Job("poller") # "tool" /\ terminal /\ started /\ pc["poller"] = "new"
      /\ \A p \in Procs : p # "poller" => p \in Requests
      /\ me \in [Procs -> LocalType]
  BY DEF SessionInv, TypeInv, TypeOK, Procs, Job, PollerSteps
<1>1. ASSUME NEW p \in Requests, Begin(p)
      PROVE  (UNCHANGED <<state, thread>> /\ Resting') \/ ByTool
  <2>1. CASE Job(p) = "tool"
    BY <1>0, <1>1, <2>1 DEF Begin, ByTool
  <2>2. CASE Job(p) # "tool"
    <3>1. pc'[p] \in {"bind", "entered"} /\ \A q \in Procs \ {p} : pc'[q] = pc[q]
      BY <1>0, <1>1, <2>2, LiveAssumption DEF Begin, Opened, Job, Jobs
    <3> QED
      BY <1>0, <1>1, <3>1 DEF Begin
  <2> QED
    BY <2>1, <2>2
<1>2. ASSUME NEW p \in Procs, Work(p)
      PROVE  (UNCHANGED <<state, thread>> /\ Resting') \/ ByTool
  <2>1. CASE AtRest(p)
    <3>1. Enter(p) \/ Bind(p) \/ Listen(p)
      BY <1>2, <2>1 DEF Work, Start, Flag, Say, Save, Screen, StopTicket, Stop, Load, Count,
         Decide, Ticket, Commit, Dispatch, Audit, Offer, Finish, Complete, Signal
    <3>2. pc'[p] \in {"done", "listening", "ended"} /\ \A q \in Procs \ {p} : pc'[q] = pc[q]
      BY <1>0, <2>1, <3>1 DEF Enter, Bind, Listen, Over
    <3> QED
      BY <1>0, <3>1, <3>2 DEF Enter, Bind, Listen
  <2>2. CASE ~AtRest(p)
    <3>1. Job(p) = "tool" /\ p \in Requests
      BY <1>0, <2>2
    <3>2. pc'[p] # pc[p]
      <4>1. CASE Leave(p)
        BY <2>2, <4>1, LeaveFresh DEF SessionInv
      <4>2. CASE Save(p) /\ ~Leave(p)
        <5>1. pc'[p] = me[p].back /\ pc[p] = "saving"
          BY <1>0, <4>2 DEF Save
        <5>2. me[p].back # "saving"
          BY <1>0 DEF LocalType
        <5> QED
          BY <5>1, <5>2
      <4>3. CASE Decide(p)
        <5>1. \E o : pc'[p] \in {"commit", "ticket", Follow(o, Job(p) # "tool")} /\ pc[p] = "decide"
          BY <1>0, <4>3 DEF Decide
        <5> QED
          BY <5>1 DEF Follow, AfterWords
      <4>4. CASE Commit(p) /\ ~Leave(p)
        BY <1>0, <4>4 DEF Commit, Proceed, Follow, AfterWords
      <4>5. CASE Audit(p) /\ ~Leave(p)
        BY <1>0, <4>5 DEF Audit, Proceed, SayThen
      <4>6. CASE Start(p) \/ Flag(p) \/ Say(p) \/ StopTicket(p) \/ Load(p) \/ Count(p)
                 \/ Ticket(p) \/ Dispatch(p) \/ Finish(p) \/ Complete(p)
        BY <1>0, <4>6 DEF Start, Flag, Say, StopTicket, Load, Count, Ticket, Dispatch, Finish,
           Complete
      <4>7. CASE Screen(p) \/ Stop(p)
        BY <1>0, <4>7 DEF Screen, Stop, SayThen
      <4> QED
        BY <1>2, <2>2, <4>1, <4>2, <4>3, <4>4, <4>5, <4>6, <4>7
        DEF Work, Enter, Bind, Listen, Offer, Signal
    <3> QED
      BY <3>1, <3>2 DEF ByTool
  <2> QED
    BY <2>1, <2>2
<1>3. CASE Announce \/ Announced \/ Poll
  BY <1>0, <1>3 DEF Announce, Announced, Poll
<1>4. CASE Delete \/ SignalClose \/ Deliver
  BY <1>0, <1>4 DEF Delete, SignalClose, Deliver
<1> QED
  BY <1>1, <1>2, <1>3, <1>4 DEF Next, Running

\* After the end, only a tool the client names moves the case.
THEOREM StopIsKept == Spec => StopHolds
<1>1. SessionInv /\ [Next]_vars =>
        [Resting => (UNCHANGED <<state, thread>> /\ Resting') \/ ByTool \/ Crash]_vars
  BY RestingStep
<1> QED
  BY <1>1, AlwaysSession, PTL DEF Spec, StopHolds
-----------------------------------------------------------------------------
(* Calls: who has one to ring has it audited.                              *)

Owing(p) == pc[p] = "offer" \/ (pc[p] \in {"say", "saving"} /\ me[p].back = "offer")
Owed == {p \in Procs : Owing(p)}
CallsInv == rang + Cardinality(Owed) <= sent["VOICE"] - Clipped(Prior["VOICE"])

LEMMA OwedFinite == IsFiniteSet(Owed) /\ Cardinality(Owed) \in Nat
<1>1. IsFiniteSet(Procs)
  BY LiveAssumption, FS_AddElement DEF Procs
<1> QED
  BY <1>1, FS_Subset, FS_CardinalityType DEF Owed

LEMMA WorkOwes ==
  ASSUME SessionInv, NEW p \in Procs, Work(p)
  PROVE  \/ rang' = rang /\ sent' = sent /\ (Owing(p)' => Owing(p))
         \/ rang' = rang /\ sent'["VOICE"] >= sent["VOICE"] /\ ~Owing(p)'
         \/ rang' = rang /\ sent'["VOICE"] = sent["VOICE"] + 1
         \/ rang' = rang + 1 /\ sent' = sent /\ Owing(p) /\ ~Owing(p)'
<1> USE DEF Owing
<1>0. /\ TypeInv /\ me[p] \in LocalType /\ pc \in [Procs -> Labels] /\ me \in [Procs -> LocalType]
      /\ sent \in [Channels -> Nat] /\ "VOICE" \in Channels /\ sent["VOICE"] \in Nat
  BY DEF SessionInv, TypeInv, TypeOK, Channels
<1>1. CASE Offer(p)
  BY <1>0, <1>1, LeaveFresh DEF Offer
<1>2. CASE Audit(p)
  <2>1. rang' = rang /\ sent' = [sent EXCEPT ![ToolChannel[me[p].decision.tool]] = @ + 1]
    BY <1>2 DEF Audit, Counted
  <2>2. CASE me[p].decision.tool = "VOICE_CALL"
    <3>1. ToolChannel["VOICE_CALL"] = "VOICE"
      BY DEF ToolChannel, Tools, Dispositive, PaymentTools
    <3> QED
      BY <1>0, <2>1, <2>2, <3>1
  <2>3. CASE me[p].decision.tool # "VOICE_CALL"
    <3>1. sent'["VOICE"] >= sent["VOICE"]
      <4> DEFINE c == ToolChannel[me[p].decision.tool]
      <4>1. sent' = [sent EXCEPT ![c] = @ + 1]
        BY <2>1
      <4> HIDE DEF c
      <4>2. CASE c = "VOICE"
        BY <1>0, <4>1, <4>2
      <4>3. CASE c # "VOICE"
        BY <1>0, <4>1, <4>3
      <4> QED
        BY <4>2, <4>3
    <3>2. ~Owing(p)'
      <4>1. CASE me[p].body
        BY <1>0, <1>2, <2>3, <4>1, SaidThen DEF Audit
      <4>2. CASE ~me[p].body
        BY <1>0, <1>2, <2>3, <4>2, LeaveFresh DEF Audit, Proceed
      <4> QED
        BY <4>1, <4>2
    <3> QED
      BY <2>1, <3>1, <3>2
  <2> QED
    BY <2>2, <2>3
<1>3. CASE ~Offer(p) /\ ~Audit(p)
  <2>1. rang' = rang /\ sent' = sent
    BY <1>2, <1>3 DEF Work, Start, Flag, Enter, Say, Save, Screen, StopTicket, Stop, Load, Count,
       Decide, Ticket, Commit, Dispatch, Finish, Complete, Signal,
         Bind, Listen
  <2>2. Owing(p)' => Owing(p)
    <3>1. CASE Leave(p)
      BY <1>0, <3>1, LeaveFresh
    <3>2. CASE Say(p)
      <4>1. me'[p] = [me[p] EXCEPT !.seq = NextSeq(p)] /\ pc[p] = "say" /\ pc'[p] = "saving"
        BY <1>0, <3>2 DEF Say
      <4>2. me'[p].back = me[p].back
        BY <1>0, <4>1 DEF LocalType
      <4> QED
        BY <4>1, <4>2
    <3>3. CASE Save(p) /\ ~Leave(p)
      BY <1>0, <3>3 DEF Save, LocalType
    <3>4. CASE Enter(p)
      <4>1. CASE SayThen(p, "heard")
        BY <1>0, <4>1, SaidThen
      <4>2. CASE Goto(p, "done")
        BY <1>0, <4>2
      <4> QED
        BY <3>4, <4>1, <4>2 DEF Enter
    <3>5. CASE Stop(p)
      BY <1>0, <3>5, SaidThen DEF Stop
    <3>6. CASE Decide(p)
      <4>1. PICK o : /\ me' = [me EXCEPT ![p].decision = o, ![p].body = Job(p) # "tool",
                                        ![p].back = AfterWords(o)]
                     /\ pc'[p] \in {"commit", "ticket", Follow(o, Job(p) # "tool")}
        BY <1>0, <3>6 DEF Decide
      <4>2. me'[p].back # "offer"
        BY <1>0, <4>1 DEF LocalType, AfterWords
      <4> QED
        BY <4>1, <4>2 DEF Follow, AfterWords
    <3>7. CASE Commit(p) /\ ~Leave(p)
      <4>1. UNCHANGED me /\ pc[p] = "commit" /\ pc'[p] \in {"dispatch", "say", "finish"}
        BY <1>0, <3>7 DEF Commit, Proceed, Follow, AfterWords
      <4> QED
        BY <4>1 DEF SessionInv, LocalInv
    <3>8. CASE Screen(p) \/ Load(p) \/ Count(p) \/ Ticket(p)
      BY <1>0, <3>8 DEF Screen, Load, Count, Ticket
    <3>9. CASE Start(p) \/ Flag(p) \/ StopTicket(p) \/ Dispatch(p) \/ Finish(p) \/ Complete(p)
               \/ Bind(p) \/ Listen(p)
      BY <1>0, <3>9 DEF Start, Flag, StopTicket, Dispatch, Finish, Complete, Bind, Listen
    <3> QED
      BY <1>3, <3>1, <3>2, <3>3, <3>4, <3>5, <3>6, <3>7, <3>8, <3>9 DEF Work, Signal
  <2> QED
    BY <2>1, <2>2
<1> QED
  BY <1>1, <1>2, <1>3
\* What a step of one process does to the calls owed.
LEMMA OwedStep ==
  ASSUME CallsInv, SessionInv, NEW p \in Procs, Moved(p),
         \/ rang' = rang /\ sent' = sent /\ (Owing(p)' => Owing(p))
         \/ rang' = rang /\ sent'["VOICE"] >= sent["VOICE"] /\ ~Owing(p)'
         \/ rang' = rang /\ sent'["VOICE"] = sent["VOICE"] + 1
         \/ rang' = rang + 1 /\ sent' = sent /\ Owing(p) /\ ~Owing(p)',
         sent' \in [Channels -> Nat]
  PROVE  CallsInv'
<1>0. /\ sent["VOICE"] \in Nat /\ sent'["VOICE"] \in Nat /\ rang \in Nat
      /\ Clipped(Prior["VOICE"]) \in Int
  BY LiveAssumption DEF SessionInv, TypeInv, TypeOK, Channels, Clipped, Smaller
<1>1. \A q \in Procs \ {p} : Owing(q)' <=> Owing(q)
  BY DEF Moved, Owing
<1>2. IsFiniteSet(Owed) /\ Cardinality(Owed) \in Nat
  BY OwedFinite
<1>3. CASE ~Owing(p)' /\ Owing(p)
  <2>1. Owed' = Owed \ {p} /\ p \in Owed
    BY <1>1, <1>3 DEF Owed
  <2>2. Cardinality(Owed') = Cardinality(Owed) - 1
    BY <1>2, <2>1, FS_RemoveElement
  <2> QED
    BY <1>0, <1>2, <1>3, <2>2 DEF CallsInv
<1>4. CASE Owing(p)' /\ ~Owing(p)
  <2>1. Owed' = Owed \cup {p} /\ p \notin Owed
    BY <1>1, <1>4 DEF Owed
  <2>2. Cardinality(Owed') = Cardinality(Owed) + 1
    BY <1>2, <2>1, FS_AddElement
  <2> QED
    BY <1>0, <1>2, <1>4, <2>2 DEF CallsInv
<1>5. CASE Owing(p)' <=> Owing(p)
  <2>1. Owed' = Owed
    BY <1>1, <1>5 DEF Owed
  <2> QED
    BY <1>0, <1>2, <1>5, <2>1 DEF CallsInv
<1> QED
  BY <1>3, <1>4, <1>5

LEMMA NextCalls == SessionInv /\ CallsInv /\ [Next]_vars => CallsInv'
<1> SUFFICES ASSUME SessionInv, CallsInv, [Next]_vars PROVE CallsInv'
  OBVIOUS
<1>0. /\ TypeInv /\ Requests \subseteq Procs /\ "poller" \in Procs /\ SessionInv'
      /\ sent' \in [Channels -> Nat]
  BY NextSession DEF SessionInv, TypeInv, TypeOK, Procs
<1>1. ASSUME NEW p \in Requests, Begin(p) PROVE CallsInv'
  <2>1. Moved(p) /\ ~Owing(p)' /\ UNCHANGED <<rang, sent>>
    BY <1>0, <1>1, BeginMoves, LiveAssumption DEF Begin, Owing, TypeInv, TypeOK, Opened, Job, Jobs
  <2> QED
    BY <1>0, <2>1, OwedStep
<1>2. ASSUME NEW p \in Procs, Work(p) PROVE CallsInv'
  <2>1. Moved(p)
    BY <1>0, <1>2, WorkMoves DEF SessionInv, Threading, ThreadingTo, Threaded
  <2> QED
    BY <1>0, <1>2, <2>1, WorkOwes, OwedStep
<1>3. CASE Announce \/ Announced \/ Poll
  <2>1. Moved("poller") /\ UNCHANGED <<rang, sent>>
    BY <1>0, <1>3, PollerMoves DEF Announce, Announced, Poll
  <2>2. ~Owing("poller")'
    BY <1>0 DEF SessionInv, TypeInv, PollerSteps, Owing
  <2> QED
    BY <1>0, <2>1, <2>2, OwedStep
<1>4. CASE Delete \/ SignalClose \/ Deliver \/ UNCHANGED vars
  <2>1. UNCHANGED <<pc, me, rang, sent>>
    BY <1>4 DEF Delete, SignalClose, Deliver, vars
  <2> QED
    BY <2>1 DEF CallsInv, Owed, Owing
<1>5. CASE Crash
  <2>1. Owed' = {} /\ UNCHANGED <<rang, sent>>
    BY <1>5 DEF Crash, Owed, Owing
  <2>2. Cardinality(Owed') = 0
    BY <2>1, FS_EmptySet
  <2>3. Cardinality(Owed) \in Nat /\ rang \in Nat /\ sent["VOICE"] \in Int
        /\ Clipped(Prior["VOICE"]) \in Int
    BY OwedFinite, <1>0, LiveAssumption DEF TypeInv, TypeOK, Channels, Clipped, Smaller
  <2> QED
    BY <2>1, <2>2, <2>3 DEF CallsInv
<1> QED
  BY <1>1, <1>2, <1>3, <1>4, <1>5 DEF Next, Running

\* Every call that rings is in the trail the cap is counted from.
THEOREM RingsAudited == Spec => []CallsAudited
<1>1. Init => CallsInv
  <2> SUFFICES ASSUME Init PROVE CallsInv
    OBVIOUS
  <2>1. Owed = {}
    BY DEF Init, Owed, Owing
  <2>2. Cardinality(Owed) = 0
    BY <2>1, FS_EmptySet
  <2>3. rang = 0 /\ sent["VOICE"] = Clipped(Prior["VOICE"]) /\ Clipped(Prior["VOICE"]) \in Int
    BY LiveAssumption DEF Init, Channels, Clipped, Smaller
  <2> QED
    BY <2>2, <2>3 DEF CallsInv
<1>2. SessionInv /\ CallsInv => CallsAudited
  BY OwedFinite, LiveAssumption
  DEF CallsInv, CallsAudited, SessionInv, TypeInv, TypeOK, Channels, Clipped, Smaller
<1> QED
  BY <1>1, <1>2, NextCalls, AlwaysSession, PTL DEF Spec
-----------------------------------------------------------------------------
(* The stream.  With one stream only it takes the end out of the queue.    *)

OneStream == \A q, r \in Requests : JobOf[q] = "stream" /\ JobOf[r] = "stream" => q = r
Has(q, V) == \E i \in DOMAIN q : q[i] \in V

StreamInv ==
  /\ \A p \in Procs : pc[p] \in {"bind", "listening"} => p \in Requests /\ JobOf[p] = "stream"
  /\ closed \/ terminal => Coming \/ \A r \in Requests : JobOf[r] = "stream" => pc[r] = "ended"

\* A value of a sequence stays in it, but for the head that is taken.
LEMMA HasStays ==
  ASSUME NEW S, NEW q \in Seq(S), NEW V
  PROVE  /\ \A x \in S : Has(q, V) \/ x \in V => Has(Append(q, x), V)
         /\ q # <<>> /\ Head(q) \notin V /\ Has(q, V) => Has(Tail(q), V)
<1>1. ASSUME NEW x \in S, Has(q, V) \/ x \in V PROVE Has(Append(q, x), V)
  <2>1. Append(q, x)[Len(q) + 1] = x /\ Len(q) + 1 \in DOMAIN Append(q, x)
    OBVIOUS
  <2>2. \A i \in DOMAIN q : i \in DOMAIN Append(q, x) /\ Append(q, x)[i] = q[i]
    OBVIOUS
  <2> QED
    BY <1>1, <2>1, <2>2 DEF Has
<1>2. ASSUME q # <<>>, Head(q) \notin V, Has(q, V) PROVE Has(Tail(q), V)
  <2>1. PICK i \in DOMAIN q : q[i] \in V
    BY <1>2 DEF Has
  <2>2. i \in 1..Len(q) /\ i # 1
    BY <1>2, <2>1
  <2>3. i - 1 \in DOMAIN Tail(q) /\ Tail(q)[i - 1] = q[i]
    BY <1>2, <2>1, <2>2
  <2> QED
    BY <2>1, <2>3 DEF Has
<1> QED
  BY <1>1, <1>2

LEMMA ComingIs ==
  Coming <=> \/ Has(queue, {End}) \/ Has(scheduled, {End, "drain"})
             \/ (\E p \in Procs : pc[p] = "signal") \/ deleting
  BY DEF Coming, Has

\* What is sent off keeps what is coming, and an end sent off is coming.
LEMMA PostComes ==
  ASSUME TypeInv, NEW item \in {"complete", End, "drain"}, Post(item)
  PROVE  /\ Has(queue, {End}) => Has(queue', {End})
         /\ Has(scheduled, {End, "drain"}) => Has(scheduled', {End, "drain"})
         /\ item # "complete" => Has(queue', {End}) \/ Has(scheduled', {End, "drain"})
<1>0. queue \in Seq({"complete", End}) /\ scheduled \in Seq({"complete", End, "drain"})
  BY DEF TypeInv, TypeOK
<1>1. Has(<<End>>, {End})
  BY DEF Has
<1>2. /\ Has(queue, {End}) \/ item # "complete" => Has(Shown(item), {End})
  <2>1. CASE item = "drain"
    BY <1>1, <2>1 DEF Shown
  <2>2. CASE item # "drain"
    BY <1>0, <2>2, HasStays DEF Shown, End
  <2> QED
    BY <2>1, <2>2
<1>3. Has(scheduled, {End, "drain"}) \/ item # "complete"
        => Has(Append(scheduled, item), {End, "drain"})
  <2>1. item = "complete" \/ item \in {End, "drain"}
    OBVIOUS
  <2> DEFINE V == {End, "drain"}
             S == {"complete", End, "drain"}
  <2>2. item \in S /\ scheduled \in Seq(S)
    BY <1>0
  <2> HIDE DEF V, S
  <2>3. Has(scheduled, V) \/ item \in V => Has(Append(scheduled, item), V)
    BY <2>2, HasStays
  <2> QED
    BY <2>1, <2>3 DEF V
<1> QED
  BY <1>2, <1>3 DEF Post

LEMMA NextStream ==
  ASSUME OneStream, SessionInv, StreamInv, [Next]_vars
  PROVE  StreamInv'
<1>0. /\ pc \in [Procs -> Labels] /\ me \in [Procs -> LocalType] /\ Requests \subseteq Procs
      /\ "poller" \in Procs /\ queue \in Seq({"complete", End}) /\ TypeInv
      /\ scheduled \in Seq({"complete", End, "drain"})
      /\ \A p \in Procs : p # "poller" => p \in Requests
      /\ pc["poller"] \notin {"bind", "listening", "ended"}
  BY DEF SessionInv, TypeInv, TypeOK, Procs, PollerSteps
\* A step of one process that keeps what is coming, or brings it.
<1>a. ASSUME NEW p \in Procs, \A q \in Procs \ {p} : pc'[q] = pc[q],
             pc'[p] \in {"bind", "listening"} => p \in Requests /\ JobOf[p] = "stream",
             \/ Coming'
             \/ UNCHANGED <<closed, terminal>> /\ pc[p] # "ended" /\ (Coming => Coming')
      PROVE  StreamInv'
  BY <1>0, <1>a DEF StreamInv
\* One that leaves the session object is of that kind.
<1>b. ASSUME NEW p \in Procs, \A q \in Procs \ {p} : pc'[q] = pc[q], UNCHANGED object,
             pc[p] \notin {"ended", "signal"}
      PROVE  UNCHANGED <<closed, terminal>> /\ pc[p] # "ended" /\ (Coming => Coming')
  BY <1>0, <1>b DEF Coming
<1>1. ASSUME NEW p \in Requests, Begin(p) PROVE StreamInv'
  <2>1. /\ pc'[p] \in {"bind", "listening"} => JobOf[p] = "stream"
        /\ \A q \in Procs \ {p} : pc'[q] = pc[q]
    BY <1>0, <1>1, LiveAssumption DEF Begin, Opened, Job, Jobs
  <2>2. UNCHANGED object /\ pc[p] = "new"
    BY <1>1 DEF Begin
  <2> QED
    BY <1>0, <1>a, <1>b, <2>1, <2>2
<1>2. ASSUME NEW p \in Procs, Work(p) PROVE StreamInv'
  <2>1. \A q \in Procs \ {p} : pc'[q] = pc[q]
    BY <1>0, <1>2, WorkMoves DEF Moved, SessionInv, Threading, ThreadingTo, Threaded
  <2>2. CASE Listen(p)
    <3>1. p \in Requests /\ JobOf[p] = "stream" /\ pc[p] = "listening"
      BY <1>0, <2>2 DEF Listen, StreamInv
    <3>2. /\ UNCHANGED <<closed, terminal, scheduled, deleting>>
          /\ queue' = Tail(queue) /\ queue # <<>>
      BY <2>2 DEF Listen
    <3>3. CASE Head(queue) = End
      <4>1. pc'[p] = "ended"
        BY <1>0, <2>2, <3>3 DEF Listen
      <4>2. \A r \in Requests : JobOf[r] = "stream" => pc'[r] = "ended"
        BY <3>1, <4>1 DEF OneStream
      <4> QED
        BY <1>0, <2>1, <4>1, <4>2 DEF StreamInv
    <3>4. CASE Head(queue) # End
      <4>1. UNCHANGED pc
        BY <2>2, <3>4 DEF Listen
      <4>2. Has(queue, {End}) => Has(queue', {End})
        BY <1>0, <3>2, <3>4, HasStays
      <4>3. Coming => Coming'
        BY <3>2, <4>1, <4>2 DEF Coming, Has
      <4> QED
        BY <1>a, <2>1, <3>1, <3>2, <4>1, <4>3
    <3> QED
      BY <3>3, <3>4
  <2>3. CASE Complete(p)
    <3>1. pc'[p] = "signal"
      BY <1>0, <2>3 DEF Complete
    <3>2. Coming'
      BY <3>1 DEF Coming
    <3> QED
      BY <1>a, <2>1, <3>1, <3>2
  <2>4. CASE Leave(p)
    <3>1. pc'[p] \in {"bind", "listening"} => p \in Requests /\ JobOf[p] = "stream"
      BY <1>0, <2>4, LiveAssumption DEF Leave, Opened, Job, TypeInv, TypeOK
    <3>2. CASE Signal(p)
      <4>1. Has(queue', {End}) \/ Has(scheduled', {End, "drain"})
        BY <1>0, <3>2, PostComes DEF Signal, End
      <4>2. Coming'
        BY <4>1 DEF Coming, Has
      <4> QED
        BY <1>a, <2>1, <3>1, <4>2
    <3>3. CASE ~Signal(p) /\ ~Complete(p) /\ ~Listen(p) /\ ~Start(p)
      <4>1. UNCHANGED object /\ pc[p] \notin {"ended", "signal"}
        BY <1>2, <3>3 DEF Work, Flag, Enter, Say, Save, Screen, StopTicket, Stop, Load, Count,
           Decide, Ticket, Commit, Dispatch, Audit, Offer, Finish, Bind
      <4> QED
        BY <1>a, <1>b, <2>1, <3>1, <4>1
    <3>4. ~Start(p) \/ ~Leave(p)
      BY <1>0, LeaveFresh DEF Start
    <3> QED
      BY <2>2, <2>3, <2>4, <3>2, <3>3, <3>4
  <2>5. CASE Bind(p)
    <3>1. UNCHANGED object /\ pc[p] = "bind"
      BY <2>5 DEF Bind
    <3>2. p \in Requests /\ JobOf[p] = "stream"
      BY <3>1 DEF StreamInv
    <3> QED
      BY <1>a, <1>b, <2>1, <3>1, <3>2
  <2>6. CASE ~Leave(p) /\ ~Listen(p) /\ ~Complete(p) /\ ~Bind(p)
    <3>1. /\ UNCHANGED <<closed, terminal, queue, scheduled, deleting>>
          /\ pc[p] \notin {"ended", "signal"}
      BY <1>2, <2>6 DEF Work, Start, Flag, Enter, Say, Save, Screen, StopTicket, Stop, Load, Count,
         Decide, Ticket, Commit, Dispatch, Audit, Offer, Finish, Signal
    <3>2. pc'[p] \notin {"bind", "listening"}
      <4>1. CASE Save(p) \/ Decide(p)
        <5>1. Save(p) => pc'[p] = me[p].back /\ me[p].back \notin {"bind", "listening"}
          BY <1>0, <2>6 DEF Save, LocalType
        <5>2. Decide(p) => \E o : pc'[p] \in {"commit", "ticket", Follow(o, Job(p) # "tool")}
          BY <1>0 DEF Decide
        <5> QED
          BY <4>1, <5>1, <5>2 DEF Follow, AfterWords
      <4>2. CASE Commit(p) \/ Audit(p)
        BY <1>0, <2>6, <4>2 DEF Commit, Audit, Proceed, SayThen, Follow, AfterWords
      <4>3. CASE Start(p) \/ Flag(p) \/ Enter(p) \/ Say(p) \/ Screen(p) \/ StopTicket(p)
        BY <1>0, <4>3 DEF Start, Flag, Enter, Say, Screen, StopTicket, SayThen
      <4>4. CASE Stop(p) \/ Load(p) \/ Count(p) \/ Ticket(p) \/ Dispatch(p) \/ Finish(p)
        BY <1>0, <4>4 DEF Stop, Load, Count, Ticket, Dispatch, Finish, SayThen
      <4> QED
        BY <1>2, <2>6, <4>1, <4>2, <4>3, <4>4 DEF Work, Offer, Signal
    <3>3. Coming => Coming'
      BY <1>0, <2>1, <3>1 DEF Coming
    <3> QED
      BY <1>a, <2>1, <3>1, <3>2, <3>3
  <2> QED
    BY <2>2, <2>3, <2>4, <2>5, <2>6
<1>3. CASE Announce \/ Announced \/ Poll
  <2>1. UNCHANGED object /\ \A q \in Procs \ {"poller"} : pc'[q] = pc[q]
    BY <1>0, <1>3, PollerMoves DEF Announce, Announced, Poll, Moved
  <2>2. pc'["poller"] \notin {"bind", "listening"} /\ pc["poller"] \notin {"ended", "signal"}
    BY <1>0, <1>3 DEF Announce, Announced, Poll, SayThen
  <2> QED
    BY <1>0, <1>a, <1>b, <2>1, <2>2
<1>4. CASE Delete \/ SignalClose
  <2>1. CASE Delete
    <3>1. Coming' /\ UNCHANGED pc
      BY <2>1 DEF Delete, Coming
    <3> QED
      BY <3>1 DEF StreamInv
  <2>2. CASE SignalClose
    <3>1. Has(queue', {End}) \/ Has(scheduled', {End, "drain"})
      BY <1>0, <2>2, PostComes DEF SignalClose, End
    <3>2. Coming' /\ UNCHANGED pc
      BY <2>2, <3>1 DEF SignalClose, Coming, Has
    <3> QED
      BY <3>2 DEF StreamInv
  <2> QED
    BY <1>4, <2>1, <2>2
<1>5. CASE Deliver
  <2>1. /\ scheduled # <<>> /\ queue' = Shown(Head(scheduled)) /\ scheduled' = Tail(scheduled)
        /\ UNCHANGED <<closed, terminal, deleting, pc>>
    BY <1>5 DEF Deliver
  <2>2. Head(scheduled) \in {"complete", End, "drain"} /\ Has(<<End>>, {End})
    BY <1>0, <2>1 DEF Has
  <2>3. CASE Head(scheduled) = "complete"
    <3>1. Has(queue, {End}) => Has(queue', {End})
      BY <1>0, <2>1, <2>3, HasStays DEF Shown
    <3>2. Has(scheduled, {End, "drain"}) => Has(scheduled', {End, "drain"})
      BY <1>0, <2>1, <2>3, HasStays DEF End
    <3>3. Coming => Coming'
      BY <2>1, <3>1, <3>2 DEF Coming, Has
    <3> QED
      BY <2>1, <3>3 DEF StreamInv
  <2>4. CASE Head(scheduled) # "complete"
    <3>1. Has(queue', {End})
      <4>1. CASE Head(scheduled) = "drain"
        BY <2>1, <2>2, <4>1 DEF Shown
      <4>2. CASE Head(scheduled) # "drain"
        <5>1. Head(scheduled) = End /\ queue' = Append(queue, End)
          BY <2>1, <2>2, <2>4, <4>2 DEF Shown
        <5>2. Has(Append(queue, End), {End})
          <6> DEFINE V == {End}
                     S == {"complete", End}
          <6>1. End \in S /\ End \in V /\ queue \in Seq(S)
            BY <1>0
          <6> HIDE DEF V, S
          <6>2. Has(Append(queue, End), V)
            BY <6>1, HasStays
          <6> QED
            BY <6>2 DEF V
        <5> QED
          BY <5>1, <5>2
      <4> QED
        BY <4>1, <4>2
    <3>2. Coming'
      BY <3>1 DEF Coming, Has
    <3> QED
      BY <2>1, <3>2 DEF StreamInv
  <2> QED
    BY <2>3, <2>4
<1>6. CASE Crash
  BY <1>6 DEF Crash, StreamInv
<1>7. CASE UNCHANGED vars
  BY <1>7 DEF vars, StreamInv, Coming
<1> QED
  BY <1>1, <1>2, <1>3, <1>4, <1>5, <1>6, <1>7 DEF Next, Running

\* The end of a session is on its way to the only stream that watches it, through
\* every order of the flag, the callbacks and a DELETE.
THEOREM StreamSeesEnd ==
  ASSUME OneStream
  PROVE  Spec => []StreamEnds
<1>1. Init => StreamInv
  BY DEF Init, StreamInv
<1>2. SessionInv /\ StreamInv /\ [Next]_vars => StreamInv'
  BY NextStream
<1>3. StreamInv => StreamEnds
  BY DEF StreamInv, StreamEnds, Watching, Job
<1> QED
  BY <1>1, <1>2, <1>3, AlwaysSession, PTL DEF Spec
=============================================================================
