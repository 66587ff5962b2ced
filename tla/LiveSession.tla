----------------------------- MODULE LiveSession -----------------------------
(***************************************************************************)
(* A live session on one case (operations/live_session.py) behind its HTTP *)
(* endpoints: requests run on threads of their own, each with its database *)
(* session; the object they share is in memory.  A request is a process,   *)
(* pc its next commit or its next look at what others change.  "poller" is *)
(* the thread that looks for payments once a stream is bound.              *)
(*                                                                         *)
(* The tool of a turn and its gate are those of AgentTools; what a payment *)
(* tool mints is PaymentArtifacts.  Of the events a stream shows, only the *)
(* last one and the end of the stream are kept.  Once a stream has bound   *)
(* the event loop, threads put nothing in its queue themselves: they       *)
(* schedule a callback, and the loop runs the callbacks in order.          *)
(***************************************************************************)
EXTENDS AgentTools, Sequences

CONSTANTS Requests,   \* requests the browser sends
          JobOf,      \* what each asks for
          Policy, Case,
          Prior,      \* dispatches an authored case begins with, by channel
          Choices,    \* tools the models may pick for a reply, or the client name
          Hush,       \* whether it is quiet hours, of the moments considered
          MaxEvents   \* bound: payments noticed, deletions and crashes together

Jobs == {"stream", "reply", "tool"}

\* _seed_prior_interventions: at most five of each are replayed.
Clipped(n) == Smaller(n, 5)

ASSUME LiveAssumption ==
  /\ IsFiniteSet(Requests) /\ JobOf \in [Requests -> Jobs] /\ "poller" \notin Requests
  /\ Policy \in PolicyType(Nat) /\ Case \in CaseType(Nat \ {0})
  /\ Prior \in [Channels -> Nat] /\ Choices \in [Jobs -> SUBSET Tools]
  /\ Hush \subseteq BOOLEAN /\ MaxEvents \in Nat

Procs == Requests \cup {"poller"}
Job(p) == IF p = "poller" THEN "poll" ELSE JobOf[p]
End == "END"

VARIABLES
  state, ticket, sent, thread, rang,        \* rows: sent counts the dispatch audits,
                                             \* thread has, of each message, its
                                             \* number and who wrote it,
                                             \* rang counts the calls that were offered
  started, closed, terminal, queue,          \* the session object
  scheduled, deleting,                       \* the callbacks the loop has yet to run, and
                                             \* whether DELETE is inside close()
  pc, opening, me,                           \* of each process
  events

rows   == <<state, ticket, sent, thread, rang>>
object == <<started, closed, terminal, queue, scheduled, deleting>>
vars   == <<rows, object, pc, opening, me, events>>

Undecided == Outcome("NONE", FALSE, "NONE", "NONE", FALSE)

\* What a process holds: the state it loaded, the audits it counted, what it
\* decided, whether it has words to send, where it goes after saying something,
\* and the number of the message it is about to write.
Fresh == [loaded |-> "NONE", seen |-> [c \in Channels |-> 0], decision |-> Undecided,
          body |-> FALSE, back |-> "done", seq |-> None]

Init ==
  /\ state = "PENDING" /\ ticket = FALSE /\ sent = [c \in Channels |-> Clipped(Prior[c])]
  /\ thread = {} /\ rang = 0
  /\ started = FALSE /\ closed = FALSE /\ terminal = FALSE /\ queue = <<>>
  /\ scheduled = <<>> /\ deleting = FALSE
  /\ pc = [p \in Procs |-> "new"] /\ opening = {} /\ me = [p \in Procs |-> Fresh]
  /\ events = 0

At(p, l)   == pc[p] = l
Goto(p, l) == pc' = [pc EXCEPT ![p] = l]

\* Where a process goes after an answer: the opening was only the start of it.
Opened(p) == IF Job(p) = "stream" THEN "bind" ELSE "entered"
Leave(p) == /\ Goto(p, IF p \in opening THEN Opened(p) ELSE IF p = "poller" THEN "new" ELSE "done")
            /\ opening' = opening \ {p} /\ me' = [me EXCEPT ![p] = Fresh]

Proceed(p, l) == IF l = "leave" THEN Leave(p) ELSE Goto(p, l) /\ UNCHANGED <<opening, me>>
SayThen(p, l) == Goto(p, "say") /\ me' = [me EXCEPT ![p].back = l]
-----------------------------------------------------------------------------
\* start(): the first stream or reply opens the case.  The flags are looked at and
\* set in two steps of one thread; a session is found until DELETE is through.
Begin(p) ==
  /\ At(p, "new") /\ p \in Requests /\ (closed => deleting)
  /\ Goto(p, CASE Job(p) = "tool" -> "count"
                [] Job(p) # "tool" /\ ~started /\ ~closed -> "starting"
                [] Job(p) # "tool" /\ (started \/ closed) -> Opened(p))
  /\ me' = IF Job(p) = "tool" THEN [me EXCEPT ![p].loaded = state] ELSE me
  /\ UNCHANGED <<rows, object, opening, events>>

Start(p) ==
  /\ At(p, "starting") /\ started' = TRUE /\ opening' = opening \cup {p} /\ Goto(p, "flag")
  /\ UNCHANGED <<rows, closed, terminal, queue, scheduled, deleting, me, events>>

\* _opening, up to its decision.
Flag(p) ==
  /\ At(p, "flag") /\ state' = "DIAGNOSING" /\ Goto(p, "load")
  /\ UNCHANGED <<ticket, sent, thread, rang, object, opening, me, events>>

\* After the opening a reply is taken in, unless the session is over.
\* Mutant of Over: a reply is taken in until the session is deleted.
OverWhenDeleted == closed
Over == closed \/ terminal
Enter(p) ==
  /\ At(p, "entered")
  /\ \/ Over  /\ Goto(p, "done") /\ UNCHANGED me
     \/ ~Over /\ SayThen(p, "heard")
  /\ UNCHANGED <<rows, object, opening, events>>

\* add_message: the last number is read, the next one written.  Two requests that
\* overlap may read the same one.
Numbers == {m[1] : m \in thread}
LastSeq == CHOOSE n \in Numbers : \A m \in Numbers : m <= n
\* Mutants of NextSeq: the first message has no number; the last number is taken.
NextSeqUnset(p) == IF thread = {} THEN None ELSE 1 + LastSeq
NextSeqSame(p)  == IF thread = {} THEN 0 ELSE LastSeq
NextSeq(p)      == IF thread = {} THEN 0 ELSE 1 + LastSeq
Say(p) ==
  /\ At(p, "say") /\ me' = [me EXCEPT ![p].seq = NextSeq(p)] /\ Goto(p, "saving")
  /\ UNCHANGED <<rows, object, opening, events>>
Save(p) ==
  /\ At(p, "saving") /\ thread' = thread \cup {<<me[p].seq, p>>}
  /\ IF me[p].back = "leave" THEN Leave(p)
     ELSE /\ Goto(p, me[p].back) /\ UNCHANGED opening
          /\ me' = [me EXCEPT ![p].seq = None]
  /\ UNCHANGED <<state, ticket, sent, rang, object, events>>
-----------------------------------------------------------------------------
\* The reply is read; a stop goes to _screened_stop.  (It is kept as the outcome of
\* a gate: the state it commits, and whether a ticket is queued.)
Screen(p) ==
  /\ At(p, "heard")
  /\ \/ Goto(p, "load") /\ UNCHANGED me
     \/ \E s \in {"ESCALATED", "CANCELLED"} :
          /\ me' = [me EXCEPT ![p].decision = Outcome("NONE", FALSE, s, "NONE", s = "ESCALATED")]
          /\ Goto(p, IF s = "ESCALATED" THEN "stop ticket" ELSE "stop")
  /\ UNCHANGED <<rows, object, opening, events>>
StopTicket(p) ==
  /\ At(p, "stop ticket") /\ ticket' = TRUE /\ Goto(p, "stop")
  /\ UNCHANGED <<state, sent, thread, rang, object, opening, me, events>>
Stop(p) ==
  /\ At(p, "stop") /\ state' = me[p].decision.state /\ SayThen(p, "finish")
  /\ UNCHANGED <<ticket, sent, thread, rang, object, opening, events>>

\* The case is loaded before the answer is drafted; the caps are counted when the
\* decision is asked for; the gate rules when the model has answered.
Load(p) ==
  /\ At(p, "load") /\ me' = [me EXCEPT ![p].loaded = state] /\ Goto(p, "count")
  /\ UNCHANGED <<rows, object, opening, events>>
Count(p) ==
  /\ At(p, "count") /\ me' = [me EXCEPT ![p].seen = sent] /\ Goto(p, "decide")
  /\ UNCHANGED <<rows, object, opening, events>>

Payload(tool) == [tool |-> tool, amount |-> None, deadline |-> NoDate]
CaseSeen(p) == [Case EXCEPT !.voice = me[p].seen["VOICE"], !.nudges = me[p].seen["WHATSAPP"]]

\* The opening takes the class default, a reply what the models pick; a client
\* names its tool and skips the proposal.
Ruled(p) ==
  {GateTool(Policy, CaseSeen(p),
            IF Job(p) = "tool" THEN Payload(t) ELSE Proposed(Policy, CaseSeen(p), Payload(t)),
            0, quiet) :
     t \in (IF p \in opening THEN {ClassDefault(Case.class)} ELSE Choices[Job(p)]), quiet \in Hush}

\* _apply_agent_decision: dispatch, or tell the customer, or close the session.
AfterWords(o) == IF o.state \in {"ESCALATED", "CANCELLED"} THEN "finish" ELSE "leave"
Follow(o, body) ==
  CASE o.allowed /\ ToolChannel[o.tool] # NoChannel -> "dispatch"
    [] body /\ o.allowed /\ o.tool \in Dispositive -> "say"
    [] body /\ o.state = "WAITING" /\ ~(o.allowed /\ ToolChannel[o.tool] # NoChannel) -> "say"
    [] OTHER -> AfterWords(o)

\* Mutant of CommitFirst: the ticket is left to whoever looks at the case.
CommitWithout(o) == o.state # "NONE"
CommitFirst(o) == o.state # "NONE" /\ ~o.ticket
Decide(p) ==
  /\ At(p, "decide")
  /\ \E o \in Ruled(p) :
       LET body == Job(p) # "tool"
       IN /\ me' = [me EXCEPT ![p].decision = o, ![p].body = body, ![p].back = AfterWords(o)]
          /\ Goto(p, CASE CommitFirst(o) -> "commit"
                       [] o.ticket /\ ~CommitFirst(o) -> "ticket"
                       [] OTHER -> Follow(o, body))
  /\ UNCHANGED <<rows, object, opening, events>>
Ticket(p) ==
  /\ At(p, "ticket") /\ ticket' = TRUE /\ Goto(p, "commit")
  /\ me' = [me EXCEPT ![p].loaded = "NONE"]     \* the commit expires what was loaded
  /\ UNCHANGED <<state, sent, thread, rang, object, opening, events>>

\* A column set to the value it was loaded with is not written.
WriteLoaded(p, s) == state' = Flush(me[p].loaded, s, state)
Commit(p) ==
  /\ At(p, "commit") /\ WriteLoaded(p, me[p].decision.state)
  /\ Proceed(p, Follow(me[p].decision, me[p].body))
  /\ UNCHANGED <<ticket, sent, thread, rang, object, events>>
-----------------------------------------------------------------------------
\* An allowed contact.  A payment tool has minted by now, and its commits expired
\* what was loaded.
Dispatch(p) ==
  /\ At(p, "dispatch") /\ Goto(p, "audit")
  /\ IF me[p].decision.tool \in PaymentTools THEN state' = "INTERVENING"
     ELSE WriteLoaded(p, "INTERVENING")
  /\ UNCHANGED <<ticket, sent, thread, rang, object, opening, me, events>>

\* Mutant of Counted: a tool the client named is not counted.
CountedIfSpoken(p) ==
  [sent EXCEPT ![ToolChannel[me[p].decision.tool]] = IF me[p].body THEN @ + 1 ELSE @]
Counted(p) == [sent EXCEPT ![ToolChannel[me[p].decision.tool]] = @ + 1]
Audit(p) ==
  LET offer == IF me[p].decision.tool = "VOICE_CALL" THEN "offer" ELSE "leave"
  IN /\ At(p, "audit") /\ sent' = Counted(p)
     /\ IF me[p].body THEN SayThen(p, offer) /\ UNCHANGED opening ELSE Proceed(p, offer)
     /\ UNCHANGED <<state, ticket, thread, rang, object, events>>

Offer(p) ==
  /\ At(p, "offer") /\ Leave(p) /\ rang' = rang + 1
  /\ UNCHANGED <<state, ticket, sent, thread, object, events>>

\* _finish: the state is committed, then the last event is told and the flag set, and
\* only then is the end of the stream sent off.
Finish(p) ==
  /\ At(p, "finish") /\ state' = me[p].decision.state /\ Goto(p, "complete")
  /\ UNCHANGED <<ticket, sent, thread, rang, object, opening, me, events>>

\* emit and _signal_end: by the loop, once there is one.  "drain" is signal_close:
\* what was not yet shown is dropped, and the end put in its place.
Bound == \E r \in Requests : Job(r) = "stream" /\ pc[r] \in {"listening", "ended"}
\* Mutant of Shown: closing empties the queue and leaves it empty.
ShownEmptied(item) == IF item = "drain" THEN <<>> ELSE Append(queue, item)
Shown(item) == IF item = "drain" THEN <<End>> ELSE Append(queue, item)
Post(item) == IF Bound THEN scheduled' = Append(scheduled, item) /\ UNCHANGED queue
                       ELSE queue' = Shown(item) /\ UNCHANGED scheduled
Deliver ==
  /\ scheduled # <<>> /\ queue' = Shown(Head(scheduled)) /\ scheduled' = Tail(scheduled)
  /\ UNCHANGED <<rows, started, closed, terminal, deleting, pc, opening, me, events>>

Complete(p) ==
  /\ At(p, "complete") /\ terminal' = TRUE /\ Goto(p, "signal")
  /\ IF closed THEN UNCHANGED <<queue, scheduled>> ELSE Post("complete")
  /\ UNCHANGED <<rows, started, closed, deleting, opening, me, events>>
Signal(p) ==
  /\ At(p, "signal") /\ Post(End) /\ Leave(p)
  /\ UNCHANGED <<rows, started, closed, terminal, deleting, events>>
-----------------------------------------------------------------------------
\* The poller notices a payment, of all or of a part, says so, and ends the session
\* of a paid case.
Minted == \/ sent["PAYMENT_LINK"] > 0
          \/ \E p \in Requests : At(p, "audit") /\ me[p].decision.tool \in PaymentTools
Poll ==
  /\ At("poller", "new") /\ Bound /\ Minted /\ ~closed /\ ~terminal /\ events < MaxEvents
  /\ state' \in {"RECOVERED", "WAITING"} /\ events' = events + 1 /\ Goto("poller", "announce")
  /\ UNCHANGED <<ticket, sent, thread, rang, object, opening, me>>
Announce ==
  /\ At("poller", "announce")
  /\ IF closed THEN Goto("poller", "new") /\ UNCHANGED me ELSE SayThen("poller", "announced")
  /\ UNCHANGED <<rows, object, opening, events>>
Announced ==
  /\ At("poller", "announced")
  /\ IF ~terminal /\ state = "RECOVERED"
     THEN Goto("poller", "finish") /\ me' = [me EXCEPT !["poller"].decision.state = "RECOVERED"]
     ELSE Goto("poller", "new") /\ me' = [me EXCEPT !["poller"] = Fresh]
  /\ UNCHANGED <<rows, object, opening, events>>

\* The stream binds the loop; then events in order until the end.
Bind(p) ==
  /\ At(p, "bind") /\ Goto(p, "listening") /\ UNCHANGED <<rows, object, opening, me, events>>
Listen(p) ==
  /\ At(p, "listening") /\ queue # <<>> /\ queue' = Tail(queue)
  /\ IF Head(queue) = End THEN Goto(p, "ended") ELSE UNCHANGED pc
  /\ UNCHANGED <<rows, started, closed, terminal, scheduled, deleting, opening, me, events>>

\* DELETE: close() sets the flag, then sends off signal_close; the session is removed.
Delete ==
  /\ ~closed /\ closed' = TRUE /\ deleting' = TRUE
  /\ events < MaxEvents /\ events' = events + 1
  /\ UNCHANGED <<rows, started, terminal, queue, scheduled, pc, opening, me>>
SignalClose ==
  /\ deleting /\ Post("drain") /\ deleting' = FALSE
  /\ UNCHANGED <<rows, started, closed, terminal, pc, opening, me, events>>

\* The process dies with every request under way; the theatre is opened again on
\* the same case: the requests yet to come find a new session.
Crash ==
  /\ events < MaxEvents /\ events' = events + 1
  /\ started' = FALSE /\ closed' = FALSE /\ terminal' = FALSE /\ queue' = <<>>
  /\ scheduled' = <<>> /\ deleting' = FALSE
  /\ pc' = [p \in Procs |-> IF p = "poller" \/ At(p, "new") THEN "new" ELSE "done"]
  /\ opening' = {} /\ me' = [p \in Procs |-> Fresh]
  /\ UNCHANGED rows

Work(p) ==
  \/ Start(p) \/ Flag(p) \/ Enter(p) \/ Say(p) \/ Save(p) \/ Screen(p) \/ StopTicket(p)
  \/ Stop(p) \/ Load(p) \/ Count(p) \/ Decide(p) \/ Ticket(p) \/ Commit(p) \/ Dispatch(p)
  \/ Audit(p) \/ Offer(p) \/ Finish(p) \/ Complete(p) \/ Signal(p)
  \/ Bind(p) \/ Listen(p)
Running == (\E p \in Procs : Work(p)) \/ Announce \/ Announced

Next == \/ (\E p \in Requests : Begin(p)) \/ Running \/ Deliver
        \/ Poll \/ Delete \/ SignalClose \/ Crash

Spec == Init /\ [][Next]_vars

-----------------------------------------------------------------------------
Labels == {"new", "starting", "flag", "load", "count", "decide", "ticket", "commit", "dispatch",
           "audit", "offer", "finish", "complete", "signal", "entered", "say", "saving", "heard",
           "stop ticket", "stop", "bind", "listening", "ended", "announce", "announced", "done"}

Outcomes ==
  [tool : Tools \cup {"NONE"}, allowed : BOOLEAN, ticket : BOOLEAN,
   state : {"NONE", "WAITING", "ESCALATED", "CANCELLED", "RECOVERED"},
   rule : {"NONE", "TRAI_QUIET_HOURS", "RBI_MAX_RETRIES", "VOICE_ATTEMPT_CAP"}]

LocalType ==
  [loaded : LifecycleStates \cup {"NONE"}, seen : [Channels -> Nat], decision : Outcomes,
   body : BOOLEAN, back : {"done", "heard", "finish", "offer", "leave", "announced"},
   seq : Nat \cup {None}]

TypeOK ==
  /\ state \in LifecycleStates /\ ticket \in BOOLEAN
  /\ sent \in [Channels -> Nat] /\ thread \subseteq Nat \X Procs /\ rang \in Nat
  /\ started \in BOOLEAN /\ closed \in BOOLEAN /\ terminal \in BOOLEAN
  /\ queue \in Seq({"complete", End}) /\ scheduled \in Seq({"complete", End, "drain"})
  /\ deleting \in BOOLEAN /\ opening \subseteq Requests
  /\ pc \in [Procs -> Labels] /\ me \in [Procs -> LocalType]
  /\ \A p \in Procs : At(p, "saving") => me[p].seq \in Nat
  /\ events \in 0..MaxEvents

\* A call that rings is in the audit trail the cap is counted from, whoever asked
\* for it and wherever the process dies.
CallsAudited == rang <= sent["VOICE"] - Clipped(Prior["VOICE"])

\* A case in the hands of a person has a ticket, also between the commits of a
\* stop and when requests overlap.
EscalatedHasTicket == state = "ESCALATED" => ticket

\* Two requests that overlap may give their messages one number (add_message's
\* "keeping seq monotonic" does not hold across them); but what one request says comes
\* after what it said before, and the numbers have no hole.
ThreadInOrder ==
  /\ \A p \in Procs : At(p, "saving") => \A m \in thread : m[2] = p => m[1] < me[p].seq
  /\ \A n \in Numbers : n = 0 \/ n - 1 \in Numbers

\* Once the session is over and nobody is on the way any more, replies change
\* nothing: only a tool the client names moves the case.
AtRest(p) == pc[p] \in {"new", "entered", "bind", "listening", "ended", "done"}
ByTool    == \E p \in Requests : Job(p) = "tool" /\ pc'[p] # pc[p]
Resting   == started /\ terminal /\ \A p \in Procs : AtRest(p) \/ Job(p) = "tool"
StopHolds == [][Resting => (UNCHANGED <<state, thread>> /\ Resting') \/ ByTool \/ Crash]_vars

\* An operator who watches a session that is over gets to its end.  The flag is seen
\* before the end is in the queue: until then the end is on its way, with the thread
\* that set the flag or among the callbacks, and no later drain, event or other
\* thread's end may lose it.
Watching(p) == Job(p) = "stream" /\ At(p, "listening")
Coming == \/ \E i \in DOMAIN queue : queue[i] = End
          \/ \E i \in DOMAIN scheduled : scheduled[i] \in {End, "drain"}
          \/ \E p \in Procs : At(p, "signal")
          \/ deleting
StreamEnds == (\E r \in Requests : Watching(r)) /\ (closed \/ terminal) => Coming

\* (live_session.py: "no LLM output can override either disposition".)  A reply
\* does not take up a case that was stopped while its answer was drafted.
StopNotOverridden ==
  [][\A p \in Requests :
       Job(p) = "reply" /\ terminal /\ state \in {"CANCELLED", "ESCALATED"}
         => ~(At(p, "dispatch") /\ pc'[p] = "audit" /\ state' = "INTERVENING")]_vars
=============================================================================
