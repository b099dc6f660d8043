------------------------------ MODULE Commands ------------------------------
(***************************************************************************)
(* The working life of the runtime bridge: approvals, nested server        *)
(* requests, configuration replay and the commands of the user interface.  *)
(* Stopping and its failures are the subject of Bridge; here a stop waits  *)
(* for the event worker and succeeds.                                      *)
(*                                                                         *)
(* The sidecar sends, for each approval, the notification the user         *)
(* interface shows and then the private request that carries the decision. *)
(* The event worker hands the request to the actor and waits for it to be  *)
(* registered; the actor answers the request when the user decides, when   *)
(* it expires, when its turn ends or when the generation ends.             *)
(***************************************************************************)
EXTENDS Naturals, Sequences, SequencesExt, FiniteSets

CONSTANTS
  ApprovalIds,             \* approval identities
  MaxRequests,     \* requests the sidecar sends (a bound of the model)
  IdOf(_),         \* the approval a request is about
  TurnOf(_),       \* the turn it belongs to
  ReplaySteps,     \* workspace/open, mcp/save ..., profile/save, profile/activate
  LaneCap,         \* INTERNAL_QUEUE_CAPACITY
  MaxPending,      \* MAX_PENDING_APPROVALS
  MaxRetired,      \* MAX_RETIRED_APPROVALS
  MaxGen           \* runtimes started (a bound of the model)

ASSUME CommandsAssumption ==
  /\ MaxRequests \in Nat /\ ReplaySteps \in Nat
  /\ {LaneCap, MaxPending, MaxRetired, MaxGen} \subseteq Nat \ {0}
  /\ \A n \in 1..MaxRequests : IdOf(n) \in ApprovalIds

Req == 1..MaxRequests
Turns == {TurnOf(n) : n \in Req}

VARIABLES
  gen,        \* generation of the running runtime, 0 when there is none
  nextGen,    \* next_generation
  current,    \* current_generation, which the worker compares with its own
  open,       \* the session accepts responses
  pump,       \* the session's event queue: req, ctl, data
  sent,       \* the requests sent: the generation of each
  announced,  \* the notification is out and its request is not
  ended,      \* turns the running sidecar has ended
  worker,     \* event_drain_loop: its generation, position, event, suppression
  lane,       \* the actor's signal lane
  ack,        \* the one-shot acknowledgement the worker waits for
  pending,    \* pending_approvals: the request an approval waits with, 0 if none
  retired,    \* retired_approval_order, oldest first
  replies,    \* the answers each request was given
  overdue,        \* requests whose expiresAt has passed
  fault,      \* TerminalFault: the generation it is published for, 0 if none
  actor,      \* position in actor_loop
  replayed    \* replay requests completed in this start

commandsVars == <<gen, nextGen, current, open, pump, sent, announced, ended, worker, lane, ack,
          pending, retired, replies, overdue, fault, actor, replayed>>

sidecarVars == <<open, pump, sent, announced, ended, overdue>>
actorVars == <<pending, retired, replies, ack>>
lifeVars == <<gen, nextGen, current, replayed>>

None == "none"
EmptyPump == [req |-> <<>>, ctl |-> <<>>, data |-> <<>>]
NoEvent == [kind |-> None, of |-> 0]
NoWorker == [g |-> 0, pc |-> "done", ev |-> NoEvent, suppress |-> FALSE, cancel |-> FALSE]

ActorAt == {"purge", "signals", "fault", "command", "busy", "replay", "stopping"}

CommandsTypeOK ==
  /\ gen \in 0..MaxGen /\ nextGen \in 1..(MaxGen + 1) /\ current \in 0..MaxGen
  /\ open \in BOOLEAN
  /\ sent \in Seq(1..MaxGen)
  /\ announced \in 0..MaxRequests /\ ended \subseteq Turns
  /\ worker.pc \in {"poll", "handle", "await", "done"}
  /\ Len(lane) <= LaneCap
  /\ ack \in {None, "true", "false"}
  /\ pending \in [ApprovalIds -> 0..MaxRequests]
  /\ Len(retired) <= MaxRetired
  /\ overdue \subseteq Req
  /\ fault \in 0..MaxGen
  /\ actor \in ActorAt
  /\ replayed \in 0..ReplaySteps

CommandsInit ==
  /\ gen = 0 /\ nextGen = 1 /\ current = 0 /\ open = FALSE
  /\ pump = EmptyPump /\ sent = <<>> /\ announced = 0 /\ ended = {}
  /\ worker = NoWorker /\ lane = <<>> /\ ack = None
  /\ pending = [i \in ApprovalIds |-> 0] /\ retired = <<>>
  /\ replies = [n \in Req |-> <<>>]
  /\ overdue = {} /\ fault = 0
  /\ actor = "purge" /\ replayed = 0

(***************************************************************************)
(* The sidecar and the clock.                                              *)
(***************************************************************************)
\* In a turn of a running generation the sidecar announces an approval:
\* approval/requested goes to the data lane of the event queue.
Announce ==
  /\ open /\ gen # 0 /\ announced = 0 /\ Len(sent) < MaxRequests
  /\ TurnOf(Len(sent) + 1) \notin ended
  /\ announced' = Len(sent) + 1
  /\ pump' = [pump EXCEPT !.data = Append(@, Len(sent) + 1)]
  /\ UNCHANGED <<lifeVars, open, sent, ended, overdue, worker, lane, actorVars, fault, actor>>

\* Then it sends the private request.
SendRequest ==
  /\ open /\ announced # 0
  /\ sent' = Append(sent, gen)
  /\ announced' = 0
  /\ pump' = [pump EXCEPT !.req = Append(@, announced)]
  /\ UNCHANGED <<lifeVars, open, ended, overdue, worker, lane, actorVars, fault, actor>>

\* It ends a turn: turn/completed takes the control lane.
EndTurn(t) ==
  /\ open /\ announced = 0 /\ t \notin ended
  /\ \E n \in DOMAIN sent : TurnOf(n) = t /\ sent[n] = gen
  /\ ended' = ended \cup {t}
  /\ pump' = [pump EXCEPT !.ctl = Append(@, [kind |-> "turn", of |-> t])]
  /\ UNCHANGED <<lifeVars, open, sent, announced, overdue, worker, lane, actorVars, fault, actor>>

\* The session closes under the bridge: requests and data are dropped, the ends
\* of turns stay and the terminal fact follows them.
SessionDies ==
  /\ open
  /\ open' = FALSE /\ announced' = 0
  /\ pump' = [EmptyPump EXCEPT !.ctl = Append(pump.ctl, [kind |-> "eof", of |-> 0])]
  /\ UNCHANGED <<lifeVars, sent, ended, overdue, worker, lane, actorVars, fault, actor>>

\* The host clock passes a request's expiresAt.
ApprovalExpires(n) ==
  /\ n \in DOMAIN sent /\ n \notin overdue /\ replies[n] = <<>>
  /\ overdue' = overdue \cup {n}
  /\ UNCHANGED <<lifeVars, open, pump, sent, announced, ended, worker, lane, actorVars, fault, actor>>

(***************************************************************************)
(* The event worker.                                                       *)
(***************************************************************************)
EventIsCurrent == ~worker.cancel /\ current = worker.g

\* TerminalFault::publish, and the worker ends.
Publish == fault' = worker.g /\ worker' = [worker EXCEPT !.pc = "done", !.ev = NoEvent]

\* What EventQueue::pop may return: server requests before control facts, data
\* last unless a burst of control events has run its length.
Poppable ==
  IF pump.req # <<>> THEN {"req"} \cup (IF pump.data = <<>> THEN {} ELSE {"data"})
  ELSE IF pump.ctl # <<>> THEN {"ctl"} \cup (IF pump.data = <<>> THEN {} ELSE {"data"})
  ELSE IF pump.data # <<>> THEN {"data"} ELSE {}

Popped(q) ==
  CASE q = "req"  -> [kind |-> "request", of |-> Head(pump.req)]
    [] q = "ctl"  -> Head(pump.ctl)
    [] q = "data" -> [kind |-> "notification", of |-> Head(pump.data)]

\* One turn of event_drain_loop up to next_event.
WorkerPoll ==
  /\ worker.pc = "poll"
  /\ IF ~EventIsCurrent
     THEN worker' = [worker EXCEPT !.pc = "done"] /\ UNCHANGED pump
     ELSE \E q \in Poppable :
            /\ worker' = [worker EXCEPT !.pc = "handle", !.ev = Popped(q)]
            /\ pump' = [pump EXCEPT ![q] = Tail(@)]
  /\ UNCHANGED <<lifeVars, open, sent, announced, ended, overdue, lane, actorVars, fault, actor>>

\* queue_approval_request, queue_turn_terminal: a full lane ends the generation.
Offer(kind, of, pc) ==
  IF Len(lane) < LaneCap
  THEN /\ lane' = Append(lane, [g |-> worker.g, kind |-> kind, of |-> of])
       /\ worker' = [worker EXCEPT !.pc = pc, !.ev = IF pc = "poll" THEN NoEvent ELSE @]
       /\ UNCHANGED fault
  ELSE Publish /\ UNCHANGED lane

\* The event is dropped when the generation has moved on since the poll.
WorkerStale ==
  /\ worker.pc = "handle" /\ ~EventIsCurrent
  /\ worker' = [worker EXCEPT !.pc = "done", !.ev = NoEvent]
  /\ UNCHANGED <<lifeVars, sidecarVars, lane, actorVars, fault, actor>>

\* A notification is shown, or swallowed when its request was refused; a
\* projection failure ends the generation.
WorkerShows ==
  /\ worker.pc = "handle" /\ EventIsCurrent /\ worker.ev.kind = "notification"
  /\ \/ /\ worker.suppress
        /\ worker' = [worker EXCEPT !.pc = "poll", !.ev = NoEvent, !.suppress = FALSE]
        /\ UNCHANGED fault
     \/ /\ ~worker.suppress
        /\ worker' = [worker EXCEPT !.pc = "poll", !.ev = NoEvent]
        /\ UNCHANGED fault
     \/ ~worker.suppress /\ Publish
  /\ UNCHANGED <<lifeVars, sidecarVars, lane, actorVars, actor>>

\* A request goes to the actor and the worker waits for its registration.
WorkerForwards ==
  /\ worker.pc = "handle" /\ EventIsCurrent /\ worker.ev.kind = "request"
  /\ Offer("approval", worker.ev.of, "await")
  /\ UNCHANGED <<lifeVars, sidecarVars, actorVars, actor>>

\* turn/completed is projected and passed on.
WorkerEndsTurn ==
  /\ worker.pc = "handle" /\ EventIsCurrent /\ worker.ev.kind = "turn"
  /\ Offer("turn", worker.ev.of, "poll")
  /\ UNCHANGED <<lifeVars, sidecarVars, actorVars, actor>>

\* EOF, a protocol fault or the sidecar's exit.
WorkerSeesEnd ==
  /\ worker.pc = "handle" /\ EventIsCurrent /\ worker.ev.kind = "eof"
  /\ Publish
  /\ UNCHANGED <<lifeVars, sidecarVars, lane, actorVars, actor>>

WorkerAcked ==
  /\ worker.pc = "await" /\ ack # None
  /\ worker' = [worker EXCEPT !.pc = "poll", !.ev = NoEvent, !.suppress = @ \/ ack = "false"]
  /\ ack' = None
  /\ UNCHANGED <<lifeVars, sidecarVars, lane, pending, retired, replies, fault, actor>>

\* APPROVAL_REGISTRATION_TIMEOUT passes before the actor answers.
WorkerGivesUp ==
  /\ worker.pc = "await" /\ ack = None
  /\ Publish
  /\ UNCHANGED <<lifeVars, sidecarVars, lane, actorVars, actor>>

(***************************************************************************)
(* The actor's approval ledger.                                            *)
(***************************************************************************)
\* record_retired_approval on each of a set of approvals (the map's order).
Remember(order, ids) ==
  LET all == order \o SetToSeq({i \in ids : ~Contains(order, i)})
  IN  SubSeq(all, 1 + (IF Len(all) > MaxRetired THEN Len(all) - MaxRetired ELSE 0), Len(all))

\* Mutant: approvals are retired without an answer.
RetireSilently(ids, answer) ==
  /\ pending' = [i \in ApprovalIds |-> IF i \in ids THEN 0 ELSE pending[i]]
  /\ retired' = Remember(retired, ids)
  /\ UNCHANGED replies

\* Retire approvals and answer their requests, which needs an open session.
Retire(ids, answer) ==
  /\ pending' = [i \in ApprovalIds |-> IF i \in ids THEN 0 ELSE pending[i]]
  /\ retired' = Remember(retired, ids)
  /\ replies' = [n \in Req |-> IF open /\ \E i \in ids : pending[i] = n
                               THEN Append(replies[n], answer) ELSE replies[n]]

Answer(n, answer) ==
  replies' = IF open THEN [replies EXCEPT ![n] = Append(@, answer)] ELSE replies

Overdue == {i \in ApprovalIds : pending[i] \in overdue}
Waiting == {i \in ApprovalIds : pending[i] # 0}

\* The acknowledgement, lost when the worker has given up.
Ack(n, accepted) ==
  ack' = IF worker.pc = "await" /\ worker.ev.of = n THEN accepted ELSE ack

\* register_approval_request: accepted, or answered with its refusal.
Refusal(n, valid) ==
  IF Cardinality(Waiting) >= MaxPending THEN "resolved"
  ELSE IF ~valid THEN "invalid"
  ELSE IF pending[IdOf(n)] # 0 \/ Contains(retired, IdOf(n)) THEN "resolved"
  ELSE None

RegisterApproval(n) == \E valid \in BOOLEAN :
  IF open /\ Refusal(n, valid) = None
  THEN /\ pending' = [pending EXCEPT ![IdOf(n)] = n]
       /\ Ack(n, "true")
       /\ UNCHANGED replies
  ELSE Ack(n, "false") /\ Answer(n, Refusal(n, valid)) /\ UNCHANGED pending

\* drain_signals begins by purging what has expired.
ActorPurges ==
  /\ actor = "purge"
  /\ actor' = "signals"
  /\ IF gen = 0 THEN UNCHANGED <<pending, retired, replies>> ELSE Retire(Overdue, "expired")
  /\ UNCHANGED <<lifeVars, sidecarVars, worker, lane, ack, fault>>

\* One signal; those of another generation change nothing but their answer.
ActorTakesSignal ==
  /\ actor = "signals" /\ lane # <<>>
  /\ LET s == Head(lane) IN
       /\ lane' = Tail(lane)
       /\ CASE s.kind = "approval" /\ s.g = gen ->
                 RegisterApproval(s.of) /\ UNCHANGED retired
            [] s.kind = "approval" /\ s.g # gen ->
                 Ack(s.of, "false") /\ UNCHANGED <<pending, retired, replies>>
            [] s.kind = "turn" /\ s.g = gen ->
                 Retire({i \in Waiting : TurnOf(pending[i]) = s.of}, "not_found")
                 /\ UNCHANGED ack
            [] s.kind = "turn" /\ s.g # gen -> UNCHANGED actorVars
  /\ UNCHANGED <<lifeVars, sidecarVars, worker, fault, actor>>

ActorLaneEmpty ==
  /\ actor = "signals" /\ lane = <<>>
  /\ actor' = "fault"
  /\ UNCHANGED <<lifeVars, sidecarVars, worker, lane, actorVars, fault>>

(***************************************************************************)
(* Ending a generation: approvals are cleared, the worker is told, the     *)
(* session is closed and the worker joined.                                *)
(***************************************************************************)
BeginStop ==
  /\ current' = 0 /\ fault' = 0
  /\ Retire(Waiting, "not_found")
  /\ worker' = [worker EXCEPT !.cancel = TRUE]
  /\ actor' = "stopping"
  /\ UNCHANGED <<gen, nextGen, replayed, sidecarVars, lane, ack>>

\* supervisor.shutdown_until closes the session.
SessionStopped ==
  /\ actor = "stopping" /\ open
  /\ open' = FALSE /\ pump' = EmptyPump /\ announced' = 0
  /\ UNCHANGED <<lifeVars, sent, ended, overdue, worker, lane, actorVars, fault, actor>>

\* drain_terminal_fault acts on a fault of the running generation only.
ActorFault ==
  /\ actor = "fault"
  /\ \/ gen # 0 /\ fault = gen /\ BeginStop
     \/ /\ ~(gen # 0 /\ fault = gen)
        /\ actor' = "command"
        /\ UNCHANGED <<lifeVars, sidecarVars, worker, lane, actorVars, fault>>

ActorStopped ==
  /\ actor = "stopping" /\ ~open /\ worker.pc = "done"
  /\ gen' = 0 /\ replayed' = 0
  /\ retired' = <<>>
  /\ actor' = "purge"
  /\ UNCHANGED <<nextGen, current, sidecarVars, worker, lane, pending, replies,
                 ack, fault>>

(***************************************************************************)
(* Commands.                                                               *)
(***************************************************************************)
\* Mutant: the approval stays in the map after its decision was sent.
ActorRespondsKeeps(wanted) ==
  /\ actor = "command" /\ gen # 0 /\ open /\ pending[wanted] # 0
  /\ replies' = [replies EXCEPT ![pending[wanted]] = Append(@, "decision")]
  /\ actor' = "purge"
  /\ UNCHANGED <<lifeVars, sidecarVars, pending, retired, worker, lane, ack, fault>>

\* respond_approval, for an approval that is shown, stale or unknown (the user
\* interface may answer any, and call() queues it): purge, look up, answer, and
\* only then retire; a response the writer refuses closes the session and
\* leaves the approval pending.
ActorResponds(wanted) ==
  /\ actor = "command"
  /\ actor' = "purge"
  /\ LET live == [i \in ApprovalIds |-> IF i \in Overdue THEN 0 ELSE pending[i]]
         gone == Remember(retired, Overdue)
         n    == live[wanted]
         late == [m \in Req |-> IF open /\ \E i \in Overdue : pending[i] = m
                                THEN Append(replies[m], "expired") ELSE replies[m]]
     IN  \/ /\ gen # 0 /\ n # 0 /\ open
            /\ pending' = [live EXCEPT ![wanted] = 0]
            /\ retired' = Remember(gone, {wanted})
            /\ replies' = [late EXCEPT ![n] = Append(@, "decision")]
            /\ UNCHANGED <<open, pump, announced>>
         \/ /\ gen # 0 /\ n # 0 /\ open
            /\ pending' = live /\ retired' = gone /\ replies' = late
            /\ open' = FALSE /\ announced' = 0
            /\ pump' = [EmptyPump EXCEPT !.ctl = <<[kind |-> "eof", of |-> 0]>>]
         \/ /\ gen # 0 /\ (n = 0 \/ ~open)
            /\ pending' = live /\ retired' = gone /\ replies' = late
            /\ UNCHANGED <<open, pump, announced>>
         \/ gen = 0 /\ UNCHANGED <<pending, retired, replies, open, pump, announced>>
  /\ UNCHANGED <<lifeVars, sent, ended, overdue, worker, lane, ack, fault>>

\* turn_runtime, turn_cancel_runtime, history_request_runtime: the actor waits
\* for the sidecar's answer; mcp/test also serves nested requests meanwhile.
ActorCalls ==
  /\ actor = "command" /\ gen # 0
  /\ actor' = "busy"
  /\ UNCHANGED <<lifeVars, sidecarVars, worker, lane, actorVars, fault>>

\* The answer, a refusal or the deadline ends the wait.
ActorCallEnds ==
  /\ actor = "busy"
  /\ actor' = "purge"
  /\ UNCHANGED <<lifeVars, sidecarVars, worker, lane, actorVars, fault>>

\* The handler that mcp/test installs takes any server request of the queue;
\* only secret/resolve is known to it.
NestedHandler ==
  /\ actor = "busy" /\ pump.req # <<>>
  /\ pump' = [pump EXCEPT !.req = Tail(@)]
  /\ Answer(Head(pump.req), "method_not_found")
  /\ UNCHANGED <<lifeVars, open, sent, announced, ended, overdue, worker, lane, pending, retired,
                 ack, fault, actor>>

\* stop_runtime by command.
ActorStops ==
  /\ actor = "command" /\ gen # 0
  /\ BeginStop

\* start_runtime opens a session and replays the configuration.
ActorStarts ==
  /\ actor = "command" /\ gen = 0 /\ nextGen <= MaxGen
  /\ open' = TRUE /\ pump' = EmptyPump
  /\ replayed' = 0 /\ ended' = {}
  /\ actor' = "replay"
  /\ UNCHANGED <<gen, nextGen, current, sent, announced, overdue, worker, lane, actorVars, fault>>

\* replay_request succeeds: the next step is admitted only now.
ReplayStep ==
  /\ actor = "replay" /\ open /\ replayed < ReplaySteps
  /\ replayed' = replayed + 1
  /\ UNCHANGED <<gen, nextGen, current, sidecarVars, worker, lane, actorVars, fault,
                 actor>>

\* It fails, is refused or runs out of time: the start is undone.
ReplayFails ==
  /\ actor = "replay"
  /\ open' = FALSE /\ pump' = EmptyPump /\ announced' = 0
  /\ replayed' = 0
  /\ actor' = "purge"
  /\ UNCHANGED <<gen, nextGen, current, sent, ended, overdue, worker, lane, actorVars, fault>>

\* The generation is published and its worker spawned; when Ready cannot be
\* projected the new runtime is stopped at once.
Started(projected) ==
  /\ actor = "replay" /\ replayed = ReplaySteps
  /\ gen' = nextGen /\ nextGen' = nextGen + 1
  /\ current' = IF projected THEN nextGen ELSE 0
  /\ worker' = [NoWorker EXCEPT !.g = nextGen, !.pc = "poll", !.cancel = ~projected]
  /\ fault' = 0
  /\ actor' = IF projected THEN "purge" ELSE "stopping"
  /\ replayed' = 0
  /\ UNCHANGED <<sidecarVars, lane, actorVars>>

\* recv_timeout returns without a command.
ActorIdles ==
  /\ actor = "command"
  /\ actor' = "purge"
  /\ UNCHANGED <<lifeVars, sidecarVars, worker, lane, actorVars, fault>>

-----------------------------------------------------------------------------
Worker ==
  \/ WorkerPoll \/ WorkerStale \/ WorkerShows \/ WorkerForwards \/ WorkerEndsTurn
  \/ WorkerSeesEnd \/ WorkerAcked \/ WorkerGivesUp

Actor ==
  \/ ActorPurges \/ ActorTakesSignal \/ ActorLaneEmpty \/ ActorFault \/ SessionStopped \/ ActorStopped
  \/ (\E i \in ApprovalIds : ActorResponds(i)) \/ ActorCalls \/ ActorCallEnds
  \/ NestedHandler \/ ActorStops \/ ActorStarts \/ ReplayStep \/ ReplayFails
  \/ (\E projected \in BOOLEAN : Started(projected))
  \/ ActorIdles

Environment ==
  \/ Announce \/ SendRequest \/ SessionDies
  \/ \E t \in Turns : EndTurn(t)
  \/ \E n \in Req : ApprovalExpires(n)

CommandsNext == Worker \/ Actor \/ Environment

CommandsSpec == CommandsInit /\ [][CommandsNext]_commandsVars

\* Threads run, the actor's waits have deadlines and every expiresAt passes.
CommandsFairSpec ==
  /\ CommandsSpec
  /\ WF_commandsVars(Worker) /\ WF_commandsVars(Actor)
  /\ \A n \in Req : WF_commandsVars(ApprovalExpires(n))

-----------------------------------------------------------------------------
(***************************************************************************)
(* Properties.                                                             *)
(***************************************************************************)
\* No private request is answered twice: the decision, expiry, the end of the
\* turn, the end of the generation and a refusal exclude each other
\* (methods.md: approval/request is exactly-once).
OneAnswer == \A n \in Req : Len(replies[n]) <= 1

\* Request n was sent by the sidecar that now runs.
IsLive(n) == n \in DOMAIN sent /\ gen # 0 /\ sent[n] = gen

\* A request the worker took is never forgotten while its session is served:
\* unanswered, it is in the worker's hands, in the lane or in the map, or the
\* generation is about to be torn down for it.
RequestNotForgotten ==
  \A n \in DOMAIN sent :
    (open /\ IsLive(n) /\ replies[n] = <<>>) =>
      \/ Contains(pump.req, n)
      \/ worker.ev = [kind |-> "request", of |-> n]
      \/ \E k \in DOMAIN lane : lane[k].kind = "approval" /\ lane[k].of = n
      \/ \E i \in ApprovalIds : pending[i] = n
      \/ fault = gen \/ actor = "stopping"

\* What waits for a decision belongs to the running generation, and no approval
\* waits while a tombstone says it was resolved: a late signal or a repeated
\* identity never opens a second decision.
PendingIsFresh ==
  \A i \in ApprovalIds : pending[i] # 0 =>
    gen # 0 /\ sent[pending[i]] = gen /\ ~Contains(retired, i)

\* The map of pending approvals, the tombstones and the answers agree
\* (bridge.rs, register_approval_request, respond_approval, retire_approval).
ApprovalsAgree == CommandsTypeOK /\ OneAnswer /\ RequestNotForgotten /\ PendingIsFresh

\* Every request the sidecar waits for is answered or its session ends: a
\* busy actor, a full lane or a lost registration never leaves it waiting.
RequestIsSettled ==
  \A n \in Req :
    (open /\ IsLive(n) /\ replies[n] = <<>>) ~> (~open \/ ~IsLive(n) \/ replies[n] # <<>>)
=============================================================================
