----------------------------- MODULE EventQueue -----------------------------
(***************************************************************************)
(* Inbound events of one sidecar session: EventQueue (events.rs), the      *)
(* push_event / fail_closed protocol of its producers (wire.rs,            *)
(* session.rs) and the ledger of server requests (InboundServerRequests).  *)
(*                                                                         *)
(* Producers are threads: the stdout reader, the stderr reader, the exit   *)
(* monitor, the stdin writer and a client thread that answers requests.    *)
(* Each runs push_event as separate steps: look at the closed flag, push   *)
(* under the queue lock, look at the fatal flag, close the session.  The   *)
(* event pump and a nested handler take events concurrently.  An event is  *)
(* its kind, with an id for a server request.                              *)
(***************************************************************************)
EXTENDS Integers, Sequences, FiniteSets

CONSTANTS Ids,             \* server request ids the sidecar may use, and reuse
          Size,            \* event_size by kind
          ControlCap,      \* CONTROL_QUEUE_CAPACITY
          DataCap,         \* data_capacity
          MaxControlBytes, \* control_queue_byte_budget
          MaxDataBytes,    \* MAX_EVENT_QUEUE_BYTES
          MaxBurst,        \* MAX_EVENT_CONTROL_BURST
          MaxInbound,      \* max_server_requests
          MaxLedger,       \* MAX_INBOUND_SERVER_REQUEST_LEDGER
          MaxPushes        \* bound: frames and lines the sidecar emits

Kind == {"request", "status", "turn", "fault", "notice", "delta", "stderr"}
DataKind == {"delta", "stderr"}
Producers == {"reader", "stderr", "monitor", "writer", "client"}
NoId == 0

ASSUME SizeAssumption == Size \in [Kind -> Nat \ {0}]
ASSUME LimitsAssumption == {ControlCap, DataCap, MaxControlBytes, MaxDataBytes} \subseteq Nat

VARIABLES
  requests, control, data,  \* the three queues
  reqBytes, ctlBytes, dataBytes,
  fatal,           \* state.fatal is set
  fatalReported,
  dropReported,    \* data_overflow_reported
  burst,           \* control_burst
  queueClosed,     \* state.closed
  closePhase,      \* the session: "closing" until events.close() ran
  ppc,             \* where each producer is in push_event
  hand,            \* the event it pushes
  closes,          \* it calls fail_closed afterwards
  pushes,          \* events produced so far
  active, seen,    \* InboundServerRequests
  held,            \* ids handed to a consumer
  noticed,         \* the client reported its data overflow once
  answers,         \* history: responses queued per id
  overflowed,      \* history: a control event was refused
  dropped,         \* history: a data event was refused
  turnsIn, turnsOut, noticesOut  \* history: accepted and delivered

queues == <<requests, control, data, reqBytes, ctlBytes, dataBytes>>
flags == <<fatal, fatalReported, dropReported, burst, queueClosed>>
threads == <<ppc, hand, closes, pushes>>
ledger == <<active, seen, held, noticed, answers>>
history == <<overflowed, dropped, turnsIn, turnsOut, noticesOut>>
vars == <<queues, flags, closePhase, threads, ledger, history>>

Event(kind, id) == [kind |-> kind, id |-> id]
Closed == closePhase # "open"
IsTerminal(e) == e.kind \in {"fault", "turn"}
\* Running(q)[n] is the size of the first n events of q.
Running(q) ==
  LET sum[n \in 0..Len(q)] == IF n = 0 THEN 0 ELSE sum[n - 1] + Size[q[n].kind]
  IN sum
Bytes(q) == Running(q)[Len(q)]
SatSub(a, b) == IF a >= b THEN a - b ELSE 0

Init ==
  /\ requests = << >> /\ control = << >> /\ data = << >>
  /\ reqBytes = 0 /\ ctlBytes = 0 /\ dataBytes = 0
  /\ fatal = FALSE /\ fatalReported = FALSE /\ dropReported = FALSE
  /\ burst = 0 /\ queueClosed = FALSE
  /\ closePhase = "open"
  /\ ppc = [p \in Producers |-> "idle"]
  /\ hand = [p \in Producers |-> Event("fault", NoId)]
  /\ closes = [p \in Producers |-> FALSE]
  /\ pushes = 0
  /\ active = {} /\ seen = {} /\ held = {} /\ noticed = FALSE
  /\ answers = [id \in Ids |-> 0]
  /\ overflowed = FALSE /\ dropped = FALSE
  /\ turnsIn = 0 /\ turnsOut = 0 /\ noticesOut = 0

-----------------------------------------------------------------------------
(* What each producer brings to push_event.                                *)

Bring(p, label, e, closing) ==
  /\ ppc[p] = "idle"
  /\ pushes < MaxPushes
  /\ pushes' = pushes + 1
  /\ ppc' = [ppc EXCEPT ![p] = label]
  /\ hand' = [hand EXCEPT ![p] = e]
  /\ closes' = [closes EXCEPT ![p] = closing]

\* dispatch_frame of a notification, or a frame, end of file or response that
\* ends the session.  The loop tests the closed flag before it reads.
ReaderBrings ==
  /\ ~Closed
  /\ \E k \in {"status", "turn", "delta", "fault"} :
       Bring("reader", "entry", Event(k, NoId), k = "fault")
  /\ UNCHANGED <<queues, flags, closePhase, ledger, history>>

\* InboundServerRequests::register.
MayRegisterAgain(id) == id \notin active /\ Cardinality(active) < MaxInbound
MayRegister(id) ==
  id \notin seen /\ Cardinality(active) < MaxInbound /\ Cardinality(seen) < MaxLedger

\* dispatch_frame of a server request.
ReaderBringsRequest(id) ==
  /\ ~Closed
  /\ IF MayRegister(id)
       THEN /\ Bring("reader", "entry", Event("request", id), FALSE)
            /\ active' = active \cup {id}
            /\ seen' = seen \cup {id}
       ELSE /\ Bring("reader", "entry", Event("fault", NoId), TRUE)
            /\ UNCHANGED <<active, seen>>
  /\ UNCHANGED <<queues, flags, closePhase, held, noticed, answers, history>>

\* The stderr reader drains its pipe whether or not the session is closed.
StderrBrings ==
  /\ Bring("stderr", "entry", Event("stderr", NoId), FALSE)
  /\ UNCHANGED <<queues, flags, closePhase, ledger, history>>

\* report_process_exit and report_process_fault, once.
MonitorBrings ==
  /\ Bring("monitor", "entry", Event("fault", NoId), TRUE)
  /\ UNCHANGED <<queues, flags, closePhase, ledger, history>>

\* A failed or timed out write: pushed without push_event's closed test.
WriterBrings ==
  /\ Bring("writer", "push", Event("fault", NoId), TRUE)
  /\ UNCHANGED <<queues, flags, closePhase, ledger, history>>

\* respond: the ledger is consumed, then the frame is queued for the writer.
MayAnswer(id) == id \in active

Respond(id) ==
  /\ id \in held
  /\ ppc["client"] = "idle"
  /\ ~Closed
  /\ MayAnswer(id)
  /\ active' = active \ {id}
  /\ \/ /\ answers' = [answers EXCEPT ![id] = @ + 1]
        /\ UNCHANGED threads
     \/ /\ Bring("client", "entry", Event("fault", NoId), TRUE)
        /\ UNCHANGED answers
  /\ UNCHANGED <<queues, flags, closePhase, seen, held, noticed, history>>

\* handle_writer_error of a full data lane, reported once per session.
ClientOverflow ==
  /\ ~noticed
  /\ noticed' = TRUE
  /\ Bring("client", "entry", Event("notice", NoId), FALSE)
  /\ UNCHANGED <<queues, flags, closePhase, active, seen, held, answers, history>>

-----------------------------------------------------------------------------
(* push_event and fail_closed.                                             *)

Goto(p, label) == ppc' = [ppc EXCEPT ![p] = label] /\ UNCHANGED <<hand, closes, pushes>>

Enter(p) ==
  /\ ppc[p] = "entry"
  /\ Goto(p, IF ~Closed \/ IsTerminal(hand[p]) THEN "push"
             ELSE IF closes[p] THEN "failclosed" ELSE "idle")
  /\ UNCHANGED <<queues, flags, closePhase, ledger, history>>

\* EventQueue::push.
ControlFull(size) ==
  Len(control) >= ControlCap \/ reqBytes + ctlBytes + size > MaxControlBytes

Refused(e) ==
  CASE e.kind = "request" ->
         Len(requests) >= ControlCap \/ reqBytes + ctlBytes + Size[e.kind] > MaxControlBytes
    [] e.kind \in DataKind ->
         Len(data) >= DataCap \/ dataBytes + Size[e.kind] > MaxDataBytes
    [] OTHER -> ControlFull(Size[e.kind])

Accept(e) ==
  /\ requests' = IF e.kind = "request" THEN Append(requests, e) ELSE requests
  /\ reqBytes' = IF e.kind = "request" THEN reqBytes + Size[e.kind] ELSE reqBytes
  /\ data' = IF e.kind \in DataKind THEN Append(data, e) ELSE data
  /\ dataBytes' = IF e.kind \in DataKind THEN dataBytes + Size[e.kind] ELSE dataBytes
  /\ control' = IF e.kind \notin DataKind \cup {"request"} THEN Append(control, e) ELSE control
  /\ ctlBytes' = IF e.kind \notin DataKind \cup {"request"} THEN ctlBytes + Size[e.kind]
                                                            ELSE ctlBytes
  /\ turnsIn' = IF e.kind = "turn" THEN turnsIn + 1 ELSE turnsIn
  /\ UNCHANGED <<flags, overflowed, dropped>>

\* The first refused data event leaves a notice, or is fatal when that does not
\* fit either; later ones are dropped under the same notice.
DropData ==
  /\ dropReported' = TRUE
  /\ dropped' = TRUE
  /\ IF dropReported
       THEN UNCHANGED <<control, ctlBytes, fatal, overflowed>>
       ELSE IF ControlFull(Size["notice"])
              THEN fatal' = TRUE /\ overflowed' = TRUE /\ UNCHANGED <<control, ctlBytes>>
              ELSE /\ control' = Append(control, Event("notice", NoId))
                   /\ ctlBytes' = ctlBytes + Size["notice"]
                   /\ UNCHANGED <<fatal, overflowed>>
  /\ UNCHANGED <<requests, data, reqBytes, dataBytes, fatalReported, burst, queueClosed, turnsIn>>

RefuseQuietly ==
  UNCHANGED <<queues, flags, overflowed, dropped, turnsIn>>
RefuseControl ==
  /\ fatal' = TRUE
  /\ overflowed' = TRUE
  /\ UNCHANGED <<queues, fatalReported, dropReported, burst, queueClosed, dropped, turnsIn>>

Push(p) ==
  /\ ppc[p] = "push"
  /\ LET e == hand[p]
     IN CASE ~Refused(e) -> Accept(e)
          [] Refused(e) /\ e.kind \in DataKind -> DropData
          [] OTHER -> RefuseControl
  /\ Goto(p, IF p = "writer" THEN "failclosed" ELSE "check")
  /\ UNCHANGED <<closePhase, ledger, turnsOut, noticesOut>>

CheckFatal(p) ==
  /\ ppc[p] = "check"
  /\ Goto(p, IF fatal \/ closes[p] THEN "failclosed" ELSE "idle")
  /\ UNCHANGED <<queues, flags, closePhase, ledger, history>>

\* closed.swap under the gate; a second thread waits until the first is through.
FailClosed(p) ==
  /\ ppc[p] = "failclosed"
  /\ \/ closePhase = "open" /\ closePhase' = "closing" /\ UNCHANGED threads
     \/ /\ closePhase = "closed"
        /\ UNCHANGED closePhase
        /\ Goto(p, IF p \in {"monitor", "writer"} THEN "exit" ELSE "idle")
  /\ UNCHANGED <<queues, flags, ledger, history>>

CloseElsewhere ==
  /\ closePhase = "open"
  /\ closePhase' = "closing"
  /\ UNCHANGED <<queues, flags, threads, ledger, history>>

\* EventQueue::close: only terminal control events stay.  Retained(q)[n] is what
\* retain keeps of the first n events of q.
Retained(q) ==
  LET kept[n \in 0..Len(q)] ==
        IF n = 0 THEN << >>
        ELSE IF IsTerminal(q[n]) THEN Append(kept[n - 1], q[n]) ELSE kept[n - 1]
  IN kept

RetainNothing == << >>
RetainTerminal == Retained(control)[Len(control)]

CloseEvents ==
  /\ closePhase = "closing"
  /\ closePhase' = "closed"
  /\ queueClosed' = TRUE
  /\ requests' = << >> /\ reqBytes' = 0
  /\ data' = << >> /\ dataBytes' = 0
  /\ control' = RetainTerminal
  /\ ctlBytes' = Bytes(control')
  /\ UNCHANGED <<fatal, fatalReported, dropReported, burst, threads, ledger,
                 overflowed, dropped, turnsIn, turnsOut, noticesOut>>

-----------------------------------------------------------------------------
(* Consumers.                                                              *)

\* EventPump::next: an unreported overflow comes before everything.
PopFatal ==
  /\ fatal
  /\ ~fatalReported
  /\ fatal' = FALSE
  /\ fatalReported' = TRUE
  /\ UNCHANGED <<queues, dropReported, burst, queueClosed, closePhase, threads, ledger, history>>

\* Which queue the pump serves next.
Source ==
  IF burst >= MaxBurst /\ data # << >> THEN "data"
  ELSE IF requests # << >> THEN "requests"
  ELSE IF control # << >> THEN "control" ELSE "data"

TakeRequestUncharged ==
  /\ held' = held \cup {Head(requests).id}
  /\ requests' = Tail(requests)
  /\ burst' = burst + 1
  /\ UNCHANGED <<control, data, reqBytes, ctlBytes, dataBytes>>
TakeRequest ==
  /\ held' = held \cup {Head(requests).id}
  /\ requests' = Tail(requests)
  /\ reqBytes' = SatSub(reqBytes, Size["request"])
  /\ burst' = burst + 1
  /\ UNCHANGED <<control, data, ctlBytes, dataBytes>>

PopRequest ==
  /\ requests # << >>
  /\ Source = "requests"
  /\ TakeRequest
  /\ UNCHANGED <<turnsOut, noticesOut>>

PopControl ==
  /\ control # << >>
  /\ Source = "control"
  /\ control' = Tail(control)
  /\ ctlBytes' = SatSub(ctlBytes, Size[Head(control).kind])
  /\ burst' = burst + 1
  /\ turnsOut' = IF Head(control).kind = "turn" THEN turnsOut + 1 ELSE turnsOut
  /\ noticesOut' = IF Head(control).kind = "notice" THEN noticesOut + 1 ELSE noticesOut
  /\ UNCHANGED <<requests, data, reqBytes, dataBytes, held>>

PopData ==
  /\ data # << >>
  /\ Source = "data"
  /\ data' = Tail(data)
  /\ dataBytes' = SatSub(dataBytes, Size[Head(data).kind])
  /\ burst' = 0
  /\ UNCHANGED <<requests, control, reqBytes, ctlBytes, held, turnsOut, noticesOut>>

\* EventPump::next otherwise; a second overflow flag is taken and not reported.
Pop ==
  /\ fatal => fatalReported
  /\ fatal' = FALSE
  /\ PopRequest \/ PopControl \/ PopData
  /\ UNCHANGED <<fatalReported, dropReported, queueClosed, closePhase, threads,
                 active, seen, noticed, answers, overflowed, dropped, turnsIn>>

\* pop_server_request of a caller that serves nested requests while it waits.
PopNested ==
  /\ requests # << >>
  /\ TakeRequest
  /\ UNCHANGED <<fatal, fatalReported, dropReported, queueClosed, closePhase, threads,
                 active, seen, noticed, answers, history>>

Next ==
  \/ ReaderBrings \/ StderrBrings \/ MonitorBrings \/ WriterBrings \/ ClientOverflow
  \/ \E id \in Ids : ReaderBringsRequest(id) \/ Respond(id)
  \/ \E p \in Producers : Enter(p) \/ Push(p) \/ CheckFatal(p) \/ FailClosed(p)
  \/ CloseElsewhere \/ CloseEvents \/ PopFatal \/ Pop \/ PopNested

Spec == Init /\ [][Next]_vars

-----------------------------------------------------------------------------
(* Properties.                                                             *)

InHand(e) == \E p \in Producers : ppc[p] \in {"entry", "push"} /\ hand[p] = e

\* Types and the limits of every queue: no sequence of pushes, pops and closes
\* gets past a capacity or a byte budget.
TypeOK ==
  /\ \A q \in {requests, control, data} : \A i \in 1..Len(q) : q[i].kind \in Kind
  /\ Len(requests) <= ControlCap /\ Len(control) <= ControlCap /\ Len(data) <= DataCap
  /\ reqBytes + ctlBytes \in 0..MaxControlBytes
  /\ dataBytes \in 0..MaxDataBytes
  /\ closePhase \in {"open", "closing", "closed"}
  /\ ppc \in [Producers -> {"idle", "entry", "push", "check", "failclosed", "exit"}]
  /\ active \subseteq seen /\ seen \subseteq Ids /\ held \subseteq Ids

\* The three byte counters are the bytes really resident.  The subtractions
\* saturate, so a miscount would go unnoticed and either close a healthy
\* session or let memory grow.
CountersAgree ==
  /\ reqBytes = Bytes(requests)
  /\ ctlBytes = Bytes(control)
  /\ dataBytes = Bytes(data)

\* The queues keep their types and bounds, and their counters count what they hold.
QueuesAgree == TypeOK /\ CountersAgree

\* A server request the sidecar still waits on is queued, on its way into the
\* queue or with a consumer, as long as the session is open and no control
\* event was refused (dispatch_frame, pop, pop_server_request).
RequestAccounted ==
  ~Closed /\ ~overflowed =>
    \A id \in active : \/ id \in held
                       \/ InHand(Event("request", id))
                       \/ \E i \in 1..Len(requests) : requests[i].id = id

\* One id is answered at most once, also when the sidecar uses it again or two
\* consumers respond to it (register, resolve).
AnsweredOnce == \A id \in Ids : answers[id] <= 1

\* Dropping data is never silent while the session is open: the consumer got the
\* notice, will get it, or the session is being ended for want of room for it.
DropIsVisible ==
  dropped /\ ~Closed =>
    \/ noticesOut > 0
    \/ overflowed
    \/ \E i \in 1..Len(control) : control[i].kind = "notice"

\* An accepted turn/completed is delivered exactly once or still queued: neither
\* a close nor a burst of other events loses or repeats it.
TurnSurvives ==
  turnsIn = turnsOut + Cardinality({i \in 1..Len(control) : control[i].kind = "turn"})

\* Nothing that reached the queue is lost without a trace: requests, dropped data and the
\* end of a turn (events.rs, push, pop and close).
NothingLostSilently == RequestAccounted /\ DropIsVisible /\ TurnSurvives
=============================================================================
