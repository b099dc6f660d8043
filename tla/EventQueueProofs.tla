-------------------------- MODULE EventQueueProofs --------------------------
(***************************************************************************)
(* Inbound events, from the queue of a session to the approval ledger.      *)
(*                                                                         *)
(* The queue (EventQueue): for any ids, sizes, capacities, byte budgets and *)
(* burst, and any interleaving of the producers, the consumers and the      *)
(* close, the byte counters count what is queued and stay within their      *)
(* budgets, one id is answered at most once, and neither a request, nor the *)
(* notice of dropped data, nor the end of a turn is lost without a trace.   *)
(*                                                                         *)
(* The worker and the actor (Commands): for any number of requests, turns   *)
(* and generations and any lane, an approval is in one place at a time, is  *)
(* answered at most once, and is never forgotten by a running session.      *)
(***************************************************************************)
EXTENDS EventQueue, Commands, TLAPS, FiniteSetTheorems, NaturalsInduction, WellFoundedInduction

\* Everything a queue or a producer's hand may hold.
Events == [kind : Kind, id : Ids \cup {NoId}]

\* The parts of the state that the arguments below look into.
QueueTypes ==
  /\ requests \in Seq(Events) /\ (~Closed => control \in Seq(Events))
  /\ ppc \in [Producers -> {"idle", "entry", "push", "check", "failclosed", "exit"}]
  /\ hand \in [Producers -> Events] /\ closePhase \in {"open", "closing", "closed"}
  /\ active \subseteq seen /\ seen \subseteq Ids
  /\ answers \in [Ids -> Nat] /\ noticesOut \in Nat
  /\ dropped \in BOOLEAN /\ overflowed \in BOOLEAN

\* An id that may still be answered, or that may still come, has no answer yet.
UnansweredWhileOpen == \A id \in Ids : id \in active \/ id \notin seen => answers[id] = 0

\* Everything the session's events keep true between two steps.
EventInv ==
  /\ QueueTypes /\ UnansweredWhileOpen /\ AnsweredOnce
  /\ RequestAccounted /\ DropIsVisible /\ (dropReported => dropped)

-----------------------------------------------------------------------------
\* Taking from the front of a queue and adding at its end.
LEMMA QueueEnds ==
  ASSUME NEW q \in Seq(Events)
  PROVE  /\ Len(q) \in Nat
         /\ \A e \in Events : /\ Append(q, e) \in Seq(Events) /\ Len(Append(q, e)) = Len(q) + 1
                              /\ \A i \in 1..Len(q) : Append(q, e)[i] = q[i]
                              /\ Append(q, e)[Len(q) + 1] = e
         /\ q # <<>> => /\ Tail(q) \in Seq(Events) /\ Len(Tail(q)) = Len(q) - 1 /\ Head(q) = q[1]
                        /\ Head(q) \in Events
                        /\ \A i \in 1..Len(q) : i # 1 => i - 1 \in 1..Len(Tail(q)) /\ Tail(q)[i - 1] = q[i]
  OBVIOUS

\* What is in a queue is still there after an append.
LEMMA AppendKeeps ==
  ASSUME NEW q \in Seq(Events), NEW e \in Events, NEW x
  PROVE  /\ (\E i \in 1..Len(q) : q[i].id = x) =>
              \E i \in 1..Len(Append(q, e)) : Append(q, e)[i].id = x
         /\ (\E i \in 1..Len(q) : q[i].kind = x) =>
              \E i \in 1..Len(Append(q, e)) : Append(q, e)[i].kind = x
         /\ \E i \in 1..Len(Append(q, e)) : Append(q, e)[i].id = e.id
         /\ \E i \in 1..Len(Append(q, e)) : Append(q, e)[i].kind = e.kind
<1> DEFINE a == Append(q, e)
<1>1. /\ Len(a) = Len(q) + 1 /\ Len(q) \in Nat /\ a[Len(q) + 1] = e
      /\ \A i \in 1..Len(q) : a[i] = q[i]
  BY QueueEnds
<1> HIDE DEF a
<1>2. 1..Len(q) \subseteq 1..Len(a) /\ Len(q) + 1 \in 1..Len(a)
  BY <1>1
<1>3. /\ (\E i \in 1..Len(q) : q[i].id = x) => \E i \in 1..Len(a) : a[i].id = x
      /\ (\E i \in 1..Len(q) : q[i].kind = x) => \E i \in 1..Len(a) : a[i].kind = x
      /\ \E i \in 1..Len(a) : a[i].id = e.id
      /\ \E i \in 1..Len(a) : a[i].kind = e.kind
  BY <1>1, <1>2
<1> QED BY <1>3 DEF a

\* What is in a queue is still there after a take, unless it was the first.
LEMMA TakeKeeps ==
  ASSUME NEW q \in Seq(Events), q # <<>>, NEW x
  PROVE  /\ (\E i \in 1..Len(q) : q[i].id = x) =>
              Head(q).id = x \/ \E i \in 1..Len(Tail(q)) : Tail(q)[i].id = x
         /\ (\E i \in 1..Len(q) : q[i].kind = x) =>
              Head(q).kind = x \/ \E i \in 1..Len(Tail(q)) : Tail(q)[i].kind = x
<1> DEFINE t == Tail(q)
<1>1. Head(q) = q[1] /\ \A i \in 1..Len(q) : i # 1 => i - 1 \in 1..Len(t) /\ t[i - 1] = q[i]
  BY QueueEnds
<1> HIDE DEF t
<1>2. ASSUME NEW i \in 1..Len(q)
      PROVE  q[i] = Head(q) \/ \E j \in 1..Len(t) : t[j] = q[i]
  BY <1>1
<1>3. /\ (\E i \in 1..Len(q) : q[i].id = x) => Head(q).id = x \/ \E i \in 1..Len(t) : t[i].id = x
      /\ (\E i \in 1..Len(q) : q[i].kind = x) => Head(q).kind = x \/ \E i \in 1..Len(t) : t[i].kind = x
  BY <1>2
<1> QED BY <1>3 DEF t

\* A producer that starts a push has nothing else in hand, and everyone else
\* keeps what they had.
LEMMA BringKeepsHands ==
  ASSUME QueueTypes, NEW p \in Producers, NEW label \in {"entry", "push"}, NEW e \in Events, NEW closing,
         Bring(p, label, e, closing)
  PROVE  /\ ppc' \in [Producers -> {"idle", "entry", "push", "check", "failclosed", "exit"}]
         /\ hand' \in [Producers -> Events]
         /\ InHand(e)' /\ \A f \in Events : InHand(f) => InHand(f)'
<1>1. /\ ppc' \in [Producers -> {"idle", "entry", "push", "check", "failclosed", "exit"}]
      /\ hand' \in [Producers -> Events] /\ ppc'[p] = label /\ hand'[p] = e /\ ppc[p] = "idle"
      /\ \A r \in Producers \ {p} : ppc'[r] = ppc[r] /\ hand'[r] = hand[r]
  BY DEF Bring, QueueTypes
<1> QED BY <1>1 DEF InHand

\* A producer that goes on to a step other than a push is the only one whose hand
\* is emptied.
LEMMA GotoKeepsHands ==
  ASSUME QueueTypes, NEW p \in Producers,
         NEW label \in {"idle", "push", "check", "failclosed", "exit"}, Goto(p, label)
  PROVE  /\ ppc' \in [Producers -> {"idle", "entry", "push", "check", "failclosed", "exit"}]
         /\ hand' = hand
         /\ \A f \in Events :
              InHand(f) => \/ InHand(f)'
                           \/ ppc[p] \in {"entry", "push"} /\ hand[p] = f /\ label # "push"
<1>1. /\ ppc' \in [Producers -> {"idle", "entry", "push", "check", "failclosed", "exit"}]
      /\ hand' = hand /\ ppc'[p] = label
      /\ \A r \in Producers \ {p} : ppc'[r] = ppc[r]
  BY DEF Goto, QueueTypes
<1> QED BY <1>1 DEF InHand

\* The events that the producers make, and the request of an id.
LEMMA EventTypes ==
  /\ \A k \in Kind : Event(k, NoId) \in Events
  /\ \A id \in Ids : Event("request", id) \in Events /\ Event("request", id).id = id
  BY DEF Event, Events, Kind

-----------------------------------------------------------------------------
\* A step that only brings an event to a push keeps the invariant.
LEMMA BringStep ==
  ASSUME EventInv, NEW p \in Producers, NEW label \in {"entry", "push"}, NEW k \in Kind, NEW closing,
         Bring(p, label, Event(k, NoId), closing),
         UNCHANGED <<queues, flags, closePhase, active, seen, held, answers, history>>
  PROVE  EventInv'
<1>1. /\ ppc' \in [Producers -> {"idle", "entry", "push", "check", "failclosed", "exit"}]
      /\ hand' \in [Producers -> Events]
      /\ \A f \in Events : InHand(f) => InHand(f)'
  BY EventTypes, BringKeepsHands DEF EventInv
<1>2. QueueTypes'
  BY <1>1 DEF EventInv, QueueTypes, Closed, queues, history
<1>3. UnansweredWhileOpen' /\ AnsweredOnce'
  BY DEF EventInv, UnansweredWhileOpen, AnsweredOnce
<1>4. RequestAccounted'
  BY <1>1, EventTypes DEF EventInv, QueueTypes, RequestAccounted, Closed, queues, history
<1>5. DropIsVisible' /\ (dropReported => dropped)'
  BY DEF EventInv, DropIsVisible, Closed, queues, flags, history
<1> QED BY <1>2, <1>3, <1>4, <1>5 DEF EventInv

\* Registering a request hands it to the reader; an id that came before ends the
\* session instead.
LEMMA RequestStep ==
  ASSUME EventInv, NEW id \in Ids, ReaderBringsRequest(id)
  PROVE  EventInv'
<1>1. CASE MayRegister(id)
  <2>1. /\ Bring("reader", "entry", Event("request", id), FALSE)
        /\ active' = active \cup {id} /\ seen' = seen \cup {id} /\ id \notin seen
        /\ UNCHANGED <<queues, flags, closePhase, held, noticed, answers, history>>
    BY <1>1 DEF ReaderBringsRequest, MayRegister
  <2>2. /\ ppc' \in [Producers -> {"idle", "entry", "push", "check", "failclosed", "exit"}]
        /\ hand' \in [Producers -> Events]
        /\ InHand(Event("request", id))' /\ \A f \in Events : InHand(f) => InHand(f)'
    BY <2>1, EventTypes, BringKeepsHands DEF EventInv, Producers
  <2>3. QueueTypes'
    BY <2>1, <2>2 DEF EventInv, QueueTypes, Closed, queues, history
  <2>4. UnansweredWhileOpen' /\ AnsweredOnce'
    BY <2>1 DEF EventInv, UnansweredWhileOpen, AnsweredOnce
  <2>5. RequestAccounted'
    BY <2>1, <2>2, EventTypes DEF EventInv, QueueTypes, RequestAccounted, Closed, queues, history
  <2>6. DropIsVisible' /\ (dropReported => dropped)'
    BY <2>1 DEF EventInv, DropIsVisible, Closed, queues, flags, history
  <2> QED BY <2>3, <2>4, <2>5, <2>6 DEF EventInv
<1>2. CASE ~MayRegister(id)
  <2>1. /\ Bring("reader", "entry", Event("fault", NoId), TRUE)
        /\ UNCHANGED <<queues, flags, closePhase, active, seen, held, answers, history>>
    BY <1>2 DEF ReaderBringsRequest
  <2> QED BY <2>1, BringStep DEF Producers, Kind
<1> QED BY <1>1, <1>2

\* An answer leaves the ledger before it is queued, so no second one finds it.
LEMMA RespondStep ==
  ASSUME EventInv, NEW id \in Ids, Respond(id)
  PROVE  EventInv'
<1>1. /\ active' = active \ {id} /\ id \in active
      /\ UNCHANGED <<queues, flags, closePhase, seen, held, noticed, history>>
  BY DEF Respond, MayAnswer
<1>2. /\ ppc' \in [Producers -> {"idle", "entry", "push", "check", "failclosed", "exit"}]
      /\ hand' \in [Producers -> Events]
      /\ \A f \in Events : InHand(f) => InHand(f)'
  <2>1. CASE UNCHANGED threads
    BY <2>1 DEF threads, InHand, EventInv, QueueTypes
  <2>2. CASE Bring("client", "entry", Event("fault", NoId), TRUE)
    BY <2>2, EventTypes, BringKeepsHands DEF EventInv, Producers, Kind
  <2> QED BY <2>1, <2>2 DEF Respond
<1>3. answers' \in {answers, [answers EXCEPT ![id] = @ + 1]}
  BY DEF Respond
<1>4. answers[id] = 0 /\ answers \in [Ids -> Nat] /\ id \in seen
  BY <1>1 DEF EventInv, UnansweredWhileOpen, QueueTypes
<1>5. QueueTypes'
  BY <1>1, <1>2, <1>3, <1>4 DEF EventInv, QueueTypes, Closed, queues, history
<1>6. UnansweredWhileOpen' /\ AnsweredOnce'
  BY <1>1, <1>3, <1>4 DEF EventInv, UnansweredWhileOpen, AnsweredOnce
<1>7. RequestAccounted'
  BY <1>1, <1>2, EventTypes DEF EventInv, QueueTypes, RequestAccounted, Closed, queues, history
<1>8. DropIsVisible' /\ (dropReported => dropped)'
  BY <1>1 DEF EventInv, DropIsVisible, Closed, queues, flags, history
<1> QED BY <1>5, <1>6, <1>7, <1>8 DEF EventInv

\* The pushes: what is accepted is queued, what is refused leaves a mark.
LEMMA PushStep ==
  ASSUME EventInv, NEW p \in Producers, Push(p)
  PROVE  EventInv'
<1> DEFINE e == hand[p]
           next == IF p = "writer" THEN "failclosed" ELSE "check"
<1>1. /\ ppc[p] = "push" /\ Goto(p, next)
      /\ UNCHANGED <<closePhase, active, seen, held, answers, turnsOut, noticesOut>>
  BY DEF Push, ledger
<1>2. /\ requests \in Seq(Events) /\ (~Closed => control \in Seq(Events)) /\ e \in Events
      /\ Event("notice", NoId) \in Events
  BY EventTypes DEF EventInv, QueueTypes, Kind
<1>3. /\ ppc' \in [Producers -> {"idle", "entry", "push", "check", "failclosed", "exit"}]
      /\ hand' = hand
      /\ \A f \in Events : InHand(f) => InHand(f)' \/ f = e
  BY <1>1, GotoKeepsHands DEF EventInv
<1>4. UnansweredWhileOpen' /\ AnsweredOnce'
  BY <1>1 DEF EventInv, UnansweredWhileOpen, AnsweredOnce
<1>5. CASE ~Refused(e) /\ Accept(e)
  <2>1. /\ requests' = IF e.kind = "request" THEN Append(requests, e) ELSE requests
        /\ control' = IF e.kind \notin DataKind \cup {"request"} THEN Append(control, e) ELSE control
        /\ UNCHANGED <<flags, overflowed, dropped>>
    BY <1>5 DEF Accept
  <2>2. QueueTypes'
    <3>1. requests' \in Seq(Events) /\ (~Closed => control' \in Seq(Events))
      BY <1>2, <2>1, QueueEnds
    <3> QED BY <1>1, <1>3, <2>1, <3>1 DEF EventInv, QueueTypes, Closed
  <2>3. RequestAccounted'
    <3>1. SUFFICES ASSUME ~Closed', ~overflowed', NEW id \in active'
                   PROVE  \/ id \in held'
                          \/ InHand(Event("request", id))'
                          \/ \E i \in 1..Len(requests') : requests'[i].id = id
      BY DEF RequestAccounted
    <3>2. /\ id \in Ids /\ Event("request", id) \in Events /\ Event("request", id).id = id
          /\ Event("request", id).kind = "request"
      BY <1>1, <3>1, EventTypes DEF EventInv, QueueTypes, Event
    <3>3. \/ id \in held
          \/ InHand(Event("request", id))
          \/ \E i \in 1..Len(requests) : requests[i].id = id
      BY <1>1, <2>1, <3>1 DEF EventInv, RequestAccounted, Closed
    <3>4. (\E i \in 1..Len(requests) : requests[i].id = id) => \E i \in 1..Len(requests') : requests'[i].id = id
      BY <1>2, <2>1, AppendKeeps
    <3>5. e = Event("request", id) => \E i \in 1..Len(requests') : requests'[i].id = id
      BY <1>2, <2>1, <3>2, AppendKeeps
    <3> QED BY <1>1, <1>3, <3>2, <3>3, <3>4, <3>5
  <2>4. DropIsVisible' /\ (dropReported => dropped)'
    <3>1. ~Closed /\ (\E i \in 1..Len(control) : control[i].kind = "notice")
            => \E i \in 1..Len(control') : control'[i].kind = "notice"
      BY <1>2, <2>1, AppendKeeps
    <3> QED BY <1>1, <2>1, <3>1 DEF EventInv, DropIsVisible, Closed, flags
  <2> QED BY <1>4, <2>2, <2>3, <2>4 DEF EventInv
<1>6. CASE Refused(e) /\ e.kind \in DataKind /\ DropData
  <2>1. /\ dropReported' = TRUE /\ dropped' = TRUE /\ requests' = requests
        /\ \/ dropReported /\ UNCHANGED <<control, overflowed>>
           \/ ~dropReported /\ overflowed' = TRUE /\ UNCHANGED control
           \/ ~dropReported /\ control' = Append(control, Event("notice", NoId)) /\ UNCHANGED overflowed
    BY <1>6 DEF DropData
  <2>2. QueueTypes'
    <3>1. ~Closed => control' \in Seq(Events)
      BY <1>2, <2>1, QueueEnds
    <3> QED BY <1>1, <1>3, <2>1, <3>1 DEF EventInv, QueueTypes, Closed
  <2>3. \A id \in Ids : e # Event("request", id)
    BY <1>6 DEF DataKind, Event
  <2>4. RequestAccounted'
    BY <1>1, <1>3, <2>1, <2>3, EventTypes DEF EventInv, QueueTypes, RequestAccounted, Closed
  <2>5. DropIsVisible' /\ (dropReported => dropped)'
    <3>1. Event("notice", NoId).kind = "notice"
      BY DEF Event
    <3>2. ~Closed /\ control' = Append(control, Event("notice", NoId)) =>
            \E i \in 1..Len(control') : control'[i].kind = "notice"
      BY <1>2, <3>1, AppendKeeps
    <3> QED BY <1>1, <2>1, <3>2 DEF EventInv, DropIsVisible, Closed
  <2> QED BY <1>4, <2>2, <2>4, <2>5 DEF EventInv
<1>7. CASE RefuseControl
  <2>1. overflowed' = TRUE /\ UNCHANGED <<queues, dropReported, dropped>>
    BY <1>7 DEF RefuseControl
  <2>2. QueueTypes'
    BY <1>1, <1>3, <2>1 DEF EventInv, QueueTypes, Closed, queues
  <2>3. RequestAccounted' /\ DropIsVisible' /\ (dropReported => dropped)'
    BY <2>1 DEF EventInv, RequestAccounted, DropIsVisible
  <2> QED BY <1>4, <2>2, <2>3 DEF EventInv
<1> QED BY <1>5, <1>6, <1>7 DEF Push

\* A take hands a request to its consumer, and a notice to the pump.
LEMMA TakeStep ==
  ASSUME EventInv, Pop \/ PopNested
  PROVE  EventInv'
<1>1. UNCHANGED <<dropReported, closePhase, threads, active, seen, answers, overflowed, dropped>>
  BY DEF Pop, PopNested, history
<1>2. UnansweredWhileOpen' /\ AnsweredOnce'
  BY <1>1 DEF EventInv, UnansweredWhileOpen, AnsweredOnce
<1>3. requests \in Seq(Events) /\ (~Closed => control \in Seq(Events)) /\ noticesOut \in Nat
  BY DEF EventInv, QueueTypes
<1>4. \/ /\ requests # <<>> /\ held' = held \cup {Head(requests).id} /\ requests' = Tail(requests)
         /\ UNCHANGED <<control, noticesOut>>
      \/ /\ control # <<>> /\ control' = Tail(control) /\ UNCHANGED <<requests, held>>
         /\ noticesOut' = IF Head(control).kind = "notice" THEN noticesOut + 1 ELSE noticesOut
      \/ UNCHANGED <<requests, control, held, noticesOut>>
  BY DEF Pop, PopNested, PopRequest, PopControl, PopData, TakeRequest, history
<1>5. QueueTypes'
  <2>1. requests' \in Seq(Events)
    BY <1>3, <1>4, QueueEnds
  <2>2. ~Closed => control' \in Seq(Events)
    BY <1>3, <1>4, QueueEnds
  <2>3. noticesOut' \in Nat
    BY <1>3, <1>4
  <2> QED BY <1>1, <2>1, <2>2, <2>3 DEF EventInv, QueueTypes, Closed, threads
<1>6. RequestAccounted'
  <2>1. SUFFICES ASSUME ~Closed', ~overflowed', NEW id \in active'
                 PROVE  \/ id \in held'
                        \/ InHand(Event("request", id))'
                        \/ \E i \in 1..Len(requests') : requests'[i].id = id
    BY DEF RequestAccounted
  <2>2. InHand(Event("request", id))' <=> InHand(Event("request", id))
    BY <1>1 DEF InHand, threads
  <2>3. \/ id \in held
        \/ InHand(Event("request", id))
        \/ \E i \in 1..Len(requests) : requests[i].id = id
    BY <1>1, <2>1 DEF EventInv, RequestAccounted, Closed
  <2>4. requests # <<>> /\ (\E i \in 1..Len(requests) : requests[i].id = id) =>
          Head(requests).id = id \/ \E i \in 1..Len(Tail(requests)) : Tail(requests)[i].id = id
    BY <1>3, TakeKeeps
  <2> QED BY <1>4, <2>2, <2>3, <2>4
<1>7. DropIsVisible' /\ (dropReported => dropped)'
  <2>1. ~Closed /\ control # <<>> /\ (\E i \in 1..Len(control) : control[i].kind = "notice") =>
          Head(control).kind = "notice" \/ \E i \in 1..Len(Tail(control)) : Tail(control)[i].kind = "notice"
    BY <1>3, TakeKeeps
  <2>2. dropped /\ ~Closed => \/ noticesOut > 0
                              \/ overflowed
                              \/ \E i \in 1..Len(control) : control[i].kind = "notice"
    BY DEF EventInv, DropIsVisible
  <2>3. dropped /\ ~Closed => \/ noticesOut' > 0
                              \/ overflowed
                              \/ \E i \in 1..Len(control') : control'[i].kind = "notice"
    <3>1. noticesOut > 0 => noticesOut' > 0
      BY <1>3, <1>4
    <3>2. ~Closed /\ (\E i \in 1..Len(control) : control[i].kind = "notice") =>
            noticesOut' > 0 \/ \E i \in 1..Len(control') : control'[i].kind = "notice"
      <4>1. Head(control).kind = "notice" /\ noticesOut' = noticesOut + 1 => noticesOut' > 0
        BY <1>3
      <4> QED BY <1>4, <2>1, <4>1
    <3> QED BY <2>2, <3>1, <3>2
  <2> QED BY <1>1, <2>3 DEF EventInv, DropIsVisible, Closed
<1> QED BY <1>2, <1>5, <1>6, <1>7 DEF EventInv

\* The remaining steps move a producer on, close the session or take the
\* overflow flag.
LEMMA QuietStep ==
  ASSUME EventInv, NEW p \in Producers,
         Enter(p) \/ CheckFatal(p) \/ FailClosed(p) \/ CloseElsewhere \/ CloseEvents \/ PopFatal
  PROVE  EventInv'
<1>1. /\ UNCHANGED <<dropReported, active, seen, held, answers, overflowed, dropped, noticesOut>>
      /\ closePhase' \in {"open", "closing", "closed"} /\ (Closed => Closed')
  BY DEF EventInv, QueueTypes, Enter, CheckFatal, FailClosed, CloseElsewhere, CloseEvents,
     PopFatal, flags, ledger,
         history, Closed
<1>2. UnansweredWhileOpen' /\ AnsweredOnce'
  BY <1>1 DEF EventInv, UnansweredWhileOpen, AnsweredOnce
<1>3. CASE CloseEvents
  <2>1. Closed' /\ requests' = <<>> /\ UNCHANGED threads
    BY <1>3 DEF CloseEvents, Closed
  <2>2. requests' \in Seq(Events)
    BY <2>1
  <2>3. QueueTypes'
    BY <1>1, <2>1, <2>2 DEF EventInv, QueueTypes, threads
  <2>4. RequestAccounted' /\ DropIsVisible' /\ (dropReported => dropped)'
    BY <1>1, <2>1 DEF EventInv, RequestAccounted, DropIsVisible
  <2> QED BY <1>2, <2>3, <2>4 DEF EventInv
<1>4. CASE ~CloseEvents
  <2>1. UNCHANGED <<requests, control>>
    BY <1>4 DEF Enter, CheckFatal, FailClosed, CloseElsewhere, PopFatal, queues
  <2>2. /\ ppc' \in [Producers -> {"idle", "entry", "push", "check", "failclosed", "exit"}] /\ hand' = hand
        /\ ~Closed => \A f \in Events : InHand(f) => InHand(f)'
    <3>1. CASE UNCHANGED threads
      BY <3>1 DEF EventInv, QueueTypes, threads, InHand
    <3>2. CASE Enter(p)
      <4> DEFINE pass == ~Closed \/ IsTerminal(hand[p])
      <4>1. CASE pass
        <5>1. Goto(p, "push")
          BY <3>2, <4>1 DEF Enter
        <5> QED BY <5>1, GotoKeepsHands DEF EventInv
      <4>2. CASE ~pass /\ closes[p]
        <5>1. Goto(p, "failclosed") /\ Closed
          BY <3>2, <4>2 DEF Enter
        <5> QED BY <5>1, GotoKeepsHands DEF EventInv
      <4>3. CASE ~pass /\ ~closes[p]
        <5>1. Goto(p, "idle") /\ Closed
          BY <3>2, <4>3 DEF Enter
        <5> QED BY <5>1, GotoKeepsHands DEF EventInv
      <4> QED BY <4>1, <4>2, <4>3
    <3>3. CASE CheckFatal(p)
      <4>1. PICK label \in {"failclosed", "idle"} : Goto(p, label) /\ ppc[p] = "check"
        BY <3>3 DEF CheckFatal
      <4> QED BY <4>1, GotoKeepsHands DEF EventInv
    <3>4. CASE FailClosed(p) /\ ~UNCHANGED threads
      <4>1. PICK label \in {"exit", "idle"} : Goto(p, label) /\ ppc[p] = "failclosed"
        BY <3>4 DEF FailClosed
      <4> QED BY <4>1, GotoKeepsHands DEF EventInv
    <3> QED BY <1>4, <3>1, <3>2, <3>3, <3>4 DEF CloseElsewhere, PopFatal
  <2>3. QueueTypes'
    BY <1>1, <2>1, <2>2 DEF EventInv, QueueTypes
  <2>4. RequestAccounted'
    BY <1>1, <2>1, <2>2, EventTypes DEF EventInv, QueueTypes, RequestAccounted
  <2>5. DropIsVisible' /\ (dropReported => dropped)'
    BY <1>1, <2>1 DEF EventInv, DropIsVisible
  <2> QED BY <1>2, <2>3, <2>4, <2>5 DEF EventInv
<1> QED BY <1>3, <1>4

-----------------------------------------------------------------------------
\* The invariant holds in every reachable state.
THEOREM EventsAreAccounted == Spec => []EventInv
<1>1. ASSUME Init
      PROVE  EventInv
  <2>1. Event("fault", NoId) \in Events
    BY EventTypes DEF Kind
  <2>2. hand \in [Producers -> Events] /\ requests \in Seq(Events) /\ control \in Seq(Events)
    BY <1>1, <2>1 DEF Init
  <2>3. QueueTypes
    BY <1>1, <2>2 DEF Init, QueueTypes
  <2> QED BY <1>1, <2>3 DEF Init, EventInv, UnansweredWhileOpen, AnsweredOnce, RequestAccounted, DropIsVisible
<1>2. ASSUME EventInv, UNCHANGED vars
      PROVE  EventInv'
  BY <1>2 DEF vars, queues, flags, threads, ledger, history, EventInv, QueueTypes,
     UnansweredWhileOpen, AnsweredOnce,
              RequestAccounted, DropIsVisible, InHand, Closed
<1>3. ASSUME EventInv, Next
      PROVE  EventInv'
  <2>1. CASE ReaderBrings
    <3>1. PICK k \in {"status", "turn", "delta", "fault"} : Bring("reader", "entry", Event(k, NoId), k = "fault")
      BY <2>1 DEF ReaderBrings
    <3>2. k \in Kind /\ "reader" \in Producers /\ "entry" \in {"entry", "push"}
      BY DEF Kind, Producers
    <3> QED BY <1>3, <2>1, <3>1, <3>2, BringStep DEF ReaderBrings, ledger
  <2>2. CASE StderrBrings \/ MonitorBrings \/ WriterBrings \/ ClientOverflow
    BY <1>3, <2>2, BringStep
       DEF StderrBrings, MonitorBrings, WriterBrings, ClientOverflow, Kind, Producers, ledger
  <2>3. CASE \E id \in Ids : ReaderBringsRequest(id) \/ Respond(id)
    BY <1>3, <2>3, RequestStep, RespondStep
  <2>4. CASE \E p \in Producers : Enter(p) \/ Push(p) \/ CheckFatal(p) \/ FailClosed(p)
    BY <1>3, <2>4, PushStep, QuietStep
  <2>5. CASE CloseElsewhere \/ CloseEvents \/ PopFatal
    BY <1>3, <2>5, QuietStep DEF Producers
  <2>6. CASE Pop \/ PopNested
    BY <1>3, <2>6, TakeStep
  <2> QED BY <1>3, <2>1, <2>2, <2>3, <2>4, <2>5, <2>6 DEF Next
<1> QED BY <1>1, <1>2, <1>3, PTL DEF Spec

\* One id is answered at most once, also when the sidecar uses it again or two
\* consumers respond to it (InboundServerRequests).
THEOREM AnswersAreUnique == Spec => []AnsweredOnce
<1>1. EventInv => AnsweredOnce
  BY DEF EventInv
<1> QED BY <1>1, EventsAreAccounted, PTL

\* An open session that refused no control event accounts for every request the
\* sidecar waits on, and dropped data has left its notice (events.rs, wire.rs).
THEOREM OpenSessionLosesNothing == Spec => [](RequestAccounted /\ DropIsVisible)
<1>1. EventInv => RequestAccounted /\ DropIsVisible
  BY DEF EventInv
<1> QED BY <1>1, EventsAreAccounted, PTL
-----------------------------------------------------------------------------
(* Sums over a queue.                                                      *)

\* A set of naturals that is not empty has a least element.
LEMMA LeastNatural ==
  ASSUME NEW T, T \subseteq Nat, T # {}
  PROVE  \E m \in T : \A k \in T : m <= k
<1>1. \E x \in T : \A y \in T : ~(<<y, x>> \in OpToRel(<, Nat))
  BY WFMin, NatLessThanWellFounded
<1>2. \A x, y \in T : <<y, x>> \in OpToRel(<, Nat) <=> y < x
  BY DEF OpToRel
<1>3. \E x \in T : \A y \in T : ~(y < x)
  BY <1>1, <1>2, Zenon
<1> QED BY <1>3

\* w gives the weight of each position, s the weight of everything up to it.
Adds(s, w, n) == s[0] = 0 /\ \A k \in 1..n : s[k] = s[k - 1] + w[k]

\* The running sums of any weights exist: the least n without them would extend
\* the sums before it.
LEMMA SumExists ==
  ASSUME NEW n \in Nat, NEW w \in [1..n -> Nat]
  PROVE  \E s \in [0..n -> Nat] : Adds(s, w, n)
<1> DEFINE Good(m) == \E s \in [0..m -> Nat] : Adds(s, w, m)
           Bad == {m \in 0..n : ~Good(m)}
<1> SUFFICES Good(n)
  OBVIOUS
<1> HIDE DEF Good
<1>0. n \in 0..n /\ Bad \subseteq Nat
  OBVIOUS
<1>1. SUFFICES ASSUME Bad # {} PROVE FALSE
  BY <1>0
<1>2. PICK m \in Bad : \A k \in Bad : m <= k
  BY <1>0, <1>1, LeastNatural
<1>a. m \in 0..n /\ ~Good(m) /\ \A k \in 0..n : k < m => Good(k)
  BY <1>2
<1>3. CASE m = 0
  <2>1. Adds([k \in 0..0 |-> 0], w, 0)
    BY DEF Adds
  <2> QED BY <1>a, <1>3, <2>1 DEF Good
<1>4. CASE m # 0
  <2>1. m - 1 \in 0..n /\ m \in 1..n /\ Good(m - 1)
    BY <1>a, <1>4
  <2>2. PICK s \in [0..(m - 1) -> Nat] : Adds(s, w, m - 1)
    BY <2>1 DEF Good
  <2> DEFINE t == [k \in 0..m |-> IF k = m THEN s[m - 1] + w[m] ELSE s[k]]
  <2>3. t \in [0..m -> Nat]
    BY <2>1, <2>2
  <2>4. Adds(t, w, m)
    <3>1. t[0] = 0
      BY <2>1, <2>2 DEF Adds
    <3>2. ASSUME NEW k \in 1..m PROVE t[k] = t[k - 1] + w[k]
      <4>1. k - 1 \in 0..(m - 1) /\ t[k - 1] = s[k - 1]
        BY <2>1
      <4>2. CASE k = m
        BY <4>1, <4>2
      <4>3. CASE k # m
        <5>1. k \in 1..(m - 1) /\ t[k] = s[k]
          BY <2>1, <4>3
        <5> QED BY <5>1, <4>1, <2>2 DEF Adds
      <4> QED BY <4>2, <4>3
    <3> QED BY <3>1, <3>2 DEF Adds
  <2> HIDE DEF t
  <2> QED BY <1>a, <2>3, <2>4 DEF Good
<1> QED BY <1>3, <1>4


\* Two running sums of the same weights are the same.
LEMMA SumsAgree ==
  ASSUME NEW n \in Nat, NEW w, NEW s, NEW t, Adds(s, w, n), Adds(t, w, n)
  PROVE  \A k \in 0..n : s[k] = t[k]
<1> DEFINE Bad == {k \in 0..n : s[k] # t[k]}
<1>1. SUFFICES ASSUME Bad # {} PROVE FALSE
  OBVIOUS
<1>0. Bad \subseteq Nat
  OBVIOUS
<1>2. PICK m \in Bad : \A k \in Bad : m <= k
  BY <1>0, <1>1, LeastNatural
<1>3. m # 0
  BY <1>2 DEF Adds
<1>4. m \in 1..n /\ m - 1 \in 0..n /\ m - 1 \notin Bad
  BY <1>2, <1>3
<1>5. s[m - 1] = t[m - 1]
  BY <1>4
<1> QED BY <1>2, <1>4, <1>5 DEF Adds

\* The size of the event at each place of a queue.
Weights(q) == [k \in 1..Len(q) |-> Size[q[k].kind]]

\* What the recursive function computes.
LEMMA RunningDef ==
  ASSUME NEW q, Len(q) \in Nat, \A k \in 1..Len(q) : q[k].kind \in Kind
  PROVE  /\ Weights(q) \in [1..Len(q) -> Nat]
         /\ Running(q) \in [0..Len(q) -> Nat]
         /\ Adds(Running(q), Weights(q), Len(q))
<1> DEFINE n == Len(q)
           w == Weights(q)
<1>1. w \in [1..n -> Nat]
  BY SizeAssumption DEF Weights
<1>2. PICK s \in [0..n -> Nat] : Adds(s, w, n)
  BY <1>1, SumExists
<1>3. s = [k \in 0..n |-> IF k = 0 THEN 0 ELSE s[k - 1] + Size[q[k].kind]]
  BY <1>2 DEF Adds, Weights
<1>4. Running(q) = [k \in 0..n |-> IF k = 0 THEN 0 ELSE Running(q)[k - 1] + Size[q[k].kind]]
  BY <1>3, Zenon DEF Running
<1> HIDE DEF n
<1>5. Adds(Running(q), w, n)
  <2>1. Running(q)[0] = 0
    BY <1>4 DEF n
  <2>2. \A k \in 1..n : Running(q)[k] = Running(q)[k - 1] + Size[q[k].kind]
    BY <1>4 DEF n
  <2> QED BY <2>1, <2>2 DEF Adds, Weights, n
<1>6. \A k \in 0..n : Running(q)[k] = s[k]
  <2>1. PICK m \in Nat : m = n
    BY DEF n
  <2>2. PICK r : r = Running(q)
    OBVIOUS
  <2>3. PICK v : v = w
    OBVIOUS
  <2>4. PICK z : z = s
    OBVIOUS
  <2>5. Adds(r, v, m) /\ Adds(z, v, m)
    BY <1>2, <1>5, <2>1, <2>2, <2>3, <2>4
  <2>6. \A k \in 0..m : r[k] = z[k]
    BY <2>5, SumsAgree
  <2> QED BY <2>1, <2>2, <2>4, <2>6
<1>7. Running(q) \in [0..n -> Nat]
  BY <1>2, <1>4, <1>6
<1> QED BY <1>1, <1>5, <1>7 DEF n

\* An event at the end of a queue adds its size.
LEMMA BytesAppend ==
  ASSUME NEW S, NEW q \in Seq(S), \A e \in S : e.kind \in Kind, NEW e \in S
  PROVE  /\ Bytes(<<>>) = 0 /\ Bytes(q) \in Nat
         /\ Bytes(Append(q, e)) = Bytes(q) + Size[e.kind]
<1>1. PICK a : a = Append(q, e)
  OBVIOUS
<1>2. /\ Len(q) \in Nat /\ Len(a) = Len(q) + 1 /\ a[Len(q) + 1] = e
      /\ \A k \in 1..Len(q) : a[k] = q[k] /\ q[k] \in S
      /\ \A k \in 1..Len(a) : a[k].kind \in Kind
      /\ \A k \in 1..Len(q) : q[k].kind \in Kind
  BY <1>1
<1>3. Bytes(<<>>) = 0
  <2>1. Len(<<>>) = 0
    OBVIOUS
  <2>2. Adds(Running(<<>>), Weights(<<>>), Len(<<>>))
    BY <2>1, RunningDef
  <2> QED BY <2>1, <2>2 DEF Bytes, Adds
<1>4. /\ Weights(q) \in [1..Len(q) -> Nat] /\ Running(q) \in [0..Len(q) -> Nat]
      /\ Adds(Running(q), Weights(q), Len(q))
  BY <1>2, RunningDef
<1>5. /\ Weights(a) \in [1..Len(a) -> Nat] /\ Running(a) \in [0..Len(a) -> Nat]
      /\ Adds(Running(a), Weights(a), Len(a))
  BY <1>2, RunningDef
<1>6. \A k \in 1..Len(q) : Weights(a)[k] = Weights(q)[k]
  BY <1>2 DEF Weights
<1>7. Adds(Running(a), Weights(q), Len(q))
  BY <1>2, <1>5, <1>6 DEF Adds
<1>8. Running(a)[Len(q)] = Running(q)[Len(q)]
  <2>1. PICK n \in Nat : n = Len(q) /\ n \in 0..n
    BY <1>2
  <2>2. PICK r : r = Running(a)
    OBVIOUS
  <2>3. PICK s : s = Running(q)
    OBVIOUS
  <2>4. PICK w : w = Weights(q)
    OBVIOUS
  <2>5. Adds(r, w, n) /\ Adds(s, w, n) /\ w \in [1..n -> Nat]
    BY <2>1, <2>2, <2>3, <2>4, <1>4, <1>7
  <2>6. \A k \in 0..n : r[k] = s[k]
    BY <2>5, SumsAgree
  <2> QED BY <2>1, <2>2, <2>3, <2>6
<1>9. Running(a)[Len(q) + 1] = Running(a)[Len(q)] + Size[e.kind]
  <2>1. Weights(a)[Len(q) + 1] = Size[e.kind]
    BY <1>2 DEF Weights
  <2>2. Len(q) + 1 \in 1..Len(a) /\ Len(q) + 1 - 1 = Len(q)
    BY <1>2
  <2> QED BY <1>5, <2>1, <2>2 DEF Adds
<1> QED BY <1>1, <1>2, <1>3, <1>4, <1>8, <1>9 DEF Bytes

\* Without its first event a queue is smaller by the size of that event.
LEMMA BytesTail ==
  ASSUME NEW S, NEW q \in Seq(S), \A e \in S : e.kind \in Kind, q # <<>>
  PROVE  Bytes(q) = Size[Head(q).kind] + Bytes(Tail(q)) /\ Bytes(Tail(q)) \in Nat
<1>1. PICK t : t = Tail(q)
  OBVIOUS
<1>2. /\ Len(q) \in Nat \ {0} /\ Len(t) = Len(q) - 1 /\ Head(q) = q[1] /\ t \in Seq(S)
      /\ \A k \in 1..Len(t) : t[k] = q[k + 1]
      /\ \A k \in 1..Len(q) : q[k].kind \in Kind
      /\ \A k \in 1..Len(t) : t[k].kind \in Kind
  BY <1>1
<1>4. /\ Weights(q) \in [1..Len(q) -> Nat] /\ Running(q) \in [0..Len(q) -> Nat]
      /\ Adds(Running(q), Weights(q), Len(q))
  BY <1>2, RunningDef
<1>5. /\ Weights(t) \in [1..Len(t) -> Nat] /\ Running(t) \in [0..Len(t) -> Nat]
      /\ Adds(Running(t), Weights(t), Len(t))
  BY <1>2, RunningDef
<1>6. PICK h : h = Size[q[1].kind]
  OBVIOUS
<1>7. h \in Nat /\ Running(q)[1] = h /\ Weights(q)[1] = h
  <2>1. 1 \in 1..Len(q)
    BY <1>2
  <2>2. Weights(q)[1] = h /\ h \in Nat
    BY <1>4, <1>6, <2>1 DEF Weights
  <2>3. Running(q)[1] = Running(q)[0] + Weights(q)[1] /\ Running(q)[0] = 0
    BY <1>4, <2>1 DEF Adds
  <2> QED BY <2>2, <2>3
<1> DEFINE s == [k \in 0..Len(t) |-> Running(q)[k + 1] - h]
<1>8. Adds(s, Weights(t), Len(t))
  <2>1. s[0] = 0
    BY <1>2, <1>7
  <2>2. ASSUME NEW k \in 1..Len(t) PROVE s[k] = s[k - 1] + Weights(t)[k]
    <3>1. k + 1 \in 1..Len(q) /\ k + 1 \in 0..Len(q) /\ k \in 0..Len(q) /\ k + 1 - 1 = k /\ k - 1 + 1 = k /\ k - 1 \in 0..Len(t)
      BY <1>2
    <3>2. Running(q)[k + 1] = Running(q)[k] + Weights(q)[k + 1]
      BY <1>4, <3>1 DEF Adds
    <3>3. Weights(q)[k + 1] = Weights(t)[k]
      BY <1>2, <3>1 DEF Weights
    <3>4. s[k] = Running(q)[k + 1] - h /\ s[k - 1] = Running(q)[k] - h
      BY <3>1
    <3>5. Running(q)[k + 1] \in Nat /\ Running(q)[k] \in Nat /\ Weights(t)[k] \in Nat
      BY <1>4, <1>5, <3>1
    <3> HIDE DEF s
    <3> QED BY <1>7, <3>2, <3>3, <3>4, <3>5
  <2> QED BY <2>1, <2>2 DEF Adds
<1>9. s[Len(t)] = Running(t)[Len(t)]
  <2>0. PICK z : z = s
    OBVIOUS
  <2>1. PICK n \in Nat : n = Len(t) /\ n \in 0..n
    BY <1>2
  <2>2. PICK w : w = Weights(t)
    OBVIOUS
  <2>3. PICK r : r = Running(t)
    OBVIOUS
  <2>4. Adds(z, w, n) /\ Adds(r, w, n) /\ w \in [1..n -> Nat]
    BY <2>0, <2>1, <2>2, <2>3, <1>5, <1>8
  <2>5. \A k \in 0..n : z[k] = r[k]
    BY <2>4, SumsAgree
  <2> QED BY <2>0, <2>1, <2>3, <2>5
<1>10. s[Len(t)] = Running(q)[Len(q)] - h /\ Running(q)[Len(q)] \in Nat /\ Running(t)[Len(t)] \in Nat
  <2>1. Len(t) \in 0..Len(t) /\ Len(t) + 1 = Len(q) /\ Len(q) \in 0..Len(q)
    BY <1>2
  <2> QED BY <1>4, <1>5, <2>1
<1> HIDE DEF s
<1> QED BY <1>1, <1>2, <1>6, <1>7, <1>9, <1>10 DEF Bytes
\* What retain keeps of the first n events, from what it keeps of one fewer.
Retains(f, q, n) ==
  /\ f[0] = << >>
  /\ \A k \in 1..n : f[k] = IF IsTerminal(q[k]) THEN Append(f[k - 1], q[k]) ELSE f[k - 1]

\* There is such a function: the least n without one would extend the one before it.
LEMMA RetainedExists ==
  ASSUME NEW q \in Seq(Events)
  PROVE  \E f \in [0..Len(q) -> Seq(Events)] : Retains(f, q, Len(q))
<1> DEFINE Good(m) == \E f \in [0..m -> Seq(Events)] : Retains(f, q, m)
           Bad == {m \in 0..Len(q) : ~Good(m)}
<1> SUFFICES Good(Len(q))
  OBVIOUS
<1> HIDE DEF Good
<1>0. Len(q) \in Nat /\ Len(q) \in 0..Len(q) /\ Bad \subseteq Nat
  OBVIOUS
<1>1. SUFFICES ASSUME Bad # {} PROVE FALSE
  BY <1>0
<1>2. PICK m \in Bad : \A k \in Bad : m <= k
  BY <1>0, <1>1, LeastNatural
<1>3. m \in 0..Len(q) /\ ~Good(m) /\ \A k \in 0..Len(q) : k < m => Good(k)
  BY <1>2
<1>4. CASE m = 0
  <2>1. Retains([k \in 0..0 |-> << >>], q, 0) /\ [k \in 0..0 |-> << >>] \in [0..0 -> Seq(Events)]
    BY DEF Retains
  <2> QED BY <1>3, <1>4, <2>1 DEF Good
<1>5. CASE m # 0
  <2>1. m - 1 \in 0..Len(q) /\ m \in 1..Len(q) /\ Good(m - 1) /\ q[m] \in Events
    BY <1>0, <1>3, <1>5
  <2>2. PICK f \in [0..(m - 1) -> Seq(Events)] : Retains(f, q, m - 1)
    BY <2>1 DEF Good
  <2>3. PICK last : last = IF IsTerminal(q[m]) THEN Append(f[m - 1], q[m]) ELSE f[m - 1]
    OBVIOUS
  <2>4. last \in Seq(Events)
    <3>1. f[m - 1] \in Seq(Events)
      BY <2>1, <2>2
    <3> QED BY <2>1, <2>3, <3>1
  <2> DEFINE g == [k \in 0..m |-> IF k = m THEN last ELSE f[k]]
  <2>5. g \in [0..m -> Seq(Events)]
    BY <2>1, <2>2, <2>4
  <2>6. Retains(g, q, m)
    <3>1. g[0] = << >>
      BY <2>1, <2>2 DEF Retains
    <3>2. ASSUME NEW k \in 1..m
          PROVE  g[k] = IF IsTerminal(q[k]) THEN Append(g[k - 1], q[k]) ELSE g[k - 1]
      <4>1. k - 1 \in 0..(m - 1) /\ g[k - 1] = f[k - 1]
        BY <2>1
      <4>2. CASE k = m
        BY <2>3, <4>1, <4>2
      <4>3. CASE k # m
        <5>1. k \in 1..(m - 1) /\ g[k] = f[k]
          BY <2>1, <4>3
        <5> HIDE DEF g
        <5> QED BY <5>1, <4>1, <2>2, Zenon DEF Retains
      <4> QED BY <4>2, <4>3
    <3> HIDE DEF g
    <3> QED BY <3>1, <3>2 DEF Retains
  <2> HIDE DEF g
  <2> QED BY <1>3, <2>5, <2>6 DEF Good
<1> QED BY <1>4, <1>5

\* The recursion of the model is that function.
LEMMA RetainedDef ==
  ASSUME NEW q \in Seq(Events)
  PROVE  Retains(Retained(q), q, Len(q))
<1>0. Len(q) \in Nat
  OBVIOUS
<1>1. PICK f \in [0..Len(q) -> Seq(Events)] : Retains(f, q, Len(q))
  BY RetainedExists
<1>2. f = [k \in 0..Len(q) |->
             IF k = 0 THEN << >> ELSE IF IsTerminal(q[k]) THEN Append(f[k - 1], q[k]) ELSE f[k - 1]]
  <2>1. \A k \in 0..Len(q) : k # 0 => k \in 1..Len(q)
    BY <1>0
  <2>2. \A k \in 0..Len(q) :
          f[k] = IF k = 0 THEN << >> ELSE IF IsTerminal(q[k]) THEN Append(f[k - 1], q[k]) ELSE f[k - 1]
    BY <1>1, <2>1, Zenon DEF Retains
  <2> QED BY <1>1, <2>2, Zenon
<1>3. Retained(q) =
        [k \in 0..Len(q) |-> IF k = 0 THEN << >>
                             ELSE IF IsTerminal(q[k]) THEN Append(Retained(q)[k - 1], q[k])
                             ELSE Retained(q)[k - 1]]
  BY <1>2, Zenon DEF Retained
<1>4. PICK r : r = Retained(q)
  OBVIOUS
<1>5. r = [k \in 0..Len(q) |-> IF k = 0 THEN << >>
                               ELSE IF IsTerminal(q[k]) THEN Append(r[k - 1], q[k]) ELSE r[k - 1]]
  BY <1>3, <1>4, Zenon
<1>6. 0 \in 0..Len(q) /\ \A k \in 1..Len(q) : k \in 0..Len(q) /\ k # 0
  BY <1>0
<1>7. r[0] = << >>
  BY <1>5, <1>6, Zenon
<1>8. \A k \in 1..Len(q) : r[k] = IF IsTerminal(q[k]) THEN Append(r[k - 1], q[k]) ELSE r[k - 1]
  BY <1>5, <1>6, Zenon
<1> QED BY <1>4, <1>7, <1>8 DEF Retains

-----------------------------------------------------------------------------
\* The turn completions among the first n events of a queue.
TurnsTo(q, n) == {i \in 1..n : q[i].kind = "turn"}

\* One more event is one more turn completion, or none.
LEMMA TurnsStep ==
  ASSUME NEW q, NEW n \in Nat
  PROVE  /\ IsFiniteSet(TurnsTo(q, n)) /\ Cardinality(TurnsTo(q, n)) \in Nat
         /\ Cardinality(TurnsTo(q, n + 1)) =
              IF q[n + 1].kind = "turn" THEN Cardinality(TurnsTo(q, n)) + 1 ELSE Cardinality(TurnsTo(q, n))
         /\ Cardinality(TurnsTo(q, 0)) = 0
<1>1. IsFiniteSet(1..n) /\ TurnsTo(q, n) \subseteq 1..n
  BY FS_Interval DEF TurnsTo
<1>2. IsFiniteSet(TurnsTo(q, n))
  BY <1>1, FS_Subset
<1>3. Cardinality(TurnsTo(q, n)) \in Nat
  BY <1>2, FS_CardinalityType
<1>4. n + 1 \notin TurnsTo(q, n)
  BY DEF TurnsTo
<1>5. TurnsTo(q, n + 1) = IF q[n + 1].kind = "turn" THEN TurnsTo(q, n) \cup {n + 1} ELSE TurnsTo(q, n)
  BY DEF TurnsTo
<1>6. Cardinality(TurnsTo(q, n) \cup {n + 1}) = Cardinality(TurnsTo(q, n)) + 1
  BY <1>2, <1>4, FS_AddElement
<1>7. TurnsTo(q, 0) = {}
  BY DEF TurnsTo
<1> QED BY <1>2, <1>3, <1>5, <1>6, <1>7, FS_EmptySet

\* Turn completions of a queue that grows at its end or is served at its front.
LEMMA TurnsAtEnds ==
  ASSUME NEW q \in Seq(Events)
  PROVE  /\ Cardinality(TurnsTo(q, Len(q))) \in Nat
         /\ \A e \in Events : Cardinality(TurnsTo(Append(q, e), Len(Append(q, e)))) =
              IF e.kind = "turn" THEN Cardinality(TurnsTo(q, Len(q))) + 1 ELSE Cardinality(TurnsTo(q, Len(q)))
         /\ q # << >> => Cardinality(TurnsTo(q, Len(q))) =
              IF Head(q).kind = "turn" THEN Cardinality(TurnsTo(Tail(q), Len(Tail(q)))) + 1
                                       ELSE Cardinality(TurnsTo(Tail(q), Len(Tail(q))))
<1>1. Len(q) \in Nat /\ Cardinality(TurnsTo(q, Len(q))) \in Nat
  BY TurnsStep
<1>2. ASSUME NEW e \in Events
      PROVE  Cardinality(TurnsTo(Append(q, e), Len(Append(q, e)))) =
               IF e.kind = "turn" THEN Cardinality(TurnsTo(q, Len(q))) + 1 ELSE Cardinality(TurnsTo(q, Len(q)))
  <2>1. PICK a : a = Append(q, e)
    OBVIOUS
  <2>2. Len(a) = Len(q) + 1 /\ a[Len(q) + 1] = e /\ \A i \in 1..Len(q) : a[i] = q[i]
    BY <2>1
  <2>3. TurnsTo(a, Len(q)) = TurnsTo(q, Len(q))
    BY <2>2 DEF TurnsTo
  <2>4. Cardinality(TurnsTo(a, Len(q) + 1)) =
          IF a[Len(q) + 1].kind = "turn" THEN Cardinality(TurnsTo(a, Len(q))) + 1
                                         ELSE Cardinality(TurnsTo(a, Len(q)))
    BY <1>1, TurnsStep
  <2> QED BY <2>1, <2>2, <2>3, <2>4
<1>3. ASSUME q # << >>
      PROVE  Cardinality(TurnsTo(q, Len(q))) =
               IF Head(q).kind = "turn" THEN Cardinality(TurnsTo(Tail(q), Len(Tail(q)))) + 1
                                        ELSE Cardinality(TurnsTo(Tail(q), Len(Tail(q))))
  <2>1. PICK t : t = Tail(q)
    OBVIOUS
  <2>2. /\ Len(t) \in Nat /\ Len(q) = Len(t) + 1 /\ Head(q) = q[1]
        /\ \A i \in 1..Len(t) : t[i] = q[i + 1]
    BY <1>3, <2>1
  <2> DEFINE A == TurnsTo(t, Len(t))
             B == TurnsTo(q, Len(q)) \ {1}
             shift == [i \in A |-> i + 1]
  <2>3. shift \in Bijection(A, B)
    <3>1. \A i \in A : i + 1 \in B
      BY <2>2 DEF TurnsTo
    <3>2. \A i, j \in A : shift[i] = shift[j] => i = j
      BY DEF TurnsTo
    <3>3. ASSUME NEW j \in B PROVE j - 1 \in A /\ shift[j - 1] = j
      BY <2>2 DEF TurnsTo
    <3>4. shift \in [A -> B]
      BY <3>1
    <3>5. \A j \in B : \E i \in A : shift[i] = j
      BY <3>3
    <3>6. DOMAIN shift = A
      OBVIOUS
    <3> HIDE DEF shift, A, B
    <3>7. IsInjective(shift)
      BY <3>2, <3>6, Zenon DEF IsInjective
    <3> QED BY <3>4, <3>5, <3>7 DEF Bijection, Injection, Surjection
  <2>4. IsFiniteSet(A) /\ Cardinality(A) \in Nat
    BY <2>2, TurnsStep
  <2>5. IsFiniteSet(B) /\ Cardinality(B) = Cardinality(A)
    <3>1. ExistsBijection(A, B)
      BY <2>3 DEF ExistsBijection
    <3> HIDE DEF A, B
    <3> QED BY <2>4, <3>1, FS_Bijection
  <2>6. TurnsTo(q, Len(q)) = IF Head(q).kind = "turn" THEN B \cup {1} ELSE B
    BY <2>2 DEF TurnsTo
  <2>7. Cardinality(B \cup {1}) = Cardinality(B) + 1
    <3>1. 1 \notin B
      OBVIOUS
    <3> HIDE DEF B
    <3> QED BY <2>5, <3>1, FS_AddElement
  <2> QED BY <2>1, <2>5, <2>6, <2>7
<1> QED BY <1>1, <1>2, <1>3

-----------------------------------------------------------------------------
\* Closing keeps no more events and no more bytes than there were, and every turn
\* completion.
LEMMA RetainedKeeps ==
  ASSUME NEW q \in Seq(Events)
  PROVE  \E r \in Seq(Events) :
           /\ r = Retained(q)[Len(q)] /\ Len(r) <= Len(q) /\ Bytes(r) <= Bytes(q) /\ Bytes(r) \in Nat
           /\ Cardinality(TurnsTo(r, Len(r))) = Cardinality(TurnsTo(q, Len(q)))
<1> DEFINE Good(r, n) ==
             /\ r \in Seq(Events) /\ Len(r) <= n /\ Bytes(r) <= Running(q)[n] /\ Bytes(r) \in Nat
             /\ Cardinality(TurnsTo(r, Len(r))) = Cardinality(TurnsTo(q, n))
           Bad == {n \in 0..Len(q) : ~Good(Retained(q)[n], n)}
<1>0. /\ Len(q) \in Nat /\ Len(q) \in 0..Len(q) /\ Bad \subseteq Nat
      /\ \A k \in 1..Len(q) : q[k] \in Events /\ q[k].kind \in Kind
      /\ \A e \in Events : e.kind \in Kind
  <2>1. \A e \in Events : e.kind \in Kind
    BY DEF Events
  <2>2. \A k \in 1..Len(q) : q[k] \in Events
    OBVIOUS
  <2>3. Len(q) \in Nat /\ Len(q) \in 0..Len(q) /\ Bad \subseteq Nat
    OBVIOUS
  <2> QED BY <2>1, <2>2, <2>3, Zenon
<1>1. /\ Retained(q)[0] = << >>
      /\ \A k \in 1..Len(q) : Retained(q)[k] = IF IsTerminal(q[k]) THEN Append(Retained(q)[k - 1], q[k])
                                                                   ELSE Retained(q)[k - 1]
  BY RetainedDef DEF Retains
<1>2. /\ Running(q) \in [0..Len(q) -> Nat] /\ Running(q)[0] = 0
      /\ \A k \in 1..Len(q) : Running(q)[k] = Running(q)[k - 1] + Size[q[k].kind]
  <2>1. Running(q) \in [0..Len(q) -> Nat] /\ Adds(Running(q), Weights(q), Len(q))
    BY <1>0, RunningDef
  <2> QED BY <2>1 DEF Adds, Weights
<1> HIDE DEF Good
<1>3. Good(Retained(q)[Len(q)], Len(q))
  <2>1. SUFFICES ASSUME Bad # {} PROVE FALSE
    BY <1>0
  <2>2. PICK m \in Bad : \A k \in Bad : m <= k
    BY <1>0, <2>1, LeastNatural
  <2>3. m \in 0..Len(q) /\ ~Good(Retained(q)[m], m) /\ \A k \in 0..Len(q) : k < m => Good(Retained(q)[k], k)
    BY <2>2
  <2>4. CASE m = 0
    <3>1. << >> \in Seq(Events) /\ Len(<< >>) = 0
      OBVIOUS
    <3>2. Bytes(<< >>) = 0
      <4>1. Len(<< >>) \in Nat /\ \A k \in 1..Len(<< >>) : << >>[k].kind \in Kind
        BY <3>1
      <4>2. Adds(Running(<< >>), Weights(<< >>), Len(<< >>))
        BY <4>1, RunningDef
      <4> QED BY <3>1, <4>2 DEF Bytes, Adds
    <3>3. Cardinality(TurnsTo(<< >>, 0)) = 0 /\ Cardinality(TurnsTo(q, 0)) = 0
      BY TurnsStep
    <3>4. PICK r : r = << >>
      OBVIOUS
    <3>5. /\ r \in Seq(Events) /\ Len(r) = 0 /\ Len(r) <= 0 /\ Bytes(r) <= Running(q)[0] /\ Bytes(r) \in Nat
          /\ Retained(q)[0] = r
      BY <1>1, <1>2, <3>1, <3>2, <3>4
    <3>6. Cardinality(TurnsTo(r, Len(r))) = Cardinality(TurnsTo(q, 0))
      BY <3>3, <3>4, <3>5
    <3>7. Good(r, 0)
      BY <3>5, <3>6, Zenon DEF Good
    <3> QED BY <2>3, <2>4, <3>5, <3>7, Zenon
  <2>5. CASE m # 0
    <3>1. m - 1 \in 0..Len(q) /\ m \in 1..Len(q) /\ m - 1 < m /\ m - 1 \in Nat /\ m - 1 + 1 = m
      BY <1>0, <2>3, <2>5
    <3>2. PICK r : r = Retained(q)[m - 1]
      OBVIOUS
    <3>3. /\ r \in Seq(Events) /\ Len(r) <= m - 1 /\ Bytes(r) <= Running(q)[m - 1] /\ Bytes(r) \in Nat
          /\ Cardinality(TurnsTo(r, Len(r))) = Cardinality(TurnsTo(q, m - 1))
      BY <2>3, <3>1, <3>2 DEF Good
    <3>4. PICK e \in Events : e = q[m] /\ e.kind \in Kind
      BY <1>0, <3>1
    <3>5. PICK c \in Nat : c = Size[e.kind]
      BY <3>4, SizeAssumption
    <3>6. /\ Running(q)[m] = Running(q)[m - 1] + c /\ Running(q)[m] \in Nat /\ Running(q)[m - 1] \in Nat
      BY <1>2, <3>1, <3>4, <3>5
    <3>7. Cardinality(TurnsTo(q, m)) = IF e.kind = "turn" THEN Cardinality(TurnsTo(q, m - 1)) + 1
                                                          ELSE Cardinality(TurnsTo(q, m - 1))
      BY <3>1, <3>4, TurnsStep
    <3>8. CASE IsTerminal(e)
      <4>1. PICK a : a = Append(r, e)
        OBVIOUS
      <4>2. Retained(q)[m] = a
        BY <1>1, <3>1, <3>2, <3>4, <3>8, <4>1
      <4>3. a \in Seq(Events) /\ Len(a) = Len(r) + 1 /\ Len(r) \in Nat
        BY <3>3, <4>1
      <4>4. Bytes(a) = Bytes(r) + c
        BY <1>0, <3>3, <3>5, <4>1, BytesAppend
      <4>5. Cardinality(TurnsTo(a, Len(a))) =
              IF e.kind = "turn" THEN Cardinality(TurnsTo(r, Len(r))) + 1 ELSE Cardinality(TurnsTo(r, Len(r)))
        BY <3>3, <4>1, TurnsAtEnds
      <4>6. Len(a) <= m
        BY <3>1, <3>3, <4>3
      <4>7. Bytes(a) <= Running(q)[m] /\ Bytes(a) \in Nat
        BY <3>3, <3>6, <4>4
      <4> QED BY <2>3, <3>3, <3>7, <4>2, <4>3, <4>5, <4>6, <4>7 DEF Good
    <3>9. CASE ~IsTerminal(e)
      <4>1. Retained(q)[m] = r
        BY <1>1, <3>1, <3>2, <3>4, <3>9
      <4>2. e.kind # "turn"
        BY <3>9 DEF IsTerminal
      <4>3. Len(r) <= m
        BY <3>1, <3>3
      <4>4. Bytes(r) <= Running(q)[m]
        BY <3>3, <3>6
      <4> QED BY <2>3, <3>3, <3>7, <4>1, <4>2, <4>3, <4>4 DEF Good
    <3> QED BY <3>8, <3>9
  <2> QED BY <2>4, <2>5
<1> QED BY <1>3 DEF Good, Bytes
-----------------------------------------------------------------------------
(* The counters, the bounds and the turn completions.                      *)

\* Server requests carry an id of the sidecar's.
Requests == [kind : {"request"}, id : Ids]

\* What the queues hold, how much of it, and that the counters say so.
CountInv ==
  /\ requests \in Seq(Requests) /\ control \in Seq(Events) /\ data \in Seq(Events)
  /\ \A p \in Producers : hand[p].kind = "request" => hand[p] \in Requests
  /\ held \subseteq Ids /\ turnsIn \in Nat /\ turnsOut \in Nat
  /\ Len(requests) <= ControlCap /\ Len(control) <= ControlCap /\ Len(data) <= DataCap
  /\ reqBytes + ctlBytes <= MaxControlBytes /\ dataBytes <= MaxDataBytes
  /\ CountersAgree /\ TurnSurvives

\* An event added at the end is charged; one taken from the front is discharged,
\* and the saturating subtraction never saturates.
LEMMA Charged ==
  ASSUME NEW q \in Seq(Events)
  PROVE  /\ Bytes(q) \in Nat /\ Bytes(<< >>) = 0
         /\ \A e \in Events : Size[e.kind] \in Nat /\ Bytes(Append(q, e)) = Bytes(q) + Size[e.kind]
         /\ q # << >> => /\ SatSub(Bytes(q), Size[Head(q).kind]) = Bytes(Tail(q))
                         /\ Bytes(Tail(q)) \in Nat /\ Bytes(Tail(q)) <= Bytes(q)
<1>1. \A e \in Events : e.kind \in Kind
  BY DEF Events
<1>2. \A e \in Events : Size[e.kind] \in Nat
  BY <1>1, SizeAssumption
<1>3. PICK none \in Events : TRUE
  BY EventTypes DEF Kind
<1>4. Bytes(q) \in Nat /\ Bytes(<< >>) = 0
  BY <1>1, <1>3, BytesAppend
<1>5. \A e \in Events : Bytes(Append(q, e)) = Bytes(q) + Size[e.kind]
  BY <1>1, BytesAppend
<1>6. ASSUME q # << >>
      PROVE  /\ SatSub(Bytes(q), Size[Head(q).kind]) = Bytes(Tail(q))
             /\ Bytes(Tail(q)) \in Nat /\ Bytes(Tail(q)) <= Bytes(q)
  <2>1. Head(q) \in Events
    BY <1>6
  <2>2. PICK c \in Nat : c = Size[Head(q).kind]
    BY <1>2, <2>1
  <2>3. Bytes(q) = c + Bytes(Tail(q)) /\ Bytes(Tail(q)) \in Nat
    BY <1>1, <1>6, <2>2, BytesTail
  <2>4. PICK b \in Nat : b = Bytes(Tail(q))
    BY <2>3
  <2>5. SatSub(c + b, c) = b /\ b <= c + b
    BY DEF SatSub
  <2> QED BY <2>2, <2>3, <2>4, <2>5
<1> QED BY <1>2, <1>4, <1>5, <1>6

\* The counters of the current state, as numbers.
LEMMA CountersAreNumbers ==
  ASSUME CountInv
  PROVE  /\ reqBytes = Bytes(requests) /\ ctlBytes = Bytes(control) /\ dataBytes = Bytes(data)
         /\ reqBytes \in Nat /\ ctlBytes \in Nat /\ dataBytes \in Nat
         /\ requests \in Seq(Events) /\ control \in Seq(Events) /\ data \in Seq(Events)
         /\ ControlCap \in Nat /\ DataCap \in Nat /\ MaxControlBytes \in Nat /\ MaxDataBytes \in Nat
<1>1. Requests \subseteq Events
  BY DEF Requests, Events, Kind
<1>2. requests \in Seq(Events) /\ control \in Seq(Events) /\ data \in Seq(Events)
  BY <1>1 DEF CountInv
<1>3. Bytes(requests) \in Nat /\ Bytes(control) \in Nat /\ Bytes(data) \in Nat
  BY <1>2, Charged
<1>4. ControlCap \in Nat /\ DataCap \in Nat /\ MaxControlBytes \in Nat /\ MaxDataBytes \in Nat
  BY LimitsAssumption
<1> QED BY <1>2, <1>3, <1>4 DEF CountInv, CountersAgree

\* The turn completions in the queue, in the words of the lemmas above.
LEMMA TurnsInControl ==
  TurnSurvives <=> turnsIn = turnsOut + Cardinality(TurnsTo(control, Len(control)))
  BY DEF TurnSurvives, TurnsTo

\* Steps that leave the queues alone.
LEMMA CountUntouched ==
  ASSUME CountInv, UNCHANGED <<queues, held, turnsIn, turnsOut>>,
         \A p \in Producers : hand'[p].kind = "request" => hand'[p] \in Requests
  PROVE  CountInv'
  BY DEF CountInv, CountersAgree, TurnSurvives, queues

\* A producer that starts a push brings a request only with an id.
LEMMA CountBring ==
  ASSUME EventInv, CountInv, NEW p \in Producers, NEW label, NEW e, NEW closing,
         Bring(p, label, e, closing), e.kind = "request" => e \in Requests,
         UNCHANGED <<queues, held, turnsIn, turnsOut>>
  PROVE  CountInv'
<1>1. hand' = [hand EXCEPT ![p] = e] /\ hand \in [Producers -> Events]
  BY DEF Bring, EventInv, QueueTypes
<1>2. ASSUME NEW r \in Producers, hand'[r].kind = "request"
      PROVE  hand'[r] \in Requests
  BY <1>1, <1>2 DEF CountInv
<1> QED BY <1>2, CountUntouched

\* A push charges what it queues and queues only what there is room for; a refused
\* one leaves the queues alone, but for the notice.
LEMMA CountPush ==
  ASSUME EventInv, CountInv, NEW p \in Producers, Push(p)
  PROVE  CountInv'
<1>1. PICK e : e = hand[p]
  OBVIOUS
<1>2. e \in Events /\ (e.kind = "request" => e \in Requests) /\ e.kind \in Kind
  BY <1>1 DEF EventInv, QueueTypes, CountInv, Events
<1>3. hand' = hand /\ UNCHANGED <<held, turnsOut>>
  BY DEF Push, Goto, ledger
<1>4. /\ reqBytes = Bytes(requests) /\ ctlBytes = Bytes(control) /\ dataBytes = Bytes(data)
      /\ reqBytes \in Nat /\ ctlBytes \in Nat /\ dataBytes \in Nat
      /\ requests \in Seq(Events) /\ control \in Seq(Events) /\ data \in Seq(Events)
      /\ ControlCap \in Nat /\ DataCap \in Nat /\ MaxControlBytes \in Nat /\ MaxDataBytes \in Nat
  BY CountersAreNumbers
<1>5. PICK c \in Nat : c = Size[e.kind]
  BY <1>2, SizeAssumption
<1>6. /\ requests \in Seq(Requests) /\ turnsIn \in Nat /\ turnsOut \in Nat /\ held \subseteq Ids
      /\ Len(requests) <= ControlCap /\ Len(control) <= ControlCap /\ Len(data) <= DataCap
      /\ reqBytes + ctlBytes <= MaxControlBytes /\ dataBytes <= MaxDataBytes
      /\ turnsIn = turnsOut + Cardinality(TurnsTo(control, Len(control)))
      /\ \A r \in Producers : hand[r].kind = "request" => hand[r] \in Requests
      /\ Len(requests) \in Nat /\ Len(control) \in Nat /\ Len(data) \in Nat
  <2>1. Len(requests) \in Nat /\ Len(control) \in Nat /\ Len(data) \in Nat
    BY <1>4
  <2> QED BY <2>1, TurnsInControl DEF CountInv
<1>num. /\ reqBytes \in Nat /\ ctlBytes \in Nat /\ dataBytes \in Nat
      /\ ControlCap \in Nat /\ DataCap \in Nat /\ MaxControlBytes \in Nat /\ MaxDataBytes \in Nat
      /\ Len(requests) \in Nat /\ Len(control) \in Nat /\ Len(data) \in Nat
      /\ Len(requests) <= ControlCap /\ Len(control) <= ControlCap /\ Len(data) <= DataCap
      /\ reqBytes + ctlBytes <= MaxControlBytes /\ dataBytes <= MaxDataBytes
  BY <1>4, <1>6
<1>7. /\ Bytes(Append(requests, e)) = reqBytes + c /\ Bytes(Append(control, e)) = ctlBytes + c
      /\ Bytes(Append(data, e)) = dataBytes + c
  BY <1>2, <1>4, <1>5, Charged
<1>8. /\ Cardinality(TurnsTo(control, Len(control))) \in Nat
      /\ \A f \in Events : Cardinality(TurnsTo(Append(control, f), Len(Append(control, f)))) =
           IF f.kind = "turn" THEN Cardinality(TurnsTo(control, Len(control))) + 1
                              ELSE Cardinality(TurnsTo(control, Len(control)))
  BY <1>4, TurnsAtEnds
<1>9. CASE ~Refused(e) /\ Accept(e)
  <2>1. CASE e.kind = "request"
    <3>1. /\ requests' = Append(requests, e) /\ reqBytes' = reqBytes + c
          /\ UNCHANGED <<data, dataBytes, control, ctlBytes, turnsIn>>
      BY <1>5, <1>9, <2>1 DEF Accept, DataKind
    <3>2. Len(requests) + 1 <= ControlCap /\ reqBytes + c + ctlBytes <= MaxControlBytes
      <4>1. ~(Len(requests) >= ControlCap) /\ ~(reqBytes + ctlBytes + c > MaxControlBytes)
        BY <1>5, <1>9, <2>1 DEF Refused, DataKind
      <4> QED BY <1>num, <4>1
    <3>3. requests' \in Seq(Requests) /\ Len(requests') = Len(requests) + 1
      BY <1>2, <1>6, <2>1, <3>1
    <3>4. Len(requests') <= ControlCap /\ reqBytes' + ctlBytes' <= MaxControlBytes
      <4>1. reqBytes' = reqBytes + c /\ ctlBytes' = ctlBytes
        BY <3>1
      <4> QED BY <1>num, <3>2, <3>3, <4>1
    <3>5. CountersAgree'
      BY <1>4, <1>7, <3>1 DEF CountersAgree
    <3>6. TurnSurvives'
      BY <1>3, <3>1 DEF CountInv, TurnSurvives
    <3> QED BY <1>3, <1>6, <3>1, <3>3, <3>4, <3>5, <3>6 DEF CountInv
  <2>2. CASE e.kind \in DataKind
    <3>1. /\ data' = Append(data, e) /\ dataBytes' = dataBytes + c
          /\ UNCHANGED <<requests, reqBytes, control, ctlBytes, turnsIn>>
      BY <1>5, <1>9, <2>2 DEF Accept, DataKind
    <3>2. Len(data) < DataCap /\ dataBytes + c <= MaxDataBytes
      <4>1. ~(Len(data) >= DataCap) /\ ~(dataBytes + c > MaxDataBytes)
        BY <1>5, <1>9, <2>2 DEF Refused, DataKind
      <4> QED BY <1>num, <4>1
    <3>3. data' \in Seq(Events) /\ Len(data') = Len(data) + 1
      BY <1>2, <1>4, <3>1
    <3>4. Len(data') <= DataCap /\ dataBytes' <= MaxDataBytes
      <4>1. dataBytes' = dataBytes + c
        BY <3>1
      <4> QED BY <1>num, <3>2, <3>3, <4>1
    <3>5. CountersAgree'
      BY <1>4, <1>7, <3>1 DEF CountersAgree
    <3>6. TurnSurvives'
      BY <1>3, <3>1 DEF CountInv, TurnSurvives
    <3> QED BY <1>3, <1>4, <1>6, <3>1, <3>3, <3>4, <3>5, <3>6 DEF CountInv
  <2>3. CASE e.kind \notin DataKind \cup {"request"}
    <3>1. /\ control' = Append(control, e) /\ ctlBytes' = ctlBytes + c
          /\ UNCHANGED <<requests, reqBytes, data, dataBytes>>
          /\ turnsIn' = IF e.kind = "turn" THEN turnsIn + 1 ELSE turnsIn
      BY <1>5, <1>9, <2>3 DEF Accept
    <3>2. Len(control) < ControlCap /\ reqBytes + ctlBytes + c <= MaxControlBytes
      <4>1. ~(Len(control) >= ControlCap) /\ ~(reqBytes + ctlBytes + c > MaxControlBytes)
        BY <1>5, <1>9, <2>3 DEF Refused, ControlFull
      <4> QED BY <1>num, <4>1
    <3>3. control' \in Seq(Events) /\ Len(control') = Len(control) + 1
      BY <1>2, <1>4, <3>1
    <3>4. Len(control') <= ControlCap /\ reqBytes' + ctlBytes' <= MaxControlBytes
      <4>1. ctlBytes' = ctlBytes + c /\ reqBytes' = reqBytes
        BY <3>1
      <4> QED BY <1>num, <3>2, <3>3, <4>1
    <3>5. CountersAgree'
      BY <1>4, <1>7, <3>1 DEF CountersAgree
    <3>6. turnsIn' \in Nat /\ turnsIn' = turnsOut' + Cardinality(TurnsTo(control', Len(control')))
      BY <1>2, <1>3, <1>6, <1>8, <3>1
    <3>7. TurnSurvives'
      BY <3>6 DEF TurnSurvives, TurnsTo
    <3> QED BY <1>3, <1>4, <1>6, <3>1, <3>3, <3>4, <3>5, <3>6, <3>7 DEF CountInv
  <2> QED BY <2>1, <2>2, <2>3
<1>10. CASE DropData
  <2>1. CASE UNCHANGED <<control, ctlBytes>>
    <3>1. UNCHANGED <<queues, held, turnsIn, turnsOut>>
      BY <1>3, <1>10, <2>1 DEF DropData, queues
    <3> QED BY <1>3, <1>6, <3>1, CountUntouched
  <2>2. CASE /\ ~ControlFull(Size["notice"]) /\ control' = Append(control, Event("notice", NoId))
             /\ ctlBytes' = ctlBytes + Size["notice"]
    <3>1. PICK f \in Events : f = Event("notice", NoId) /\ f.kind = "notice"
      BY EventTypes DEF Event, Kind
    <3>2. PICK d \in Nat : d = Size["notice"]
      BY SizeAssumption DEF Kind
    <3>3. /\ control' = Append(control, f) /\ ctlBytes' = ctlBytes + d
          /\ UNCHANGED <<requests, reqBytes, data, dataBytes, turnsIn>>
      BY <1>10, <2>2, <3>1, <3>2 DEF DropData
    <3>4. Len(control) < ControlCap /\ reqBytes + ctlBytes + d <= MaxControlBytes
      <4>1. ~(Len(control) >= ControlCap) /\ ~(reqBytes + ctlBytes + d > MaxControlBytes)
        BY <2>2, <3>2 DEF ControlFull
      <4> QED BY <1>num, <3>2, <4>1
    <3>5. control' \in Seq(Events) /\ Len(control') = Len(control) + 1
      BY <1>4, <3>1, <3>3
    <3>6. Len(control') <= ControlCap /\ reqBytes' + ctlBytes' <= MaxControlBytes
      <4>1. ctlBytes' = ctlBytes + d /\ reqBytes' = reqBytes
        BY <3>3
      <4> QED BY <1>num, <3>2, <3>4, <3>5, <4>1, SMTT(40)
    <3>7. Bytes(Append(control, f)) = Bytes(control) + d
      BY <1>4, <3>1, <3>2, Charged
    <3>8. CountersAgree'
      BY <1>4, <3>3, <3>7 DEF CountersAgree
    <3>9. turnsIn' = turnsOut' + Cardinality(TurnsTo(control', Len(control')))
      BY <1>3, <1>6, <1>8, <3>1, <3>3
    <3>10. TurnSurvives'
      BY <3>9 DEF TurnSurvives, TurnsTo
    <3> QED BY <1>3, <1>4, <1>6, <3>3, <3>5, <3>6, <3>8, <3>10 DEF CountInv
  <2> QED BY <1>10, <2>1, <2>2 DEF DropData
<1>11. CASE RefuseControl
  <2>1. UNCHANGED <<queues, held, turnsIn, turnsOut>>
    BY <1>3, <1>11 DEF RefuseControl
  <2> QED BY <1>3, <1>6, <2>1, CountUntouched
<1>12. (~Refused(e) /\ Accept(e)) \/ DropData \/ RefuseControl
  BY <1>1 DEF Push
<1> QED BY <1>9, <1>10, <1>11, <1>12

\* A take discharges what it takes, and counts a turn completion it delivers.
LEMMA CountTake ==
  ASSUME EventInv, CountInv, Pop \/ PopNested
  PROVE  CountInv'
<1>1. hand' = hand /\ UNCHANGED turnsIn
  BY DEF Pop, PopNested, threads, history
<1>2. /\ reqBytes = Bytes(requests) /\ ctlBytes = Bytes(control) /\ dataBytes = Bytes(data)
      /\ reqBytes \in Nat /\ ctlBytes \in Nat /\ dataBytes \in Nat
      /\ requests \in Seq(Events) /\ control \in Seq(Events) /\ data \in Seq(Events)
      /\ ControlCap \in Nat /\ DataCap \in Nat /\ MaxControlBytes \in Nat /\ MaxDataBytes \in Nat
  BY CountersAreNumbers
<1>3. /\ requests \in Seq(Requests) /\ turnsIn \in Nat /\ turnsOut \in Nat /\ held \subseteq Ids
      /\ Len(requests) <= ControlCap /\ Len(control) <= ControlCap /\ Len(data) <= DataCap
      /\ reqBytes + ctlBytes <= MaxControlBytes /\ dataBytes <= MaxDataBytes
      /\ turnsIn = turnsOut + Cardinality(TurnsTo(control, Len(control)))
      /\ \A r \in Producers : hand[r].kind = "request" => hand[r] \in Requests
      /\ Len(requests) \in Nat /\ Len(control) \in Nat /\ Len(data) \in Nat
  <2>1. Len(requests) \in Nat /\ Len(control) \in Nat /\ Len(data) \in Nat
    BY <1>2
  <2> QED BY <2>1, TurnsInControl DEF CountInv
<1>num. /\ reqBytes \in Nat /\ ctlBytes \in Nat /\ dataBytes \in Nat
      /\ ControlCap \in Nat /\ DataCap \in Nat /\ MaxControlBytes \in Nat /\ MaxDataBytes \in Nat
      /\ Len(requests) \in Nat /\ Len(control) \in Nat /\ Len(data) \in Nat
      /\ Len(requests) <= ControlCap /\ Len(control) <= ControlCap /\ Len(data) <= DataCap
      /\ reqBytes + ctlBytes <= MaxControlBytes /\ dataBytes <= MaxDataBytes
  BY <1>2, <1>3
<1>4. CASE /\ requests # << >> /\ TakeRequest /\ UNCHANGED turnsOut
  <2>1. /\ held' = held \cup {Head(requests).id} /\ requests' = Tail(requests)
        /\ reqBytes' = SatSub(reqBytes, Size["request"])
        /\ UNCHANGED <<control, data, ctlBytes, dataBytes>>
    BY <1>4 DEF TakeRequest
  <2>2. /\ Head(requests) \in Requests /\ requests' \in Seq(Requests) /\ Len(requests') = Len(requests) - 1
    BY <1>3, <1>4, <2>1
  <2>3. Head(requests).kind = "request" /\ Head(requests).id \in Ids
    BY <2>2 DEF Requests
  <2>4. reqBytes' = Bytes(requests') /\ reqBytes' \in Nat /\ reqBytes' <= reqBytes
    BY <1>2, <1>4, <2>1, <2>3, Charged
  <2>5. Len(requests') <= ControlCap /\ reqBytes' + ctlBytes' <= MaxControlBytes
    <3>1. ctlBytes' = ctlBytes
      BY <2>1
    <3>2. Len(requests') = Len(requests) - 1
      BY <2>2
    <3> QED BY <1>num, <2>4, <3>1, <3>2
  <2>6. CountersAgree'
    BY <1>2, <2>1, <2>4 DEF CountersAgree
  <2>7. TurnSurvives'
    BY <1>1, <1>4, <2>1 DEF CountInv, TurnSurvives
  <2>8. held' \subseteq Ids
    BY <1>3, <2>1, <2>3
  <2> QED BY <1>1, <1>2, <1>3, <1>4, <2>1, <2>2, <2>5, <2>6, <2>7, <2>8 DEF CountInv
<1>5. CASE PopControl
  <2>1. /\ control # << >> /\ control' = Tail(control)
        /\ ctlBytes' = SatSub(ctlBytes, Size[Head(control).kind])
        /\ turnsOut' = IF Head(control).kind = "turn" THEN turnsOut + 1 ELSE turnsOut
        /\ UNCHANGED <<requests, data, reqBytes, dataBytes, held>>
    BY <1>5 DEF PopControl
  <2>2. control' \in Seq(Events) /\ Len(control') = Len(control) - 1
    BY <1>2, <2>1
  <2>3. ctlBytes' = Bytes(control') /\ ctlBytes' \in Nat /\ ctlBytes' <= ctlBytes
    BY <1>2, <2>1, Charged
  <2>4. Len(control') <= ControlCap /\ reqBytes' + ctlBytes' <= MaxControlBytes
    <3>1. reqBytes' = reqBytes /\ Len(control') = Len(control) - 1
      BY <2>1, <2>2
    <3> QED BY <1>num, <2>3, <3>1
  <2>5. CountersAgree'
    BY <1>2, <2>1, <2>3 DEF CountersAgree
  <2>6. PICK n \in Nat : n = Cardinality(TurnsTo(control', Len(control')))
    BY <2>2, TurnsAtEnds
  <2>7. Cardinality(TurnsTo(control, Len(control))) = IF Head(control).kind = "turn" THEN n + 1 ELSE n
    BY <1>2, <2>1, <2>6, TurnsAtEnds
  <2>8. turnsOut' \in Nat /\ turnsIn' = turnsOut' + n
    <3>1. /\ turnsIn' = turnsIn /\ turnsOut \in Nat
          /\ turnsIn = turnsOut + Cardinality(TurnsTo(control, Len(control)))
      BY <1>1, <1>3
    <3>2. CASE Head(control).kind = "turn"
      BY <2>1, <2>7, <3>1, <3>2
    <3>3. CASE Head(control).kind # "turn"
      BY <2>1, <2>7, <3>1, <3>3
    <3> QED BY <3>2, <3>3
  <2>9. TurnSurvives'
    BY <2>6, <2>8 DEF TurnSurvives, TurnsTo
  <2> QED BY <1>1, <1>2, <1>3, <2>1, <2>2, <2>4, <2>5, <2>8, <2>9 DEF CountInv
<1>6. CASE PopData
  <2>1. /\ data # << >> /\ data' = Tail(data)
        /\ dataBytes' = SatSub(dataBytes, Size[Head(data).kind])
        /\ UNCHANGED <<requests, control, reqBytes, ctlBytes, held, turnsOut>>
    BY <1>6 DEF PopData
  <2>2. data' \in Seq(Events) /\ Len(data') = Len(data) - 1
    BY <1>2, <2>1
  <2>3. dataBytes' = Bytes(data') /\ dataBytes' \in Nat /\ dataBytes' <= dataBytes
    BY <1>2, <2>1, Charged
  <2>4. Len(data') <= DataCap /\ dataBytes' <= MaxDataBytes
    <3>1. Len(data') = Len(data) - 1
      BY <2>1, <2>2
    <3> QED BY <1>num, <2>3, <3>1
  <2>5. CountersAgree'
    BY <1>2, <2>1, <2>3 DEF CountersAgree
  <2>6. TurnSurvives'
    BY <1>1, <2>1 DEF CountInv, TurnSurvives
  <2> QED BY <1>1, <1>2, <1>3, <2>1, <2>2, <2>4, <2>5, <2>6 DEF CountInv
<1> QED BY <1>4, <1>5, <1>6 DEF Pop, PopNested, PopRequest, history

\* The close counts again what it retains.
LEMMA CountClose ==
  ASSUME EventInv, CountInv, CloseEvents
  PROVE  CountInv'
<1>1. /\ requests' = << >> /\ reqBytes' = 0 /\ data' = << >> /\ dataBytes' = 0
      /\ control' = Retained(control)[Len(control)] /\ ctlBytes' = Bytes(control')
      /\ hand' = hand /\ UNCHANGED <<held, turnsIn, turnsOut>>
  BY DEF CloseEvents, RetainTerminal, threads, ledger
<1>2. /\ ctlBytes = Bytes(control) /\ reqBytes \in Nat /\ ctlBytes \in Nat /\ control \in Seq(Events)
      /\ ControlCap \in Nat /\ DataCap \in Nat /\ MaxControlBytes \in Nat /\ MaxDataBytes \in Nat
  BY CountersAreNumbers
<1>3. /\ control' \in Seq(Events) /\ Len(control') <= Len(control)
      /\ Bytes(control') <= Bytes(control) /\ Bytes(control') \in Nat
      /\ Cardinality(TurnsTo(control', Len(control'))) = Cardinality(TurnsTo(control, Len(control)))
  BY <1>1, <1>2, RetainedKeeps
<1>4. /\ held \subseteq Ids /\ turnsIn \in Nat /\ turnsOut \in Nat /\ Len(control) <= ControlCap
      /\ reqBytes + ctlBytes <= MaxControlBytes
      /\ turnsIn = turnsOut + Cardinality(TurnsTo(control, Len(control)))
      /\ \A r \in Producers : hand[r].kind = "request" => hand[r] \in Requests
  BY TurnsInControl DEF CountInv
<1>5. /\ requests' \in Seq(Requests) /\ data' \in Seq(Events)
      /\ Len(requests') <= ControlCap /\ Len(data') <= DataCap /\ dataBytes' <= MaxDataBytes
  <2>1. Len(<< >>) = 0 /\ << >> \in Seq(Requests) /\ << >> \in Seq(Events)
    OBVIOUS
  <2> QED BY <1>1, <1>2, <2>1
<1>6. Len(control') <= ControlCap /\ reqBytes' + ctlBytes' <= MaxControlBytes
  <2>1. Len(control') \in Nat /\ Len(control) \in Nat
    BY <1>2, <1>3
  <2> QED BY <1>1, <1>2, <1>3, <1>4, <2>1
<1>7. CountersAgree'
  <2>1. Bytes(<< >>) = 0
    BY <1>2, Charged
  <2> QED BY <1>1, <2>1 DEF CountersAgree
<1>8. TurnSurvives'
  BY <1>1, <1>3, <1>4 DEF TurnSurvives, TurnsTo
<1> QED BY <1>1, <1>3, <1>4, <1>5, <1>6, <1>7, <1>8 DEF CountInv

\* Every step keeps the counters.
LEMMA CountStep ==
  ASSUME EventInv, CountInv, [Next]_vars
  PROVE  CountInv'
<1>0. \A r \in Producers : hand[r].kind = "request" => hand[r] \in Requests
  BY DEF CountInv
<1>1. CASE UNCHANGED vars
  <2>1. UNCHANGED <<queues, held, turnsIn, turnsOut>> /\ hand' = hand
    BY <1>1 DEF vars, ledger, history, threads
  <2> QED BY <1>0, <2>1, CountUntouched
<1>2. CASE ReaderBrings
  <2>1. PICK k \in {"status", "turn", "delta", "fault"} : Bring("reader", "entry", Event(k, NoId), k = "fault")
    BY <1>2 DEF ReaderBrings
  <2>2. Event(k, NoId).kind # "request" /\ "reader" \in Producers
    BY DEF Event, Producers
  <2>3. UNCHANGED <<queues, held, turnsIn, turnsOut>>
    BY <1>2 DEF ReaderBrings, ledger, history
  <2> QED BY <2>1, <2>2, <2>3, CountBring
<1>3. CASE StderrBrings \/ MonitorBrings \/ WriterBrings \/ ClientOverflow
  <2>1. \E p \in Producers, label \in {"entry", "push"}, k \in {"stderr", "fault", "notice"}, closing \in BOOLEAN :
          Bring(p, label, Event(k, NoId), closing)
    BY <1>3 DEF StderrBrings, MonitorBrings, WriterBrings, ClientOverflow, Producers
  <2>2. PICK p \in Producers, label \in {"entry", "push"}, k \in {"stderr", "fault", "notice"}, closing \in BOOLEAN :
          Bring(p, label, Event(k, NoId), closing)
    BY <2>1
  <2>3. Event(k, NoId).kind # "request"
    BY DEF Event
  <2>4. UNCHANGED <<queues, held, turnsIn, turnsOut>>
    BY <1>3 DEF StderrBrings, MonitorBrings, WriterBrings, ClientOverflow, ledger, history
  <2> QED BY <2>2, <2>3, <2>4, CountBring
<1>4. ASSUME NEW id \in Ids, ReaderBringsRequest(id) PROVE CountInv'
  <2>1. PICK e \in {Event("request", id), Event("fault", NoId)}, closing \in BOOLEAN :
          Bring("reader", "entry", e, closing)
    BY <1>4 DEF ReaderBringsRequest
  <2>2. (e.kind = "request" => e \in Requests) /\ "reader" \in Producers
    BY DEF Event, Requests, Producers
  <2>3. UNCHANGED <<queues, held, turnsIn, turnsOut>>
    BY <1>4 DEF ReaderBringsRequest, history
  <2> QED BY <2>1, <2>2, <2>3, CountBring
<1>5. ASSUME NEW id \in Ids, Respond(id) PROVE CountInv'
  <2>1. UNCHANGED <<queues, held, turnsIn, turnsOut>>
    BY <1>5 DEF Respond, history
  <2>2. CASE UNCHANGED threads
    <3>1. hand' = hand
      BY <2>2 DEF threads
    <3> QED BY <1>0, <2>1, <3>1, CountUntouched
  <2>3. CASE Bring("client", "entry", Event("fault", NoId), TRUE)
    <3>1. Event("fault", NoId).kind # "request" /\ "client" \in Producers
      BY DEF Event, Producers
    <3> QED BY <2>1, <2>3, <3>1, CountBring
  <2> QED BY <1>5, <2>2, <2>3 DEF Respond
<1>6. ASSUME NEW p \in Producers, Enter(p) \/ CheckFatal(p) \/ FailClosed(p) PROVE CountInv'
  <2>1. UNCHANGED <<queues, held, turnsIn, turnsOut>> /\ hand' = hand
    BY <1>6 DEF Enter, CheckFatal, FailClosed, Goto, threads, ledger, history
  <2> QED BY <1>0, <2>1, CountUntouched
<1>7. CASE CloseElsewhere \/ PopFatal
  <2>1. UNCHANGED <<queues, held, turnsIn, turnsOut>> /\ hand' = hand
    BY <1>7 DEF CloseElsewhere, PopFatal, threads, ledger, history
  <2> QED BY <1>0, <2>1, CountUntouched
<1>8. ASSUME NEW p \in Producers, Push(p) PROVE CountInv'
  BY <1>8, CountPush
<1>9. CASE CloseEvents
  BY <1>9, CountClose
<1>10. CASE Pop \/ PopNested
  BY <1>10, CountTake
<1> QED BY <1>1, <1>2, <1>3, <1>4, <1>5, <1>6, <1>7, <1>8, <1>9, <1>10 DEF Next

\* What the counters, the bounds and the turn completions keep true.
LEMMA CountsHold == Spec => [](EventInv /\ CountInv)
<1>1. ASSUME Init PROVE CountInv
  <2>1. /\ << >> \in Seq(Requests) /\ << >> \in Seq(Events) /\ Len(<< >>) = 0
    OBVIOUS
  <2>2. Bytes(<< >>) = 0
    BY <2>1, Charged
  <2>3. TurnsTo(<< >>, 0) = {} /\ Cardinality({}) = 0
    BY FS_EmptySet DEF TurnsTo
  <2>4. CountersAgree
    BY <1>1, <2>2 DEF Init, CountersAgree
  <2>5. turnsIn = turnsOut + Cardinality(TurnsTo(control, Len(control)))
    <3>1. control = << >> /\ turnsIn = 0 /\ turnsOut = 0
      BY <1>1 DEF Init
    <3>2. Cardinality(TurnsTo(control, Len(control))) = 0
      <4>1. TurnsTo(control, Len(control)) = TurnsTo(<< >>, 0)
        BY <2>1, <3>1
      <4> QED BY <2>3, <4>1
    <3> QED BY <3>1, <3>2
  <2>6. \A p \in Producers : hand[p].kind # "request"
    BY <1>1 DEF Init, Event
  <2>7. /\ Len(requests) <= ControlCap /\ Len(control) <= ControlCap /\ Len(data) <= DataCap
        /\ reqBytes + ctlBytes <= MaxControlBytes /\ dataBytes <= MaxDataBytes
    BY <1>1, <2>1, LimitsAssumption DEF Init
  <2>8. /\ requests \in Seq(Requests) /\ control \in Seq(Events) /\ data \in Seq(Events)
        /\ held \subseteq Ids /\ turnsIn \in Nat /\ turnsOut \in Nat
    BY <1>1, <2>1 DEF Init
  <2> QED BY <2>4, <2>5, <2>6, <2>7, <2>8, TurnsInControl DEF CountInv
<1>2. EventInv /\ CountInv /\ [Next]_vars => CountInv'
  BY CountStep
<1> QED BY <1>1, <1>2, EventsAreAccounted, PTL DEF Spec

\* No sequence of pushes, pops and closes gets past a capacity or a byte budget, and
\* the three counters are the bytes really queued (events.rs, push, pop, close).
THEOREM QueuesAlwaysAgree == Spec => []QueuesAgree
<1>1. EventInv /\ CountInv => QueuesAgree
  <2> SUFFICES ASSUME EventInv, CountInv PROVE QueuesAgree
    OBVIOUS
  <2>1. /\ reqBytes \in Nat /\ ctlBytes \in Nat /\ dataBytes \in Nat
        /\ requests \in Seq(Events) /\ control \in Seq(Events) /\ data \in Seq(Events)
        /\ ControlCap \in Nat /\ DataCap \in Nat /\ MaxControlBytes \in Nat /\ MaxDataBytes \in Nat
    BY CountersAreNumbers
  <2>2. \A q \in {requests, control, data} : \A i \in 1..Len(q) : q[i].kind \in Kind
    <3>1. \A e \in Events : e.kind \in Kind
      BY DEF Events
    <3>2. \A q \in {requests, control, data} : \A i \in 1..Len(q) : q[i] \in Events
      BY <2>1
    <3> QED BY <3>1, <3>2, Zenon
  <2>3. reqBytes + ctlBytes \in 0..MaxControlBytes /\ dataBytes \in 0..MaxDataBytes
    BY <2>1 DEF CountInv
  <2>4. TypeOK
    BY <2>2, <2>3 DEF TypeOK, CountInv, EventInv, QueueTypes
  <2> QED BY <2>4 DEF QueuesAgree, CountInv
<1> QED BY <1>1, CountsHold, PTL

\* Nothing that reached the queue is lost without a trace: an open session accounts for
\* every request and for dropped data, and an accepted turn completion is delivered
\* exactly once or still queued, also across a close (events.rs, push, pop, close).
THEOREM NothingIsLostSilently == Spec => []NothingLostSilently
<1>1. EventInv /\ CountInv => NothingLostSilently
  BY DEF EventInv, CountInv, NothingLostSilently
<1> QED BY <1>1, CountsHold, PTL

-----------------------------------------------------------------------------
(* The event worker and the actor's approval ledger (Commands).            *)

\* Control events of the sidecar, and what the worker may have in hand.
CtlEvents == [kind : {"turn"}, of : Turns] \cup [kind : {"eof"}, of : {0}]
WorkerEvents == CtlEvents \cup [kind : {"request", "notification"}, of : Req] \cup [kind : {None}, of : {0}]
\* The session's queue, the worker and its signals to the actor, and the answers.
Pumps == [req : Seq(Req), ctl : Seq(CtlEvents), data : Seq(Req)]
Workers == [g : 0..MaxGen, pc : {"poll", "handle", "await", "done"}, ev : WorkerEvents,
            suppress : BOOLEAN, cancel : BOOLEAN]
Signals == [g : 0..MaxGen, kind : {"approval", "turn"}, of : Req \cup Turns]
Replies == {"expired", "decision", "not_found", "method_not_found", "resolved", "invalid"}

\* The parts of the state that CommandsTypeOK leaves open.
CommandsTypes ==
  /\ CommandsTypeOK
  /\ pump \in Pumps /\ worker \in Workers /\ lane \in Seq(Signals)
  /\ retired \in Seq(ApprovalIds) /\ replies \in [Req -> Seq(Replies)]
  /\ Len(sent) <= MaxRequests

\* What the actor, the worker and the session know of the generation: one runtime
\* at a time, its worker told before it is stopped, nothing waiting without it.
LifeAgrees ==
  /\ announced \in {0, Len(sent) + 1} /\ (announced # 0 => open /\ gen # 0)
  /\ ~open => pump.req = <<>>
  /\ actor = "replay" => gen = 0 /\ nextGen <= MaxGen
  /\ gen = 0 => worker.pc = "done" /\ pump.req = <<>>
  /\ gen = 0 \/ actor = "stopping" => \A i \in ApprovalIds : pending[i] = 0
  /\ gen # 0 => gen + 1 = nextGen /\ worker.g = gen
  /\ actor = "stopping" => gen # 0 /\ worker.cancel
  /\ gen # 0 /\ actor # "stopping" => current = gen /\ ~worker.cancel
  /\ \A n \in DOMAIN sent : sent[n] < nextGen

\* The four places an unanswered request may be in.
Queued(n) == \E k \in 1..Len(pump.req) : pump.req[k] = n
Handled(n) == worker.pc = "handle" /\ worker.ev.kind = "request" /\ worker.ev.of = n
Signalled(n) == \E k \in 1..Len(lane) : lane[k].kind = "approval" /\ lane[k].of = n
Registered(n) == \E i \in ApprovalIds : pending[i] = n

\* Request n was sent by generation g and has no answer.
Unanswered(n, g) == n \in DOMAIN sent /\ sent[n] = g /\ replies[n] = <<>>

\* Only what was sent is answered.
AnswersSent == \A n \in Req : replies[n] # <<>> => n \in DOMAIN sent

\* A queued request is of the running generation, unanswered, and queued once.
QueueHolds ==
  /\ \A k \in 1..Len(pump.req) : Unanswered(pump.req[k], gen)
  /\ \A j, k \in 1..Len(pump.req) : pump.req[j] = pump.req[k] => j = k

\* A request in the worker's hand is unanswered and no longer queued.
HandHolds == \A n \in Req : Handled(n) => Unanswered(n, worker.g) /\ ~Queued(n)

\* A signalled approval is unanswered, signalled once and nowhere before the lane.
LaneHolds ==
  /\ \A k \in 1..Len(lane) : lane[k].kind = "approval" =>
       /\ Unanswered(lane[k].of, lane[k].g)
       /\ ~Queued(lane[k].of) /\ ~Handled(lane[k].of)
  /\ \A j, k \in 1..Len(lane) :
       lane[j].kind = "approval" /\ lane[k].kind = "approval" /\ lane[j].of = lane[k].of => j = k

\* A pending approval is unanswered, under its own id, not retired and nowhere else.
MapHolds ==
  \A i \in ApprovalIds : pending[i] # 0 =>
    /\ Unanswered(pending[i], gen) /\ IdOf(pending[i]) = i /\ ~Contains(retired, i)
    /\ ~Queued(pending[i]) /\ ~Handled(pending[i]) /\ ~Signalled(pending[i])

\* A request of the running generation is in one of them, or its end is near.
NoneForgotten ==
  \A n \in Req :
    (open /\ IsLive(n) /\ replies[n] = <<>>) =>
      Queued(n) \/ Handled(n) \/ Signalled(n) \/ Registered(n) \/ fault = gen \/ actor = "stopping"

\* Everything the worker and the actor keep true between two steps.
CommandsInv ==
  /\ CommandsTypes /\ OneAnswer /\ AnswersSent /\ LifeAgrees
  /\ QueueHolds /\ HandHolds /\ LaneHolds /\ MapHolds /\ NoneForgotten

-----------------------------------------------------------------------------
\* Sequences: what is at the places of a tail and of an append.
LEMMA TailPlaces ==
  ASSUME NEW S, NEW q \in Seq(S), q # <<>>
  PROVE  /\ Tail(q) \in Seq(S) /\ Len(q) \in Nat \ {0} /\ Len(Tail(q)) = Len(q) - 1
         /\ Head(q) = q[1] /\ q[1] \in S
         /\ \A k \in 1..Len(Tail(q)) : k + 1 \in 1..Len(q) /\ Tail(q)[k] = q[k + 1]
         /\ \A k \in 1..Len(q) : k # 1 => k - 1 \in 1..Len(Tail(q)) /\ Tail(q)[k - 1] = q[k]
  OBVIOUS

\* The places of a sequence with one more element.
LEMMA AppendPlaces ==
  ASSUME NEW S, NEW q \in Seq(S), NEW e \in S
  PROVE  /\ Append(q, e) \in Seq(S) /\ Len(q) \in Nat /\ Len(Append(q, e)) = Len(q) + 1
         /\ Append(q, e)[Len(q) + 1] = e
         /\ \A k \in 1..Len(q) : Append(q, e)[k] = q[k]
         /\ \A k \in 1..(Len(q) + 1) : k = Len(q) + 1 \/ k \in 1..Len(q)
  OBVIOUS

\* An element of a sequence is at one of its places.
LEMMA ElementOf ==
  ASSUME NEW S, NEW q \in Seq(S), NEW k \in 1..Len(q)
  PROVE  q[k] \in S
  OBVIOUS

\* The answer that a request gets is its first.
LEMMA FirstAnswer ==
  ASSUME CommandsInv, NEW n \in Req, replies[n] = <<>>, NEW a \in Replies
  PROVE  Append(replies[n], a) \in Seq(Replies) /\ Len(Append(replies[n], a)) = 1
         /\ Append(replies[n], a) # <<>>
  BY DEF CommandsInv, CommandsTypes

\* Emptying a place or taking its first adds nothing to it.
LEMMA PlacesShrink ==
  ASSUME CommandsInv,
         \/ pump'.req = pump.req \/ pump'.req = <<>>
         \/ pump.req # <<>> /\ pump'.req = Tail(pump.req),
         worker'.pc # "handle" \/ worker'.ev.kind # "request"
           \/ (worker'.pc = worker.pc /\ worker'.ev = worker.ev /\ worker'.g = worker.g),
         lane' = lane \/ (lane # <<>> /\ lane' = Tail(lane))
  PROVE  /\ \A n : Queued(n)' => Queued(n)
         /\ \A n : Handled(n)' => Handled(n) /\ worker'.g = worker.g
         /\ \A k \in 1..Len(lane') : lane'[k] \in Signals /\ \E j \in 1..Len(lane) : lane'[k] = lane[j]
         /\ \A n : Signalled(n)' => Signalled(n)
<1>0. /\ pump.req \in Seq(Req) /\ lane \in Seq(Signals) /\ pending \in [ApprovalIds -> 0..MaxRequests]
      /\ sent \in Seq(1..MaxGen) /\ Len(sent) <= MaxRequests /\ DOMAIN sent \subseteq Req
  <2>0. pump \in Pumps
    BY DEF CommandsInv, CommandsTypes
  <2>1. pump.req \in Seq(Req)
    BY <2>0 DEF Pumps
  <2>2. DOMAIN sent \subseteq Req
    <3>1. sent \in Seq(1..MaxGen) /\ Len(sent) <= MaxRequests
      BY DEF CommandsInv, CommandsTypes, CommandsTypeOK
    <3> QED
      BY <3>1, CommandsAssumption DEF Req
  <2> QED
    BY <2>1, <2>2 DEF CommandsInv, CommandsTypes, CommandsTypeOK
<1>1. \A n : Queued(n)' => Queued(n)
  <2>1. CASE pump'.req = pump.req \/ pump'.req = <<>>
    BY <2>1 DEF Queued
  <2>2. CASE pump.req # <<>> /\ pump'.req = Tail(pump.req)
    <3>1. \A k \in 1..Len(pump'.req) : k + 1 \in 1..Len(pump.req) /\ pump'.req[k] = pump.req[k + 1]
      BY <1>0, <2>2, TailPlaces
    <3> QED
      BY <3>1 DEF Queued
  <2> QED
    BY <2>1, <2>2
<1>2. \A n : Handled(n)' => Handled(n) /\ worker'.g = worker.g
  BY DEF Handled
<1>3. \A k \in 1..Len(lane') : lane'[k] \in Signals /\ \E j \in 1..Len(lane) : lane'[k] = lane[j]
  <2>1. CASE lane' = lane
    BY <1>0, <2>1
  <2>2. CASE lane # <<>> /\ lane' = Tail(lane)
    <3>1. /\ \A k \in 1..Len(lane') : k + 1 \in 1..Len(lane) /\ lane'[k] = lane[k + 1]
          /\ \A k \in 1..Len(lane) : lane[k] \in Signals
      BY <1>0, <2>2, TailPlaces
    <3> QED
      BY <3>1
  <2> QED
    BY <2>1, <2>2
<1>9. \A n : Signalled(n)' => Signalled(n)
  BY <1>3 DEF Signalled
<1> QED
  BY <1>1, <1>2, <1>3, <1>9

\* A step that only takes requests out of their places, and answers none that
\* stays in one, keeps the places disjoint and their requests unanswered.
LEMMA PlacesLose ==
  ASSUME CommandsInv, sent' = sent, replies' \in [Req -> Seq(Replies)],
         \/ pump'.req = pump.req \/ pump'.req = <<>>
         \/ pump.req # <<>> /\ pump'.req = Tail(pump.req),
         pump'.req # <<>> => gen' = gen,
         worker'.pc # "handle" \/ worker'.ev.kind # "request"
           \/ (worker'.pc = worker.pc /\ worker'.ev = worker.ev /\ worker'.g = worker.g),
         lane' = lane \/ (lane # <<>> /\ lane' = Tail(lane)),
         \A i \in ApprovalIds : pending'[i] = 0 \/ (pending'[i] = pending[i] /\ gen' = gen),
         \A i \in ApprovalIds : pending'[i] # 0 /\ Contains(retired', i) => Contains(retired, i),
         \A n \in Req : \/ replies'[n] = replies[n]
                        \/ ~Queued(n)' /\ ~Handled(n)' /\ ~Signalled(n)' /\ ~Registered(n)'
  PROVE  QueueHolds' /\ HandHolds' /\ LaneHolds' /\ MapHolds'
<1>0. /\ pump.req \in Seq(Req) /\ lane \in Seq(Signals) /\ pending \in [ApprovalIds -> 0..MaxRequests]
      /\ sent \in Seq(1..MaxGen) /\ Len(sent) <= MaxRequests /\ DOMAIN sent \subseteq Req
  <2>0. pump \in Pumps
    BY DEF CommandsInv, CommandsTypes
  <2>1. pump.req \in Seq(Req)
    BY <2>0 DEF Pumps
  <2>2. DOMAIN sent \subseteq Req
    <3>1. sent \in Seq(1..MaxGen) /\ Len(sent) <= MaxRequests
      BY DEF CommandsInv, CommandsTypes, CommandsTypeOK
    <3> QED
      BY <3>1, CommandsAssumption DEF Req
  <2> QED
    BY <2>1, <2>2 DEF CommandsInv, CommandsTypes, CommandsTypeOK
<1>1. \A n : Queued(n)' => Queued(n)
  BY PlacesShrink
<1>2. \A n : Handled(n)' => Handled(n) /\ worker'.g = worker.g
  BY PlacesShrink
<1>3. \A k \in 1..Len(lane') : lane'[k] \in Signals /\ \E j \in 1..Len(lane) : lane'[k] = lane[j]
  BY PlacesShrink
<1>9. \A n : Signalled(n)' => Signalled(n)
  BY PlacesShrink
<1>4. \A n \in Req : \A g : Unanswered(n, g) /\ (Queued(n)' \/ Handled(n)' \/ Signalled(n)' \/ Registered(n)')
        => Unanswered(n, g)'
  BY DEF Unanswered
<1>5. QueueHolds'
  <2>2. \A n : Queued(n) => Unanswered(n, gen)
    BY DEF CommandsInv, QueueHolds, Queued
  <2>3. \A k \in 1..Len(pump'.req) : Unanswered(pump.req[k], gen)'
    <3> SUFFICES ASSUME NEW k \in 1..Len(pump'.req) PROVE Unanswered(pump.req[k], gen)'
      OBVIOUS
    <3>1. PICK n : n = pump'.req[k]
      OBVIOUS
    <3>2. Queued(n)' /\ gen' = gen
      BY <3>1 DEF Queued
    <3>3. Unanswered(n, gen) /\ n \in Req
      BY <3>2, <2>2, <1>0, <1>1 DEF Unanswered
    <3>4. Unanswered(n, gen)'
      BY <3>2, <3>3, <1>4 DEF Unanswered
    <3> QED
      BY <3>1, <3>4 DEF Unanswered
  <2>4. \A j, k \in 1..Len(pump'.req) : pump'.req[j] = pump'.req[k] => j = k
    <3> SUFFICES ASSUME NEW j \in 1..Len(pump'.req), NEW k \in 1..Len(pump'.req), pump'.req[j] = pump'.req[k]
                 PROVE  j = k
      OBVIOUS
    <3>1. \A a, b \in 1..Len(pump.req) : pump.req[a] = pump.req[b] => a = b
      BY DEF CommandsInv, QueueHolds
    <3>2. CASE pump'.req = pump.req \/ pump'.req = <<>>
      BY <3>1, <3>2
    <3>3. CASE pump.req # <<>> /\ pump'.req = Tail(pump.req)
      <4>1. /\ j + 1 \in 1..Len(pump.req) /\ pump'.req[j] = pump.req[j + 1]
            /\ k + 1 \in 1..Len(pump.req) /\ pump'.req[k] = pump.req[k + 1]
        BY <1>0, <3>3, TailPlaces
      <4>2. j + 1 = k + 1
        BY <4>1, <3>1
      <4> QED
        BY <4>2
    <3> QED
      BY <3>2, <3>3
  <2> QED
    BY <2>3, <2>4 DEF QueueHolds
<1>6. HandHolds'
  BY <1>1, <1>2, <1>4 DEF CommandsInv, HandHolds
<1>7. LaneHolds'
  <2>1. \A j \in 1..Len(lane) : lane[j].kind = "approval" =>
          Unanswered(lane[j].of, lane[j].g) /\ ~Queued(lane[j].of) /\ ~Handled(lane[j].of)
    BY DEF CommandsInv, LaneHolds
  <2>3. \A k \in 1..Len(lane') : lane'[k].kind = "approval" =>
          Unanswered(lane[k].of, lane[k].g)' /\ ~Queued(lane[k].of)' /\ ~Handled(lane[k].of)'
    <3> SUFFICES ASSUME NEW k \in 1..Len(lane'), lane'[k].kind = "approval"
                 PROVE  Unanswered(lane[k].of, lane[k].g)' /\ ~Queued(lane[k].of)' /\ ~Handled(lane[k].of)'
      OBVIOUS
    <3>1. PICK x, g : x = lane'[k].of /\ g = lane'[k].g
      OBVIOUS
    <3>2. Signalled(x)'
      BY <3>1 DEF Signalled
    <3>3. PICK j \in 1..Len(lane) : lane'[k] = lane[j]
      BY <1>3
    <3>4. Unanswered(x, g) /\ ~Queued(x) /\ ~Handled(x)
      BY <2>1, <3>1, <3>3
    <3>5. x \in Req
      BY <3>4, <1>0 DEF Unanswered
    <3>6. Unanswered(x, g)' /\ ~Queued(x)' /\ ~Handled(x)'
      BY <3>2, <3>4, <3>5, <1>1, <1>2, <1>4
    <3> QED
      BY <3>1, <3>6 DEF Unanswered, Queued, Handled
  <2>4. \A j, k \in 1..Len(lane') :
          lane'[j].kind = "approval" /\ lane'[k].kind = "approval" /\ lane'[j].of = lane'[k].of => j = k
    <3> SUFFICES ASSUME NEW j \in 1..Len(lane'), NEW k \in 1..Len(lane'), lane'[j].kind = "approval",
                        lane'[k].kind = "approval", lane'[j].of = lane'[k].of
                 PROVE  j = k
      OBVIOUS
    <3>1. \A a, b \in 1..Len(lane) :
            lane[a].kind = "approval" /\ lane[b].kind = "approval" /\ lane[a].of = lane[b].of => a = b
      BY DEF CommandsInv, LaneHolds
    <3>2. CASE lane' = lane
      BY <3>1, <3>2
    <3>3. CASE lane # <<>> /\ lane' = Tail(lane)
      <4>1. /\ j + 1 \in 1..Len(lane) /\ lane'[j] = lane[j + 1]
            /\ k + 1 \in 1..Len(lane) /\ lane'[k] = lane[k + 1]
        BY <1>0, <3>3, TailPlaces
      <4>2. j + 1 = k + 1
        BY <4>1, <3>1
      <4> QED
        BY <4>2
    <3> QED
      BY <3>2, <3>3
  <2> QED
    BY <2>3, <2>4 DEF LaneHolds
<1>8. MapHolds'
  <2> SUFFICES ASSUME NEW i \in ApprovalIds, pending'[i] # 0
               PROVE  /\ Unanswered(pending[i], gen)' /\ IdOf(pending'[i]) = i /\ ~Contains(retired', i)
                      /\ ~Queued(pending[i])' /\ ~Handled(pending[i])' /\ ~Signalled(pending[i])'
    BY DEF MapHolds
  <2>1. PICK n : n = pending[i]
    OBVIOUS
  <2>2. pending'[i] = n /\ gen' = gen /\ n # 0 /\ n \in Req
    <3>1. pending'[i] = n /\ gen' = gen
      BY <2>1, <1>0
    <3>2. n \in 0..MaxRequests
      BY <2>1, <1>0
    <3> QED BY <3>1, <3>2, CommandsAssumption DEF Req
  <2>3. /\ Unanswered(n, gen) /\ IdOf(n) = i /\ ~Contains(retired, i)
        /\ ~Queued(n) /\ ~Handled(n) /\ ~Signalled(n)
    BY <2>1, <2>2 DEF CommandsInv, MapHolds
  <2>4. Registered(n)'
    BY <2>2 DEF Registered
  <2>5. Unanswered(n, gen)'
    BY <2>2, <2>3, <2>4, <1>4 DEF Unanswered
  <2>6. ~Queued(n)' /\ ~Handled(n)' /\ ~Signalled(n)'
    BY <2>3, <1>1, <1>2, <1>9
  <2> QED
    BY <2>2, <2>3, <2>5, <2>6 DEF Unanswered, Queued, Handled, Signalled
<1> QED
  BY <1>5, <1>6, <1>7, <1>8

\* record_retired_approval keeps the bound and invents no approval.
LEMMA RememberFacts ==
  ASSUME NEW order \in Seq(ApprovalIds), NEW ids \in SUBSET ApprovalIds, IsFiniteSet(ids)
  PROVE  /\ Remember(order, ids) \in Seq(ApprovalIds) /\ Len(Remember(order, ids)) <= MaxRetired
         /\ \A i : Contains(Remember(order, ids), i) => i \in ids \/ Contains(order, i)
<1> DEFINE new == {i \in ids : ~Contains(order, i)}
           s == SetToSeq(new)
           all == order \o s
           cut == IF Len(all) > MaxRetired THEN Len(all) - MaxRetired ELSE 0
<1>1. IsFiniteSet(new) /\ new \subseteq ApprovalIds
  BY FS_Subset
<1>2. Cardinality(new) \in Nat /\ ExistsBijection(1..Cardinality(new), new)
  BY <1>1, FS_CardinalityType
<1>3. \E f \in [1..Cardinality(new) -> new] : IsInjective(f)
  BY <1>2 DEF ExistsBijection, Bijection, Injection, IsInjective
<1>4. s \in [1..Cardinality(new) -> new]
  BY <1>3 DEF SetToSeq
<1> HIDE DEF new
<1>5. s \in Seq(new) /\ Len(s) = Cardinality(new)
  BY <1>2, <1>4
<1>6. s \in Seq(ApprovalIds) /\ \A k \in 1..Len(s) : s[k] \in new
  BY <1>1, <1>5
<1> HIDE DEF s
<1>7. /\ all \in Seq(ApprovalIds) /\ Len(all) = Len(order) + Len(s) /\ Len(order) \in Nat /\ Len(s) \in Nat
      /\ \A k \in 1..Len(all) : (k <= Len(order) /\ all[k] = order[k])
                                \/ (k - Len(order) \in 1..Len(s) /\ all[k] = s[k - Len(order)])
  BY <1>6
<1>8. \A k \in 1..Len(all) : all[k] \in ids \/ Contains(order, all[k])
  BY <1>6, <1>7 DEF Contains, new
<1> HIDE DEF all
<1>9. cut \in Nat /\ cut <= Len(all) /\ Len(all) - cut <= MaxRetired /\ Len(all) \in Nat
  BY <1>7, CommandsAssumption
<1> HIDE DEF cut
<1>10. /\ SubSeq(all, 1 + cut, Len(all)) \in Seq(ApprovalIds)
       /\ Len(SubSeq(all, 1 + cut, Len(all))) = Len(all) - cut
       /\ \A k \in 1..(Len(all) - cut) : SubSeq(all, 1 + cut, Len(all))[k] = all[k + cut]
                                         /\ k + cut \in 1..Len(all)
  BY <1>7, <1>9, SMTT(40)
<1>11. Remember(order, ids) = SubSeq(all, 1 + cut, Len(all))
  BY DEF Remember, all, s, new, cut
<1> QED
  BY <1>8, <1>9, <1>10, <1>11 DEF Contains

\* The approvals that wait are finitely many: each waits with its own request.
LEMMA WaitingFinite ==
  ASSUME CommandsInv
  PROVE  /\ IsFiniteSet(Waiting) /\ Waiting \subseteq ApprovalIds
         /\ \A i, j \in Waiting : pending[i] = pending[j] => i = j
<1> DEFINE f == [i \in Waiting |-> pending[i]]
<1>1. \A i \in Waiting : pending[i] \in Req /\ IdOf(pending[i]) = i
  BY CommandsAssumption DEF CommandsInv, CommandsTypes, CommandsTypeOK, MapHolds, Waiting, Req
<1>2. \A i, j \in Waiting : pending[i] = pending[j] => i = j
  BY <1>1
<1>3. f \in Injection(Waiting, Req)
  <2>1. f \in [Waiting -> Req] /\ \A a, b \in Waiting : f[a] = f[b] => a = b
    BY <1>1, <1>2
  <2> QED
    BY <2>1 DEF Injection, IsInjective
<1>4. IsFiniteSet(Req)
  <2>1. 1 \in Int /\ MaxRequests \in Int
    BY CommandsAssumption
  <2> QED
    BY <2>1, FS_Interval DEF Req
<1> QED
  BY <1>2, <1>3, <1>4, FS_Injection DEF Waiting

\* Expired approvals wait.
LEMMA OverdueWaits ==
  ASSUME CommandsInv
  PROVE  Overdue \subseteq Waiting
  BY CommandsAssumption DEF CommandsInv, CommandsTypes, CommandsTypeOK, Overdue, Waiting, Req

\* Retiring approvals answers requests that wait, and each one for the first time.
LEMMA RetireFacts ==
  ASSUME CommandsInv, NEW ids \in SUBSET Waiting, NEW answer \in Replies, Retire(ids, answer)
  PROVE  /\ pending' \in [ApprovalIds -> 0..MaxRequests]
         /\ retired' \in Seq(ApprovalIds) /\ Len(retired') <= MaxRetired
         /\ replies' \in [Req -> Seq(Replies)] /\ OneAnswer'
         /\ \A i \in ApprovalIds : pending'[i] = IF i \in ids THEN 0 ELSE pending[i]
         /\ \A i \in ApprovalIds : Contains(retired', i) => i \in ids \/ Contains(retired, i)
         /\ \A n \in Req : replies'[n] = replies[n] \/ \E i \in ids : pending[i] = n
         /\ \A n \in Req : open /\ (\E i \in ids : pending[i] = n) => replies'[n] # <<>>
         /\ \A n \in Req : replies'[n] = replies[n] \/ replies'[n] # <<>>
<1>1. /\ pending \in [ApprovalIds -> 0..MaxRequests] /\ retired \in Seq(ApprovalIds)
      /\ replies \in [Req -> Seq(Replies)] /\ MaxRequests \in Nat
  BY CommandsAssumption DEF CommandsInv, CommandsTypes, CommandsTypeOK
<1>2. ids \subseteq ApprovalIds /\ IsFiniteSet(ids)
  BY WaitingFinite, FS_Subset
<1>3. pending' \in [ApprovalIds -> 0..MaxRequests]
      /\ \A i \in ApprovalIds : pending'[i] = IF i \in ids THEN 0 ELSE pending[i]
  BY <1>1 DEF Retire
<1>4. /\ retired' \in Seq(ApprovalIds) /\ Len(retired') <= MaxRetired
      /\ \A i \in ApprovalIds : Contains(retired', i) => i \in ids \/ Contains(retired, i)
  BY <1>1, <1>2, RememberFacts DEF Retire
<1>5. \A n \in Req : (\E i \in ids : pending[i] = n) => replies[n] = <<>>
  BY DEF CommandsInv, MapHolds, Unanswered, Waiting
<1>6. \A n \in Req : /\ replies'[n] = replies[n] \/ \E i \in ids : pending[i] = n
                     /\ open /\ (\E i \in ids : pending[i] = n) =>
                          replies'[n] = Append(replies[n], answer) /\ replies[n] = <<>>
                     /\ replies'[n] = replies[n]
                          \/ (replies'[n] = Append(replies[n], answer) /\ replies[n] = <<>>)
  BY <1>5 DEF Retire
<1>7. \A n \in Req : replies'[n] \in Seq(Replies) /\ Len(replies'[n]) <= 1
                     /\ (open /\ (\E i \in ids : pending[i] = n) => replies'[n] # <<>>)
                     /\ (replies'[n] = replies[n] \/ replies'[n] # <<>>)
  <2> SUFFICES ASSUME NEW n \in Req
               PROVE  replies'[n] \in Seq(Replies) /\ Len(replies'[n]) <= 1
                      /\ (open /\ (\E i \in ids : pending[i] = n) => replies'[n] # <<>>)
                      /\ (replies'[n] = replies[n] \/ replies'[n] # <<>>)
    OBVIOUS
  <2>1. Len(replies[n]) <= 1 /\ replies[n] \in Seq(Replies)
    BY <1>1 DEF CommandsInv, OneAnswer
  <2>2. replies[n] = <<>> => Append(replies[n], answer) \in Seq(Replies) /\ Len(Append(replies[n], answer)) = 1
         /\ Append(replies[n], answer) # <<>>
    BY FirstAnswer
  <2> QED
    BY <1>6, <2>1, <2>2
<1>8. replies' \in [Req -> Seq(Replies)]
  BY <1>7 DEF Retire
<1> QED
  BY <1>3, <1>4, <1>6, <1>7, <1>8 DEF OneAnswer

\* The sidecar's announcement, the end of a turn and of the session itself: what
\* waits is answered by the end of the session or stays where it was.
LEMMA AnnounceKeepsInv ==
  ASSUME CommandsInv, Announce
  PROVE  CommandsInv'
<1>0. pump' \in Pumps
  <2>1. pump \in Pumps /\ Len(sent) + 1 \in Req
    BY CommandsAssumption, SMTT(40) DEF CommandsInv, CommandsTypes, CommandsTypeOK, Announce, Req
  <2>2. PICK d : d = Append(pump.data, Len(sent) + 1)
    OBVIOUS
  <2>3. d \in Seq(Req)
    BY <2>1, <2>2, AppendPlaces DEF Pumps
  <2>4. pump' = [pump EXCEPT !.data = d]
    BY <2>2 DEF Announce
  <2> QED
    BY <2>1, <2>3, <2>4 DEF Pumps
<1>9. announced' \in 0..MaxRequests
  BY CommandsAssumption, SMTT(40) DEF CommandsInv, CommandsTypes, CommandsTypeOK, Announce
<1>1. CommandsTypes'
  BY <1>0, <1>9, CommandsAssumption DEF CommandsInv, CommandsTypes, CommandsTypeOK, LifeAgrees,
     Announce, sidecarVars, actorVars, lifeVars, ActorAt
<1>2. OneAnswer' /\ AnswersSent'
  BY DEF CommandsInv, OneAnswer, AnswersSent, Announce, sidecarVars, actorVars, lifeVars
<1>3. LifeAgrees'
  BY CommandsAssumption DEF CommandsInv, CommandsTypes, CommandsTypeOK, LifeAgrees, Announce,
     sidecarVars, actorVars, lifeVars, EmptyPump, NoEvent, NoWorker, Pumps, Workers, None
<1>4. QueueHolds' /\ HandHolds' /\ LaneHolds' /\ MapHolds'
  BY PlacesLose DEF CommandsInv, CommandsTypes, CommandsTypeOK, LifeAgrees, Announce,
     sidecarVars, actorVars, lifeVars, EmptyPump, NoEvent, NoWorker, Pumps, Workers, None
<1>5. NoneForgotten'
  BY DEF CommandsInv, CommandsTypes, CommandsTypeOK, LifeAgrees, Announce, sidecarVars,
     actorVars, lifeVars, EmptyPump, NoEvent, NoWorker, Pumps, Workers, None, NoneForgotten,
  IsLive, Queued, Handled, Signalled, Registered
<1> QED
  BY <1>1, <1>2, <1>3, <1>4, <1>5 DEF CommandsInv

LEMMA EndTurnKeepsInv ==
  ASSUME CommandsInv, NEW t \in Turns, EndTurn(t)
  PROVE  CommandsInv'
<1>0. pump' \in Pumps
  <2>1. pump \in Pumps /\ [kind |-> "turn", of |-> t] \in CtlEvents
    BY DEF CommandsInv, CommandsTypes, CtlEvents
  <2>2. PICK c : c = Append(pump.ctl, [kind |-> "turn", of |-> t])
    OBVIOUS
  <2>3. c \in Seq(CtlEvents)
    BY <2>1, <2>2, AppendPlaces DEF Pumps
  <2>4. pump' = [pump EXCEPT !.ctl = c]
    BY <2>2 DEF EndTurn
  <2> QED
    BY <2>1, <2>3, <2>4 DEF Pumps
<1>1. CommandsTypes'
  BY <1>0, CommandsAssumption DEF CommandsInv, CommandsTypes, CommandsTypeOK, LifeAgrees,
     EndTurn, sidecarVars, actorVars, lifeVars, ActorAt
<1>2. OneAnswer' /\ AnswersSent'
  BY DEF CommandsInv, OneAnswer, AnswersSent, EndTurn, sidecarVars, actorVars, lifeVars
<1>3. LifeAgrees'
  BY CommandsAssumption DEF CommandsInv, CommandsTypes, CommandsTypeOK, LifeAgrees, EndTurn,
     sidecarVars, actorVars, lifeVars, EmptyPump, NoEvent, NoWorker, Pumps, Workers, None
<1>4. QueueHolds' /\ HandHolds' /\ LaneHolds' /\ MapHolds'
  BY PlacesLose DEF CommandsInv, CommandsTypes, CommandsTypeOK, LifeAgrees, EndTurn, sidecarVars,
     actorVars, lifeVars, EmptyPump, NoEvent, NoWorker, Pumps, Workers, None
<1>5. NoneForgotten'
  BY DEF CommandsInv, CommandsTypes, CommandsTypeOK, LifeAgrees, EndTurn, sidecarVars, actorVars,
     lifeVars, EmptyPump, NoEvent, NoWorker, Pumps, Workers, None, NoneForgotten, IsLive, Queued,
  Handled, Signalled, Registered
<1> QED
  BY <1>1, <1>2, <1>3, <1>4, <1>5 DEF CommandsInv

LEMMA SessionDiesKeepsInv ==
  ASSUME CommandsInv, SessionDies
  PROVE  CommandsInv'
<1>0. pump' \in Pumps
  <2>1. pump \in Pumps /\ [kind |-> "eof", of |-> 0] \in CtlEvents
    BY DEF CommandsInv, CommandsTypes, CtlEvents
  <2>2. PICK c : c = Append(pump.ctl, [kind |-> "eof", of |-> 0])
    OBVIOUS
  <2>3. c \in Seq(CtlEvents)
    BY <2>1, <2>2, AppendPlaces DEF Pumps
  <2>4. pump' = [req |-> <<>>, ctl |-> c, data |-> <<>>]
    BY <2>2 DEF SessionDies, EmptyPump
  <2> QED
    BY <2>3, <2>4 DEF Pumps
<1>9. announced' \in 0..MaxRequests
  BY CommandsAssumption DEF CommandsInv, CommandsTypes, CommandsTypeOK, SessionDies
<1>1. CommandsTypes'
  BY <1>0, <1>9, CommandsAssumption DEF CommandsInv, CommandsTypes, CommandsTypeOK, LifeAgrees,
     SessionDies, sidecarVars, actorVars, lifeVars, ActorAt
<1>2. OneAnswer' /\ AnswersSent'
  BY DEF CommandsInv, OneAnswer, AnswersSent, SessionDies, sidecarVars, actorVars, lifeVars
<1>3. LifeAgrees'
  BY CommandsAssumption DEF CommandsInv, CommandsTypes, CommandsTypeOK, LifeAgrees, SessionDies,
     sidecarVars, actorVars, lifeVars, EmptyPump, NoEvent, NoWorker, Pumps, Workers, None
<1>4. QueueHolds' /\ HandHolds' /\ LaneHolds' /\ MapHolds'
  BY PlacesLose DEF CommandsInv, CommandsTypes, CommandsTypeOK, LifeAgrees, SessionDies,
     sidecarVars, actorVars, lifeVars, EmptyPump, NoEvent, NoWorker, Pumps, Workers, None
<1>5. NoneForgotten'
  BY DEF CommandsInv, CommandsTypes, CommandsTypeOK, LifeAgrees, SessionDies, sidecarVars,
     actorVars, lifeVars, EmptyPump, NoEvent, NoWorker, Pumps, Workers, None, NoneForgotten,
  IsLive, Queued, Handled, Signalled, Registered
<1> QED
  BY <1>1, <1>2, <1>3, <1>4, <1>5 DEF CommandsInv

\* Steps of the worker that move no request.
LEMMA ApprovalExpiresKeepsInv ==
  ASSUME CommandsInv, NEW n \in Req, ApprovalExpires(n)
  PROVE  CommandsInv'
<1>1. CommandsTypes'
  BY CommandsAssumption DEF CommandsInv, CommandsTypes, CommandsTypeOK, LifeAgrees,
     ApprovalExpires, sidecarVars, actorVars, lifeVars, ActorAt
<1>2. OneAnswer' /\ AnswersSent'
  BY DEF CommandsInv, OneAnswer, AnswersSent, ApprovalExpires, sidecarVars, actorVars, lifeVars
<1>3. LifeAgrees'
  BY CommandsAssumption DEF CommandsInv, CommandsTypes, CommandsTypeOK, LifeAgrees,
     ApprovalExpires, sidecarVars, actorVars, lifeVars, EmptyPump, NoEvent, NoWorker, Pumps,
  Workers, None
<1>4. QueueHolds' /\ HandHolds' /\ LaneHolds' /\ MapHolds'
  BY PlacesLose DEF CommandsInv, CommandsTypes, CommandsTypeOK, LifeAgrees, ApprovalExpires,
     sidecarVars, actorVars, lifeVars, EmptyPump, NoEvent, NoWorker, Pumps, Workers, None
<1>5. NoneForgotten'
  BY DEF CommandsInv, CommandsTypes, CommandsTypeOK, LifeAgrees, ApprovalExpires, sidecarVars,
     actorVars, lifeVars, EmptyPump, NoEvent, NoWorker, Pumps, Workers, None, NoneForgotten,
  IsLive, Queued, Handled, Signalled, Registered
<1> QED
  BY <1>1, <1>2, <1>3, <1>4, <1>5 DEF CommandsInv

LEMMA WorkerStaleKeepsInv ==
  ASSUME CommandsInv, WorkerStale
  PROVE  CommandsInv'
<1>0. worker' \in Workers
  BY CommandsAssumption DEF CommandsInv, CommandsTypes, CommandsTypeOK, LifeAgrees, WorkerStale,
     EventIsCurrent, Workers, WorkerEvents, NoEvent, NoWorker, None
<1>1. CommandsTypes'
  BY <1>0, CommandsAssumption DEF CommandsInv, CommandsTypes, CommandsTypeOK, LifeAgrees,
     WorkerStale, EventIsCurrent, sidecarVars, actorVars, lifeVars, ActorAt, Workers
<1>2. OneAnswer' /\ AnswersSent'
  BY DEF CommandsInv, OneAnswer, AnswersSent, WorkerStale, EventIsCurrent, sidecarVars,
     actorVars, lifeVars
<1>3. LifeAgrees'
  BY CommandsAssumption DEF CommandsInv, CommandsTypes, CommandsTypeOK, LifeAgrees, WorkerStale,
     EventIsCurrent, sidecarVars, actorVars, lifeVars, EmptyPump, NoEvent, NoWorker, Pumps,
  Workers, None
<1>4. QueueHolds' /\ HandHolds' /\ LaneHolds' /\ MapHolds'
  BY PlacesLose DEF CommandsInv, CommandsTypes, CommandsTypeOK, LifeAgrees, WorkerStale,
     EventIsCurrent, sidecarVars, actorVars, lifeVars, EmptyPump, NoEvent, NoWorker, Pumps,
  Workers, None
<1>5. NoneForgotten'
  BY DEF CommandsInv, CommandsTypes, CommandsTypeOK, LifeAgrees, WorkerStale, EventIsCurrent,
     sidecarVars, actorVars, lifeVars, EmptyPump, NoEvent, NoWorker, Pumps, Workers, None,
  NoneForgotten, IsLive, Queued, Handled, Signalled, Registered
<1> QED
  BY <1>1, <1>2, <1>3, <1>4, <1>5 DEF CommandsInv

LEMMA WorkerShowsKeepsInv ==
  ASSUME CommandsInv, WorkerShows
  PROVE  CommandsInv'
<1>0. worker' \in Workers /\ worker'.pc # "handle"
  <2>1. worker \in Workers /\ NoEvent \in WorkerEvents
    BY DEF CommandsInv, CommandsTypes, NoEvent, WorkerEvents
  <2>2. \/ worker' = [worker EXCEPT !.pc = "poll", !.ev = NoEvent, !.suppress = FALSE]
        \/ worker' = [worker EXCEPT !.pc = "poll", !.ev = NoEvent]
        \/ worker' = [worker EXCEPT !.pc = "done", !.ev = NoEvent]
    BY DEF WorkerShows, Publish
  <2> QED
    BY <2>1, <2>2 DEF Workers
<1>1. CommandsTypes'
  BY <1>0, CommandsAssumption DEF CommandsInv, CommandsTypes, CommandsTypeOK, LifeAgrees,
     WorkerShows, Publish, EventIsCurrent, sidecarVars, actorVars, lifeVars, ActorAt, Workers
<1>2. OneAnswer' /\ AnswersSent'
  BY DEF CommandsInv, OneAnswer, AnswersSent, WorkerShows, Publish, EventIsCurrent, sidecarVars,
     actorVars, lifeVars
<1>3. LifeAgrees'
  BY CommandsAssumption DEF CommandsInv, CommandsTypes, CommandsTypeOK, LifeAgrees, WorkerShows,
     Publish, EventIsCurrent, sidecarVars, actorVars, lifeVars, EmptyPump, NoEvent, NoWorker,
  Pumps, Workers, None
<1>4. QueueHolds' /\ HandHolds' /\ LaneHolds' /\ MapHolds'
  <2>1. worker'.pc # "handle"
    BY <1>0
  <2>2. replies \in [Req -> Seq(Replies)] /\ UNCHANGED <<sent, replies, pump, gen, lane, pending, retired>>
    BY DEF CommandsInv, CommandsTypes, WorkerShows, sidecarVars, actorVars, lifeVars
  <2> QED
    BY <2>1, <2>2, PlacesLose
<1>5. NoneForgotten'
  BY ZenonT(60) DEF CommandsInv, CommandsTypes, CommandsTypeOK, LifeAgrees, WorkerShows, Publish,
     EventIsCurrent, sidecarVars, actorVars, lifeVars, EmptyPump, NoEvent, NoWorker, Pumps,
  Workers, None, NoneForgotten, IsLive, Queued, Handled, Signalled, Registered
<1> QED
  BY <1>1, <1>2, <1>3, <1>4, <1>5 DEF CommandsInv

LEMMA WorkerSeesEndKeepsInv ==
  ASSUME CommandsInv, WorkerSeesEnd
  PROVE  CommandsInv'
<1>0. worker' \in Workers
  BY CommandsAssumption DEF CommandsInv, CommandsTypes, CommandsTypeOK, LifeAgrees,
     WorkerSeesEnd, Publish, EventIsCurrent, Workers, WorkerEvents, NoEvent, NoWorker, None
<1>1. CommandsTypes'
  BY <1>0, CommandsAssumption DEF CommandsInv, CommandsTypes, CommandsTypeOK, LifeAgrees,
     WorkerSeesEnd, Publish, EventIsCurrent, sidecarVars, actorVars, lifeVars, ActorAt, Workers
<1>2. OneAnswer' /\ AnswersSent'
  BY DEF CommandsInv, OneAnswer, AnswersSent, WorkerSeesEnd, Publish, EventIsCurrent,
     sidecarVars, actorVars, lifeVars
<1>3. LifeAgrees'
  BY CommandsAssumption DEF CommandsInv, CommandsTypes, CommandsTypeOK, LifeAgrees,
     WorkerSeesEnd, Publish, EventIsCurrent, sidecarVars, actorVars, lifeVars, EmptyPump,
  NoEvent, NoWorker, Pumps, Workers, None
<1>4. QueueHolds' /\ HandHolds' /\ LaneHolds' /\ MapHolds'
  BY PlacesLose DEF CommandsInv, CommandsTypes, CommandsTypeOK, LifeAgrees, WorkerSeesEnd,
     Publish, EventIsCurrent, sidecarVars, actorVars, lifeVars, EmptyPump, NoEvent, NoWorker,
  Pumps, Workers, None
<1>5. NoneForgotten'
  BY DEF CommandsInv, CommandsTypes, CommandsTypeOK, LifeAgrees, WorkerSeesEnd, Publish,
     EventIsCurrent, sidecarVars, actorVars, lifeVars, EmptyPump, NoEvent, NoWorker, Pumps,
  Workers, None, NoneForgotten, IsLive, Queued, Handled, Signalled, Registered
<1> QED
  BY <1>1, <1>2, <1>3, <1>4, <1>5 DEF CommandsInv

LEMMA WorkerAckedKeepsInv ==
  ASSUME CommandsInv, WorkerAcked
  PROVE  CommandsInv'
<1>0. worker' \in Workers
  BY CommandsAssumption DEF CommandsInv, CommandsTypes, CommandsTypeOK, LifeAgrees, WorkerAcked,
     Workers, WorkerEvents, NoEvent, NoWorker, None
<1>1. CommandsTypes'
  BY <1>0, CommandsAssumption DEF CommandsInv, CommandsTypes, CommandsTypeOK, LifeAgrees,
     WorkerAcked, sidecarVars, actorVars, lifeVars, ActorAt, Workers
<1>2. OneAnswer' /\ AnswersSent'
  BY DEF CommandsInv, OneAnswer, AnswersSent, WorkerAcked, sidecarVars, actorVars, lifeVars
<1>3. LifeAgrees'
  BY CommandsAssumption DEF CommandsInv, CommandsTypes, CommandsTypeOK, LifeAgrees, WorkerAcked,
     sidecarVars, actorVars, lifeVars, EmptyPump, NoEvent, NoWorker, Pumps, Workers, None
<1>4. QueueHolds' /\ HandHolds' /\ LaneHolds' /\ MapHolds'
  BY PlacesLose DEF CommandsInv, CommandsTypes, CommandsTypeOK, LifeAgrees, WorkerAcked,
     sidecarVars, actorVars, lifeVars, EmptyPump, NoEvent, NoWorker, Pumps, Workers, None
<1>5. NoneForgotten'
  BY DEF CommandsInv, CommandsTypes, CommandsTypeOK, LifeAgrees, WorkerAcked, sidecarVars,
     actorVars, lifeVars, EmptyPump, NoEvent, NoWorker, Pumps, Workers, None, NoneForgotten,
  IsLive, Queued, Handled, Signalled, Registered
<1> QED
  BY <1>1, <1>2, <1>3, <1>4, <1>5 DEF CommandsInv

LEMMA WorkerGivesUpKeepsInv ==
  ASSUME CommandsInv, WorkerGivesUp
  PROVE  CommandsInv'
<1>0. worker' \in Workers
  BY CommandsAssumption DEF CommandsInv, CommandsTypes, CommandsTypeOK, LifeAgrees,
     WorkerGivesUp, Publish, Workers, WorkerEvents, NoEvent, NoWorker, None
<1>1. CommandsTypes'
  BY <1>0, CommandsAssumption DEF CommandsInv, CommandsTypes, CommandsTypeOK, LifeAgrees,
     WorkerGivesUp, Publish, sidecarVars, actorVars, lifeVars, ActorAt, Workers
<1>2. OneAnswer' /\ AnswersSent'
  BY DEF CommandsInv, OneAnswer, AnswersSent, WorkerGivesUp, Publish, sidecarVars, actorVars,
     lifeVars
<1>3. LifeAgrees'
  BY CommandsAssumption DEF CommandsInv, CommandsTypes, CommandsTypeOK, LifeAgrees,
     WorkerGivesUp, Publish, sidecarVars, actorVars, lifeVars, EmptyPump, NoEvent, NoWorker,
  Pumps, Workers, None
<1>4. QueueHolds' /\ HandHolds' /\ LaneHolds' /\ MapHolds'
  BY PlacesLose DEF CommandsInv, CommandsTypes, CommandsTypeOK, LifeAgrees, WorkerGivesUp,
     Publish, sidecarVars, actorVars, lifeVars, EmptyPump, NoEvent, NoWorker, Pumps, Workers, None
<1>5. NoneForgotten'
  BY DEF CommandsInv, CommandsTypes, CommandsTypeOK, LifeAgrees, WorkerGivesUp, Publish,
     sidecarVars, actorVars, lifeVars, EmptyPump, NoEvent, NoWorker, Pumps, Workers, None,
  NoneForgotten, IsLive, Queued, Handled, Signalled, Registered
<1> QED
  BY <1>1, <1>2, <1>3, <1>4, <1>5 DEF CommandsInv

\* Steps of the actor that move no request: stopping, calling, starting, replay.
LEMMA ActorLaneEmptyKeepsInv ==
  ASSUME CommandsInv, ActorLaneEmpty
  PROVE  CommandsInv'
<1>1. CommandsTypes'
  BY CommandsAssumption DEF CommandsInv, CommandsTypes, CommandsTypeOK, LifeAgrees,
     ActorLaneEmpty, sidecarVars, actorVars, lifeVars, ActorAt
<1>2. OneAnswer' /\ AnswersSent'
  BY DEF CommandsInv, OneAnswer, AnswersSent, ActorLaneEmpty, sidecarVars, actorVars, lifeVars
<1>3. LifeAgrees'
  BY CommandsAssumption DEF CommandsInv, CommandsTypes, CommandsTypeOK, LifeAgrees,
     ActorLaneEmpty, sidecarVars, actorVars, lifeVars, EmptyPump, NoEvent, NoWorker, Pumps,
  Workers, None
<1>4. QueueHolds' /\ HandHolds' /\ LaneHolds' /\ MapHolds'
  BY PlacesLose DEF CommandsInv, CommandsTypes, CommandsTypeOK, LifeAgrees, ActorLaneEmpty,
     sidecarVars, actorVars, lifeVars, EmptyPump, NoEvent, NoWorker, Pumps, Workers, None
<1>5. NoneForgotten'
  BY DEF CommandsInv, CommandsTypes, CommandsTypeOK, LifeAgrees, ActorLaneEmpty, sidecarVars,
     actorVars, lifeVars, EmptyPump, NoEvent, NoWorker, Pumps, Workers, None, NoneForgotten,
  IsLive, Queued, Handled, Signalled, Registered
<1> QED
  BY <1>1, <1>2, <1>3, <1>4, <1>5 DEF CommandsInv

LEMMA SessionStoppedKeepsInv ==
  ASSUME CommandsInv, SessionStopped
  PROVE  CommandsInv'
<1>0. pump' \in Pumps
  BY CommandsAssumption DEF CommandsInv, CommandsTypes, CommandsTypeOK, SessionStopped, Pumps,
     CtlEvents, EmptyPump, Req
<1>9. announced' \in 0..MaxRequests
  BY CommandsAssumption DEF CommandsInv, CommandsTypes, CommandsTypeOK, SessionStopped
<1>1. CommandsTypes'
  BY <1>0, <1>9, CommandsAssumption DEF CommandsInv, CommandsTypes, CommandsTypeOK, LifeAgrees,
     SessionStopped, sidecarVars, actorVars, lifeVars, ActorAt
<1>2. OneAnswer' /\ AnswersSent'
  BY DEF CommandsInv, OneAnswer, AnswersSent, SessionStopped, sidecarVars, actorVars, lifeVars
<1>3. LifeAgrees'
  BY CommandsAssumption DEF CommandsInv, CommandsTypes, CommandsTypeOK, LifeAgrees,
     SessionStopped, sidecarVars, actorVars, lifeVars, EmptyPump, NoEvent, NoWorker, Pumps,
  Workers, None
<1>4. QueueHolds' /\ HandHolds' /\ LaneHolds' /\ MapHolds'
  BY PlacesLose DEF CommandsInv, CommandsTypes, CommandsTypeOK, LifeAgrees, SessionStopped,
     sidecarVars, actorVars, lifeVars, EmptyPump, NoEvent, NoWorker, Pumps, Workers, None
<1>5. NoneForgotten'
  BY DEF CommandsInv, CommandsTypes, CommandsTypeOK, LifeAgrees, SessionStopped, sidecarVars,
     actorVars, lifeVars, EmptyPump, NoEvent, NoWorker, Pumps, Workers, None, NoneForgotten,
  IsLive, Queued, Handled, Signalled, Registered
<1> QED
  BY <1>1, <1>2, <1>3, <1>4, <1>5 DEF CommandsInv

LEMMA ActorStoppedKeepsInv ==
  ASSUME CommandsInv, ActorStopped
  PROVE  CommandsInv'
<1>1. CommandsTypes'
  BY CommandsAssumption, SMTT(40) DEF CommandsInv, CommandsTypes, CommandsTypeOK, LifeAgrees, ActorStopped,
     sidecarVars, actorVars, lifeVars, ActorAt
<1>2. OneAnswer' /\ AnswersSent'
  BY DEF CommandsInv, OneAnswer, AnswersSent, ActorStopped, sidecarVars, actorVars, lifeVars
<1>3. LifeAgrees'
  BY CommandsAssumption DEF CommandsInv, CommandsTypes, CommandsTypeOK, LifeAgrees, ActorStopped,
     sidecarVars, actorVars, lifeVars, EmptyPump, NoEvent, NoWorker, Pumps, Workers, None
<1>4. QueueHolds' /\ HandHolds' /\ LaneHolds' /\ MapHolds'
  BY PlacesLose DEF CommandsInv, CommandsTypes, CommandsTypeOK, LifeAgrees, ActorStopped,
     sidecarVars, actorVars, lifeVars, EmptyPump, NoEvent, NoWorker, Pumps, Workers, None
<1>5. NoneForgotten'
  BY DEF CommandsInv, CommandsTypes, CommandsTypeOK, LifeAgrees, ActorStopped, sidecarVars,
     actorVars, lifeVars, EmptyPump, NoEvent, NoWorker, Pumps, Workers, None, NoneForgotten,
  IsLive, Queued, Handled, Signalled, Registered
<1> QED
  BY <1>1, <1>2, <1>3, <1>4, <1>5 DEF CommandsInv

LEMMA ActorCallsKeepsInv ==
  ASSUME CommandsInv, ActorCalls
  PROVE  CommandsInv'
<1>1. CommandsTypes'
  BY CommandsAssumption DEF CommandsInv, CommandsTypes, CommandsTypeOK, LifeAgrees, ActorCalls,
     sidecarVars, actorVars, lifeVars, ActorAt
<1>2. OneAnswer' /\ AnswersSent'
  BY DEF CommandsInv, OneAnswer, AnswersSent, ActorCalls, sidecarVars, actorVars, lifeVars
<1>3. LifeAgrees'
  BY CommandsAssumption DEF CommandsInv, CommandsTypes, CommandsTypeOK, LifeAgrees, ActorCalls,
     sidecarVars, actorVars, lifeVars, EmptyPump, NoEvent, NoWorker, Pumps, Workers, None
<1>4. QueueHolds' /\ HandHolds' /\ LaneHolds' /\ MapHolds'
  BY PlacesLose DEF CommandsInv, CommandsTypes, CommandsTypeOK, LifeAgrees, ActorCalls,
     sidecarVars, actorVars, lifeVars, EmptyPump, NoEvent, NoWorker, Pumps, Workers, None
<1>5. NoneForgotten'
  BY DEF CommandsInv, CommandsTypes, CommandsTypeOK, LifeAgrees, ActorCalls, sidecarVars,
     actorVars, lifeVars, EmptyPump, NoEvent, NoWorker, Pumps, Workers, None, NoneForgotten,
  IsLive, Queued, Handled, Signalled, Registered
<1> QED
  BY <1>1, <1>2, <1>3, <1>4, <1>5 DEF CommandsInv

LEMMA ActorCallEndsKeepsInv ==
  ASSUME CommandsInv, ActorCallEnds
  PROVE  CommandsInv'
<1>1. CommandsTypes'
  BY CommandsAssumption DEF CommandsInv, CommandsTypes, CommandsTypeOK, LifeAgrees,
     ActorCallEnds, sidecarVars, actorVars, lifeVars, ActorAt
<1>2. OneAnswer' /\ AnswersSent'
  BY DEF CommandsInv, OneAnswer, AnswersSent, ActorCallEnds, sidecarVars, actorVars, lifeVars
<1>3. LifeAgrees'
  BY CommandsAssumption DEF CommandsInv, CommandsTypes, CommandsTypeOK, LifeAgrees,
     ActorCallEnds, sidecarVars, actorVars, lifeVars, EmptyPump, NoEvent, NoWorker, Pumps,
  Workers, None
<1>4. QueueHolds' /\ HandHolds' /\ LaneHolds' /\ MapHolds'
  BY PlacesLose DEF CommandsInv, CommandsTypes, CommandsTypeOK, LifeAgrees, ActorCallEnds,
     sidecarVars, actorVars, lifeVars, EmptyPump, NoEvent, NoWorker, Pumps, Workers, None
<1>5. NoneForgotten'
  BY DEF CommandsInv, CommandsTypes, CommandsTypeOK, LifeAgrees, ActorCallEnds, sidecarVars,
     actorVars, lifeVars, EmptyPump, NoEvent, NoWorker, Pumps, Workers, None, NoneForgotten,
  IsLive, Queued, Handled, Signalled, Registered
<1> QED
  BY <1>1, <1>2, <1>3, <1>4, <1>5 DEF CommandsInv

LEMMA ActorStartsKeepsInv ==
  ASSUME CommandsInv, ActorStarts
  PROVE  CommandsInv'
<1>0. pump' \in Pumps
  BY CommandsAssumption DEF CommandsInv, CommandsTypes, CommandsTypeOK, ActorStarts, Pumps,
     CtlEvents, EmptyPump, Req
<1>1. CommandsTypes'
  BY <1>0, CommandsAssumption DEF CommandsInv, CommandsTypes, CommandsTypeOK, LifeAgrees,
     ActorStarts, sidecarVars, actorVars, lifeVars, ActorAt
<1>2. OneAnswer' /\ AnswersSent'
  BY DEF CommandsInv, OneAnswer, AnswersSent, ActorStarts, sidecarVars, actorVars, lifeVars
<1>3. LifeAgrees'
  BY CommandsAssumption DEF CommandsInv, CommandsTypes, CommandsTypeOK, LifeAgrees, ActorStarts,
     sidecarVars, actorVars, lifeVars, EmptyPump, NoEvent, NoWorker, Pumps, Workers, None
<1>4. QueueHolds' /\ HandHolds' /\ LaneHolds' /\ MapHolds'
  BY PlacesLose DEF CommandsInv, CommandsTypes, CommandsTypeOK, LifeAgrees, ActorStarts,
     sidecarVars, actorVars, lifeVars, EmptyPump, NoEvent, NoWorker, Pumps, Workers, None
<1>5. NoneForgotten'
  BY DEF CommandsInv, CommandsTypes, CommandsTypeOK, LifeAgrees, ActorStarts, sidecarVars,
     actorVars, lifeVars, EmptyPump, NoEvent, NoWorker, Pumps, Workers, None, NoneForgotten,
  IsLive, Queued, Handled, Signalled, Registered
<1> QED
  BY <1>1, <1>2, <1>3, <1>4, <1>5 DEF CommandsInv

LEMMA ReplayStepKeepsInv ==
  ASSUME CommandsInv, ReplayStep
  PROVE  CommandsInv'
<1>1. CommandsTypes'
  BY CommandsAssumption DEF CommandsInv, CommandsTypes, CommandsTypeOK, LifeAgrees, ReplayStep,
     sidecarVars, actorVars, lifeVars, ActorAt
<1>2. OneAnswer' /\ AnswersSent'
  BY DEF CommandsInv, OneAnswer, AnswersSent, ReplayStep, sidecarVars, actorVars, lifeVars
<1>3. LifeAgrees'
  BY CommandsAssumption DEF CommandsInv, CommandsTypes, CommandsTypeOK, LifeAgrees, ReplayStep,
     sidecarVars, actorVars, lifeVars, EmptyPump, NoEvent, NoWorker, Pumps, Workers, None
<1>4. QueueHolds' /\ HandHolds' /\ LaneHolds' /\ MapHolds'
  BY PlacesLose DEF CommandsInv, CommandsTypes, CommandsTypeOK, LifeAgrees, ReplayStep,
     sidecarVars, actorVars, lifeVars, EmptyPump, NoEvent, NoWorker, Pumps, Workers, None
<1>5. NoneForgotten'
  BY DEF CommandsInv, CommandsTypes, CommandsTypeOK, LifeAgrees, ReplayStep, sidecarVars,
     actorVars, lifeVars, EmptyPump, NoEvent, NoWorker, Pumps, Workers, None, NoneForgotten,
  IsLive, Queued, Handled, Signalled, Registered
<1> QED
  BY <1>1, <1>2, <1>3, <1>4, <1>5 DEF CommandsInv

LEMMA ReplayFailsKeepsInv ==
  ASSUME CommandsInv, ReplayFails
  PROVE  CommandsInv'
<1>0. pump' \in Pumps
  BY CommandsAssumption DEF CommandsInv, CommandsTypes, CommandsTypeOK, ReplayFails, Pumps,
     CtlEvents, EmptyPump, Req
<1>9. announced' \in 0..MaxRequests
  BY CommandsAssumption DEF CommandsInv, CommandsTypes, CommandsTypeOK, ReplayFails
<1>1. CommandsTypes'
  <2>1. replayed' \in 0..ReplaySteps
    BY CommandsAssumption DEF ReplayFails
  <2> QED
    BY <1>0, <1>9, <2>1 DEF CommandsInv, CommandsTypes, CommandsTypeOK, ReplayFails, actorVars,
       ActorAt
<1>2. OneAnswer' /\ AnswersSent'
  BY DEF CommandsInv, OneAnswer, AnswersSent, ReplayFails, sidecarVars, actorVars, lifeVars
<1>3. LifeAgrees'
  BY CommandsAssumption DEF CommandsInv, CommandsTypes, CommandsTypeOK, LifeAgrees, ReplayFails,
     sidecarVars, actorVars, lifeVars, EmptyPump, NoEvent, NoWorker, Pumps, Workers, None
<1>4. QueueHolds' /\ HandHolds' /\ LaneHolds' /\ MapHolds'
  BY PlacesLose DEF CommandsInv, CommandsTypes, CommandsTypeOK, LifeAgrees, ReplayFails,
     sidecarVars, actorVars, lifeVars, EmptyPump, NoEvent, NoWorker, Pumps, Workers, None
<1>5. NoneForgotten'
  BY DEF CommandsInv, CommandsTypes, CommandsTypeOK, LifeAgrees, ReplayFails, sidecarVars,
     actorVars, lifeVars, EmptyPump, NoEvent, NoWorker, Pumps, Workers, None, NoneForgotten,
  IsLive, Queued, Handled, Signalled, Registered
<1> QED
  BY <1>1, <1>2, <1>3, <1>4, <1>5 DEF CommandsInv

LEMMA StartedKeepsInv ==
  ASSUME CommandsInv, NEW p \in BOOLEAN, Started(p)
  PROVE  CommandsInv'
<1>0. worker' \in Workers /\ worker'.g = nextGen /\ worker'.pc = "poll" /\ worker'.cancel = ~p
      /\ worker'.ev = NoEvent
  <2>1. nextGen \in 0..MaxGen /\ NoEvent \in WorkerEvents
    BY CommandsAssumption DEF CommandsInv, CommandsTypes, CommandsTypeOK, LifeAgrees, Started,
       NoEvent, WorkerEvents
  <2>2. worker' = [g |-> nextGen, pc |-> "poll", ev |-> NoEvent, suppress |-> FALSE, cancel |-> ~p]
    BY DEF Started, NoWorker
  <2> QED
    BY <2>1, <2>2 DEF Workers
<1>1. CommandsTypes'
  <2>1. gen' \in 0..MaxGen /\ nextGen' \in 1..(MaxGen + 1) /\ current' \in 0..MaxGen /\ fault' \in 0..MaxGen
        /\ replayed' \in 0..ReplaySteps
    BY CommandsAssumption DEF CommandsInv, CommandsTypes, CommandsTypeOK, LifeAgrees, Started
  <2>2. worker'.pc \in {"poll", "handle", "await", "done"} /\ actor' \in ActorAt
    BY <1>0 DEF Started, ActorAt
  <2> QED
    BY <1>0, <2>1, <2>2 DEF CommandsInv, CommandsTypes, CommandsTypeOK, Started, sidecarVars,
       actorVars
<1>2. OneAnswer' /\ AnswersSent'
  BY DEF CommandsInv, OneAnswer, AnswersSent, Started, sidecarVars, actorVars, lifeVars
<1>3. LifeAgrees'
  <2>1. nextGen \in Nat \ {0} /\ \A n \in DOMAIN sent : sent[n] < nextGen /\ sent[n] \in Nat
    BY CommandsAssumption, SMTT(40) DEF CommandsInv, CommandsTypes, CommandsTypeOK, LifeAgrees
  <2>2. \A n \in DOMAIN sent' : sent'[n] < nextGen'
    BY <2>1 DEF Started, sidecarVars
  <2>3. gen' # 0 /\ gen' + 1 = nextGen' /\ worker'.g = gen'
    BY <1>0, <2>1 DEF Started
  <2>4. gen = 0 /\ announced = 0 /\ pump.req = <<>> /\ \A i \in ApprovalIds : pending[i] = 0
    BY DEF CommandsInv, LifeAgrees, Started
  <2>5. CASE p
    BY <1>0, <2>2, <2>3, <2>4, <2>5 DEF CommandsInv, LifeAgrees, Started, sidecarVars, actorVars
  <2>6. CASE ~p
    BY <1>0, <2>2, <2>3, <2>4, <2>6 DEF CommandsInv, LifeAgrees, Started, sidecarVars, actorVars
  <2> QED
    BY <2>5, <2>6
<1>4. QueueHolds' /\ HandHolds' /\ LaneHolds' /\ MapHolds'
  BY PlacesLose DEF CommandsInv, CommandsTypes, CommandsTypeOK, LifeAgrees, Started, sidecarVars,
     actorVars, lifeVars, EmptyPump, NoEvent, NoWorker, Pumps, Workers, None
<1>5. NoneForgotten'
  BY DEF CommandsInv, CommandsTypes, CommandsTypeOK, LifeAgrees, Started, sidecarVars, actorVars,
     lifeVars, EmptyPump, NoEvent, NoWorker, Pumps, Workers, None, NoneForgotten, IsLive, Queued,
  Handled, Signalled, Registered
<1> QED
  BY <1>1, <1>2, <1>3, <1>4, <1>5 DEF CommandsInv

\* Idling only moves the actor on.
LEMMA ActorIdlesKeepsInv ==
  ASSUME CommandsInv, ActorIdles
  PROVE  CommandsInv'
<1>1. CommandsTypes'
  BY CommandsAssumption DEF CommandsInv, CommandsTypes, CommandsTypeOK, LifeAgrees, ActorIdles,
     sidecarVars, actorVars, lifeVars, ActorAt
<1>2. OneAnswer' /\ AnswersSent'
  BY DEF CommandsInv, OneAnswer, AnswersSent, ActorIdles, sidecarVars, actorVars, lifeVars
<1>3. LifeAgrees'
  BY CommandsAssumption DEF CommandsInv, CommandsTypes, CommandsTypeOK, LifeAgrees, ActorIdles,
     sidecarVars, actorVars, lifeVars, EmptyPump, NoEvent, NoWorker, Pumps, Workers, None
<1>4. QueueHolds' /\ HandHolds' /\ LaneHolds' /\ MapHolds'
  BY PlacesLose DEF CommandsInv, CommandsTypes, CommandsTypeOK, LifeAgrees, ActorIdles,
     sidecarVars, actorVars, lifeVars, EmptyPump, NoEvent, NoWorker, Pumps, Workers, None
<1>5. NoneForgotten'
  BY DEF CommandsInv, CommandsTypes, CommandsTypeOK, LifeAgrees, ActorIdles, sidecarVars,
     actorVars, lifeVars, EmptyPump, NoEvent, NoWorker, Pumps, Workers, None, NoneForgotten,
  IsLive, Queued, Handled, Signalled, Registered
<1> QED
  BY <1>1, <1>2, <1>3, <1>4, <1>5 DEF CommandsInv


\* Approvals leave the map, answered or not, and nothing else moves.
LEMMA RetirePlaces ==
  ASSUME CommandsInv, NEW ids \in SUBSET Waiting, sent' = sent, gen' = gen,
         pump'.req = pump.req \/ pump'.req = <<>>,
         worker'.pc = worker.pc, worker'.ev = worker.ev, worker'.g = worker.g,
         lane' = lane \/ (lane # <<>> /\ lane' = Tail(lane)),
         replies' \in [Req -> Seq(Replies)],
         \A i \in ApprovalIds : pending'[i] = IF i \in ids THEN 0 ELSE pending[i],
         \A i \in ApprovalIds : Contains(retired', i) => i \in ids \/ Contains(retired, i),
         \A n \in Req : replies'[n] = replies[n] \/ \E i \in ids : pending[i] = n
  PROVE  AnswersSent' /\ QueueHolds' /\ HandHolds' /\ LaneHolds' /\ MapHolds'
<1>1. /\ \A n : Queued(n)' => Queued(n)
      /\ \A n : Handled(n)' => Handled(n)
      /\ \A n : Signalled(n)' => Signalled(n)
  BY PlacesShrink
<1>2. \A i \in ids : /\ pending[i] # 0 /\ ~Queued(pending[i]) /\ ~Handled(pending[i])
                     /\ ~Signalled(pending[i]) /\ pending[i] \in DOMAIN sent
  BY DEF CommandsInv, MapHolds, Waiting, Unanswered
<1>3. \A i, j \in Waiting : pending[i] = pending[j] => i = j
  BY WaitingFinite
<1>4. \A n \in Req : (\E i \in ids : pending[i] = n) =>
         ~Queued(n)' /\ ~Handled(n)' /\ ~Signalled(n)' /\ ~Registered(n)'
  <2> SUFFICES ASSUME NEW n \in Req, NEW i \in ids, pending[i] = n
               PROVE  ~Queued(n)' /\ ~Handled(n)' /\ ~Signalled(n)' /\ ~Registered(n)'
    OBVIOUS
  <2>1. ~Queued(n) /\ ~Handled(n) /\ ~Signalled(n) /\ n # 0
    BY <1>2
  <2>2. \A j \in ApprovalIds : pending[j] = n => j \in ids
    BY <1>3, <2>1 DEF Waiting
  <2>3. ~Registered(n)'
    BY <2>1, <2>2 DEF Registered
  <2> QED
    BY <1>1, <2>1, <2>3
<1>5. AnswersSent'
  BY <1>2 DEF CommandsInv, AnswersSent
<1>6. QueueHolds' /\ HandHolds' /\ LaneHolds' /\ MapHolds'
  BY <1>4, PlacesLose
<1> QED
  BY <1>5, <1>6

\* Taking the first signal takes no other.
LEMMA TailSignals ==
  ASSUME CommandsInv, lane # <<>>, lane' = Tail(lane)
  PROVE  /\ Head(lane) = lane[1] /\ lane[1] \in Signals /\ 1 \in 1..Len(lane)
         /\ lane' \in Seq(Signals) /\ Len(lane') <= LaneCap
         /\ \A n : Signalled(n) => Signalled(n)' \/ (lane[1].kind = "approval" /\ lane[1].of = n)
         /\ \A n : lane[1].kind = "approval" /\ lane[1].of = n => ~Signalled(n)'
<1>0. lane \in Seq(Signals) /\ Len(lane) <= LaneCap /\ LaneCap \in Nat
  BY CommandsAssumption DEF CommandsInv, CommandsTypes, CommandsTypeOK
<1>1. /\ lane' \in Seq(Signals) /\ Len(lane) \in Nat \ {0} /\ Len(lane') = Len(lane) - 1
      /\ Head(lane) = lane[1] /\ lane[1] \in Signals /\ 1 \in 1..Len(lane)
      /\ \A k \in 1..Len(lane') : k + 1 \in 1..Len(lane) /\ lane'[k] = lane[k + 1]
      /\ \A k \in 1..Len(lane) : k # 1 => k - 1 \in 1..Len(lane') /\ lane'[k - 1] = lane[k]
  BY <1>0, TailPlaces
<1>2. \A n : Signalled(n) => Signalled(n)' \/ (lane[1].kind = "approval" /\ lane[1].of = n)
  BY <1>1, ZenonT(60) DEF Signalled
<1>3. \A n : lane[1].kind = "approval" /\ lane[1].of = n => ~Signalled(n)'
  <2> SUFFICES ASSUME lane[1].kind = "approval", NEW k \in 1..Len(lane'), lane'[k].kind = "approval",
                      lane'[k].of = lane[1].of
               PROVE  FALSE
    BY DEF Signalled
  <2>1. k + 1 \in 1..Len(lane) /\ lane[k + 1].kind = "approval" /\ lane[k + 1].of = lane[1].of
    BY <1>1
  <2>2. k + 1 = 1
    BY <1>1, <2>1 DEF CommandsInv, LaneHolds
  <2> QED
    BY <2>2
<1> QED
  BY <1>0, <1>1, <1>2, <1>3

\* What leaves the map is answered: nothing is forgotten.
LEMMA RetireForgetsNone ==
  ASSUME CommandsInv, NEW ids \in SUBSET Waiting, sent' = sent, gen' = gen, open' => open,
         open' => pump'.req = pump.req,
         worker'.pc = worker.pc, worker'.ev = worker.ev,
         lane' = lane \/ (lane # <<>> /\ lane' = Tail(lane) /\ Head(lane).kind # "approval"),
         actor # "stopping",
         actor' = "stopping" \/ fault' = fault,
         \A i \in ApprovalIds : pending'[i] = IF i \in ids THEN 0 ELSE pending[i],
         \A n \in Req : replies'[n] = replies[n] \/ replies'[n] # <<>>,
         \A n \in Req : open /\ (\E i \in ids : pending[i] = n) => replies'[n] # <<>>
  PROVE  NoneForgotten'
<1> SUFFICES ASSUME NEW n \in Req, open', IsLive(n)', replies'[n] = <<>>, actor' # "stopping"
             PROVE  Queued(n)' \/ Handled(n)' \/ Signalled(n)' \/ Registered(n)' \/ fault' = gen'
  BY DEF NoneForgotten
<1>1. open /\ IsLive(n) /\ replies[n] = <<>>
  BY DEF IsLive
<1>2. Queued(n) \/ Handled(n) \/ Signalled(n) \/ Registered(n) \/ fault = gen
  BY <1>1 DEF CommandsInv, NoneForgotten
<1>3. Registered(n) => Registered(n)'
  BY <1>1 DEF Registered
<1>4. Signalled(n) => Signalled(n)'
  BY TailSignals DEF Signalled
<1> QED
  BY <1>2, <1>3, <1>4 DEF Queued, Handled

\* Expired approvals are answered as they leave the map.
LEMMA ActorPurgesKeepsInv ==
  ASSUME CommandsInv, ActorPurges
  PROVE  CommandsInv'
<1>0. actor = "purge" /\ actor' = "signals" /\ UNCHANGED <<lifeVars, sidecarVars, worker, lane, ack, fault>>
  BY DEF ActorPurges
<1>1. CASE gen = 0
  <2>1. UNCHANGED <<pending, retired, replies>>
    BY <1>1 DEF ActorPurges
  <2>2. CommandsTypes'
    BY <1>0, <2>1 DEF CommandsInv, CommandsTypes, CommandsTypeOK, lifeVars, sidecarVars, ActorAt
  <2>3. OneAnswer' /\ AnswersSent' /\ LifeAgrees'
    BY <1>0, <2>1 DEF CommandsInv, OneAnswer, AnswersSent, LifeAgrees, lifeVars, sidecarVars
  <2>4. QueueHolds' /\ HandHolds' /\ LaneHolds' /\ MapHolds'
    BY <1>0, <2>1, PlacesLose DEF CommandsInv, CommandsTypes, lifeVars, sidecarVars
  <2>5. NoneForgotten'
    BY <1>0, <1>1 DEF NoneForgotten, IsLive, lifeVars
  <2> QED
    BY <2>2, <2>3, <2>4, <2>5 DEF CommandsInv
<1>2. CASE gen # 0
  <2>0. Overdue \in SUBSET Waiting
    BY OverdueWaits
  <2>1. Retire(Overdue, "expired") /\ "expired" \in Replies
    BY <1>2 DEF ActorPurges, Replies
  <2>2. /\ pending' \in [ApprovalIds -> 0..MaxRequests]
        /\ retired' \in Seq(ApprovalIds) /\ Len(retired') <= MaxRetired
        /\ replies' \in [Req -> Seq(Replies)] /\ OneAnswer'
        /\ \A i \in ApprovalIds : pending'[i] = IF i \in Overdue THEN 0 ELSE pending[i]
        /\ \A i \in ApprovalIds : Contains(retired', i) => i \in Overdue \/ Contains(retired, i)
        /\ \A n \in Req : replies'[n] = replies[n] \/ \E i \in Overdue : pending[i] = n
        /\ \A n \in Req : open /\ (\E i \in Overdue : pending[i] = n) => replies'[n] # <<>>
    BY <2>0, <2>1, RetireFacts
  <2>3. CommandsTypes'
    BY <1>0, <2>2 DEF CommandsInv, CommandsTypes, CommandsTypeOK, lifeVars, sidecarVars, ActorAt
  <2>4. LifeAgrees'
    BY <1>0, <2>2 DEF CommandsInv, LifeAgrees, lifeVars, sidecarVars
  <2>5. AnswersSent' /\ QueueHolds' /\ HandHolds' /\ LaneHolds' /\ MapHolds'
    BY <1>0, <2>0, <2>2, RetirePlaces DEF lifeVars, sidecarVars
  <2>6. \A n \in Req : replies'[n] = replies[n] \/ replies'[n] # <<>>
    BY <2>0, <2>1, RetireFacts
  <2>7. NoneForgotten'
    BY <1>0, <2>0, <2>2, <2>6, RetireForgetsNone DEF lifeVars, sidecarVars
  <2> QED
    BY <2>2, <2>3, <2>4, <2>5, <2>7 DEF CommandsInv
<1> QED
  BY <1>1, <1>2

\* Ending a generation answers everything that waits.
LEMMA BeginStopKeepsInv ==
  ASSUME CommandsInv, gen # 0, actor # "stopping", BeginStop
  PROVE  CommandsInv'
<1>0. /\ actor' = "stopping" /\ current' = 0 /\ fault' = 0
      /\ UNCHANGED <<gen, nextGen, replayed, sidecarVars, lane, ack>>
      /\ Waiting \in SUBSET Waiting /\ Retire(Waiting, "not_found") /\ "not_found" \in Replies
  BY DEF BeginStop, Replies
<1>1. worker' \in Workers /\ worker'.cancel /\ worker'.pc = worker.pc /\ worker'.ev = worker.ev
      /\ worker'.g = worker.g
  BY DEF CommandsInv, CommandsTypes, BeginStop, Workers
<1>2. /\ pending' \in [ApprovalIds -> 0..MaxRequests]
      /\ retired' \in Seq(ApprovalIds) /\ Len(retired') <= MaxRetired
      /\ replies' \in [Req -> Seq(Replies)] /\ OneAnswer'
      /\ \A i \in ApprovalIds : pending'[i] = IF i \in Waiting THEN 0 ELSE pending[i]
      /\ \A i \in ApprovalIds : Contains(retired', i) => i \in Waiting \/ Contains(retired, i)
      /\ \A n \in Req : replies'[n] = replies[n] \/ \E i \in Waiting : pending[i] = n
  BY <1>0, RetireFacts
<1>3. CommandsTypes'
  <2>1. current' \in 0..MaxGen /\ fault' \in 0..MaxGen
    BY <1>0, CommandsAssumption
  <2> QED
    BY <1>0, <1>1, <1>2, <2>1 DEF CommandsInv, CommandsTypes, CommandsTypeOK, sidecarVars, ActorAt
<1>4. LifeAgrees'
  <2>1. \A i \in ApprovalIds : pending'[i] = 0
    BY <1>2 DEF Waiting
  <2> QED
    BY <1>0, <1>1, <2>1 DEF CommandsInv, LifeAgrees, sidecarVars
<1>5. AnswersSent' /\ QueueHolds' /\ HandHolds' /\ LaneHolds' /\ MapHolds'
  BY <1>0, <1>1, <1>2, RetirePlaces DEF sidecarVars
<1>6. NoneForgotten'
  BY <1>0 DEF NoneForgotten
<1> QED
  BY <1>2, <1>3, <1>4, <1>5, <1>6 DEF CommandsInv

\* A fault and a stop end the generation, with everything that waits for it.
LEMMA ActorFaultKeepsInv ==
  ASSUME CommandsInv, ActorFault
  PROVE  CommandsInv'
<1>1. CASE gen # 0 /\ fault = gen /\ BeginStop
  BY <1>1, BeginStopKeepsInv DEF ActorFault
<1>2. CASE /\ ~(gen # 0 /\ fault = gen) /\ actor' = "command"
           /\ UNCHANGED <<lifeVars, sidecarVars, worker, lane, actorVars, fault>>
  <2>1. CommandsTypes'
    BY <1>2 DEF CommandsInv, CommandsTypes, CommandsTypeOK, lifeVars, sidecarVars, actorVars,
       ActorAt
  <2>2. OneAnswer' /\ AnswersSent' /\ LifeAgrees'
    BY <1>2 DEF CommandsInv, OneAnswer, AnswersSent, LifeAgrees, lifeVars, sidecarVars,
       actorVars, ActorFault
  <2>3. QueueHolds' /\ HandHolds' /\ LaneHolds' /\ MapHolds'
    BY <1>2, PlacesLose DEF CommandsInv, CommandsTypes, lifeVars, sidecarVars, actorVars
  <2>4. NoneForgotten'
    BY <1>2 DEF CommandsInv, NoneForgotten, IsLive, Queued, Handled, Signalled, Registered,
       ActorFault,
                lifeVars, sidecarVars, actorVars
  <2> QED
    BY <2>1, <2>2, <2>3, <2>4 DEF CommandsInv
<1> QED
  BY <1>1, <1>2 DEF ActorFault

LEMMA ActorStopsKeepsInv ==
  ASSUME CommandsInv, ActorStops
  PROVE  CommandsInv'
  BY BeginStopKeepsInv DEF ActorStops

\* What a step needs of the types.
LEMMA StateShape ==
  ASSUME CommandsInv
  PROVE  /\ pump \in Pumps /\ pump.req \in Seq(Req) /\ pump.ctl \in Seq(CtlEvents) /\ pump.data \in Seq(Req)
         /\ worker \in Workers /\ worker.g \in 0..MaxGen /\ worker.ev \in WorkerEvents
         /\ lane \in Seq(Signals) /\ Len(lane) <= LaneCap
         /\ pending \in [ApprovalIds -> 0..MaxRequests]
         /\ retired \in Seq(ApprovalIds) /\ replies \in [Req -> Seq(Replies)]
         /\ sent \in Seq(1..MaxGen) /\ Len(sent) \in Nat /\ Len(sent) <= MaxRequests
         /\ DOMAIN sent = 1..Len(sent) /\ DOMAIN sent \subseteq Req
<1>1. /\ pump \in Pumps /\ worker \in Workers /\ lane \in Seq(Signals) /\ Len(lane) <= LaneCap
      /\ pending \in [ApprovalIds -> 0..MaxRequests]
      /\ retired \in Seq(ApprovalIds) /\ replies \in [Req -> Seq(Replies)]
      /\ sent \in Seq(1..MaxGen) /\ Len(sent) <= MaxRequests
  BY DEF CommandsInv, CommandsTypes, CommandsTypeOK
<1>2. pump.req \in Seq(Req) /\ pump.ctl \in Seq(CtlEvents) /\ pump.data \in Seq(Req)
  BY <1>1 DEF Pumps
<1>3. worker.g \in 0..MaxGen /\ worker.ev \in WorkerEvents
  BY <1>1 DEF Workers
<1>4. Len(sent) \in Nat /\ DOMAIN sent = 1..Len(sent) /\ DOMAIN sent \subseteq Req
  <2>1. Len(sent) \in Nat /\ DOMAIN sent = 1..Len(sent)
    BY <1>1
  <2> QED
    BY <1>1, <2>1, CommandsAssumption DEF Req
<1> QED
  BY <1>1, <1>2, <1>3, <1>4

\* A nested handler answers the request it takes from the queue.
LEMMA NestedHandlerKeepsInv ==
  ASSUME CommandsInv, NestedHandler
  PROVE  CommandsInv'
<1>0. /\ actor = "busy" /\ pump.req # <<>>
      /\ UNCHANGED <<lifeVars, open, sent, announced, ended, overdue, worker, lane, pending, retired,
                     ack, fault, actor>>
      /\ open
  BY DEF NestedHandler, CommandsInv, LifeAgrees
<1>1. PICK q : q = Tail(pump.req)
  OBVIOUS
<1>2. PICK n : n = Head(pump.req)
  OBVIOUS
<1>3. /\ q \in Seq(Req) /\ n = pump.req[1] /\ n \in Req /\ Len(q) = Len(pump.req) - 1
      /\ Len(pump.req) \in Nat \ {0}
      /\ \A k \in 1..Len(q) : k + 1 \in 1..Len(pump.req) /\ q[k] = pump.req[k + 1]
      /\ \A k \in 1..Len(pump.req) : k # 1 => k - 1 \in 1..Len(q) /\ q[k - 1] = pump.req[k]
  BY <1>0, <1>1, <1>2, StateShape, TailPlaces
<1>4. pump' = [pump EXCEPT !.req = q] /\ pump' \in Pumps /\ pump'.req = q
  <2>1. pump' = [pump EXCEPT !.req = q]
    BY <1>1 DEF NestedHandler
  <2> QED
    BY <2>1, <1>3, StateShape DEF Pumps
<1>5. Queued(n) /\ Unanswered(n, gen)
  BY <1>3 DEF Queued, CommandsInv, QueueHolds
<1>6. replies' = [replies EXCEPT ![n] = Append(@, "method_not_found")]
  BY <1>0, <1>2 DEF NestedHandler, Answer
<1>7. /\ Append(replies[n], "method_not_found") \in Seq(Replies)
      /\ Len(Append(replies[n], "method_not_found")) = 1
      /\ Append(replies[n], "method_not_found") # <<>>
  BY <1>3, <1>5, FirstAnswer DEF Unanswered, Replies
<1>8. /\ replies' \in [Req -> Seq(Replies)] /\ Len(replies'[n]) = 1 /\ replies'[n] # <<>>
      /\ \A m \in Req : m # n => replies'[m] = replies[m]
  BY <1>3, <1>6, <1>7, StateShape
<1>9. CommandsTypes'
  BY <1>0, <1>4, <1>8 DEF CommandsInv, CommandsTypes, CommandsTypeOK, lifeVars
<1>10. OneAnswer' /\ AnswersSent'
  <2>1. OneAnswer'
    BY <1>8 DEF CommandsInv, OneAnswer
  <2>2. AnswersSent'
    BY <1>0, <1>5, <1>8 DEF CommandsInv, AnswersSent, Unanswered
  <2> QED
    BY <2>1, <2>2
<1>11. LifeAgrees'
  BY <1>0, <1>4 DEF CommandsInv, LifeAgrees, lifeVars
<1>12. ~Queued(n)'
  <2>1. \A j, k \in 1..Len(pump.req) : pump.req[j] = pump.req[k] => j = k
    BY DEF CommandsInv, QueueHolds
  <2> SUFFICES ASSUME NEW k \in 1..Len(q), q[k] = n PROVE FALSE
    BY <1>4 DEF Queued
  <2>2. 1 \in 1..Len(pump.req) /\ k + 1 \in 1..Len(pump.req) /\ pump.req[k + 1] = pump.req[1]
    BY <1>3
  <2>3. k + 1 = 1
    BY <2>1, <2>2
  <2> QED
    BY <2>3
<1>13. ~Handled(n) /\ ~Signalled(n) /\ ~Registered(n)
  <2>1. n # 0
    BY <1>3, CommandsAssumption DEF Req
  <2>2. ~Handled(n)
    BY <1>3, <1>5 DEF CommandsInv, HandHolds
  <2>3. ~Signalled(n)
    BY <1>5 DEF CommandsInv, LaneHolds, Signalled
  <2>4. ~Registered(n)
    BY <1>5, <2>1 DEF CommandsInv, MapHolds, Registered
  <2> QED
    BY <2>2, <2>3, <2>4
<1>14. ~Handled(n)' /\ ~Signalled(n)' /\ ~Registered(n)'
  BY <1>0, <1>13 DEF Handled, Signalled, Registered
<1>15. QueueHolds' /\ HandHolds' /\ LaneHolds' /\ MapHolds'
  <2>1. \A m \in Req : \/ replies'[m] = replies[m]
                       \/ ~Queued(m)' /\ ~Handled(m)' /\ ~Signalled(m)' /\ ~Registered(m)'
    BY <1>8, <1>12, <1>14
  <2>2. \A i \in ApprovalIds : pending'[i] = pending[i]
    BY <1>0
  <2> QED
    BY <1>0, <1>1, <1>4, <1>8, <2>1, <2>2, PlacesLose DEF lifeVars
<1>16. NoneForgotten'
  <2> SUFFICES ASSUME NEW m \in Req, open', IsLive(m)', replies'[m] = <<>>
               PROVE  Queued(m)' \/ Handled(m)' \/ Signalled(m)' \/ Registered(m)' \/ fault' = gen'
                      \/ actor' = "stopping"
    BY DEF NoneForgotten
  <2>1. m # n /\ open /\ IsLive(m) /\ replies[m] = <<>>
    BY <1>0, <1>8 DEF IsLive, lifeVars
  <2>2. Queued(m) \/ Handled(m) \/ Signalled(m) \/ Registered(m) \/ fault = gen \/ actor = "stopping"
    BY <2>1 DEF CommandsInv, NoneForgotten
  <2>3. Queued(m) => Queued(m)'
    BY <1>3, <1>4, <2>1 DEF Queued
  <2> QED
    BY <1>0, <2>2, <2>3 DEF Handled, Signalled, Registered, lifeVars
<1> QED
  BY <1>9, <1>10, <1>11, <1>15, <1>16 DEF CommandsInv

\* A new request enters the queue under a number nothing else has.
LEMMA SendRequestKeepsInv ==
  ASSUME CommandsInv, SendRequest
  PROVE  CommandsInv'
<1>a. PICK n : n = announced
  OBVIOUS
<1>0. /\ open /\ n # 0 /\ n = Len(sent) + 1 /\ gen # 0 /\ sent' = Append(sent, gen) /\ announced' = 0
      /\ UNCHANGED <<lifeVars, open, ended, overdue, worker, lane, actorVars, fault, actor>>
      /\ pump' = [pump EXCEPT !.req = Append(@, n)]
  BY <1>a DEF SendRequest, CommandsInv, LifeAgrees
<1>1. n \in Req /\ n \in Nat /\ gen \in 1..MaxGen
  BY <1>0, <1>a, CommandsAssumption, SMTT(40) DEF CommandsInv, CommandsTypes, CommandsTypeOK, Req
<1>2. /\ sent' \in Seq(1..MaxGen) /\ Len(sent') = Len(sent) + 1 /\ Len(sent') <= MaxRequests
      /\ DOMAIN sent = 1..Len(sent) /\ DOMAIN sent' = 1..Len(sent') /\ n \notin DOMAIN sent /\ sent'[n] = gen
      /\ n \in DOMAIN sent'
      /\ \A m \in DOMAIN sent : m \in DOMAIN sent' /\ sent'[m] = sent[m]
      /\ \A m \in DOMAIN sent' : m = n \/ m \in DOMAIN sent
  <2>1. sent \in Seq(1..MaxGen) /\ Len(sent) \in Nat /\ MaxRequests \in Nat
    BY StateShape, CommandsAssumption
  <2>2. n <= MaxRequests
    BY <1>1, CommandsAssumption DEF Req
  <2> QED
    BY <1>0, <1>1, <2>1, <2>2
<1>3. PICK q : q = Append(pump.req, n)
  OBVIOUS
<1>4. /\ q \in Seq(Req) /\ Len(q) = Len(pump.req) + 1 /\ Len(pump.req) \in Nat /\ q[Len(pump.req) + 1] = n
      /\ \A k \in 1..Len(pump.req) : q[k] = pump.req[k]
      /\ \A k \in 1..(Len(pump.req) + 1) : k = Len(pump.req) + 1 \/ k \in 1..Len(pump.req)
  BY <1>1, <1>3, StateShape, AppendPlaces
<1>5. pump' = [pump EXCEPT !.req = q] /\ pump' \in Pumps /\ pump'.req = q
  <2>1. pump' = [pump EXCEPT !.req = q]
    BY <1>0, <1>3
  <2> QED
    BY <2>1, <1>4, StateShape DEF Pumps
<1>6. CommandsTypes'
  <2>1. announced' \in 0..MaxRequests
    BY <1>0, CommandsAssumption
  <2> QED
    BY <1>0, <1>2, <1>5, <2>1 DEF CommandsInv, CommandsTypes, CommandsTypeOK, lifeVars, actorVars
<1>7. replies[n] = <<>>
  BY <1>1, <1>2 DEF CommandsInv, AnswersSent
<1>8. OneAnswer' /\ AnswersSent'
  BY <1>0, <1>2 DEF CommandsInv, OneAnswer, AnswersSent, actorVars
<1>9. LifeAgrees'
  <2>1. gen < nextGen /\ \A m \in DOMAIN sent : sent[m] < nextGen
    BY <1>0, <1>1 DEF CommandsInv, LifeAgrees
  <2>2. \A m \in DOMAIN sent' : sent'[m] < nextGen'
    BY <1>0, <1>2, <2>1 DEF lifeVars
  <2> QED
    BY <1>0, <2>2 DEF CommandsInv, LifeAgrees, lifeVars, actorVars
<1>10. \A m \in Req : \A g : Unanswered(m, g) => Unanswered(m, g)' /\ m # n
  BY <1>0, <1>2 DEF Unanswered, actorVars
<1>11. \A m : Queued(m)' <=> Queued(m) \/ m = n
  BY <1>4, <1>5 DEF Queued
<1>12. Unanswered(n, gen)'
  BY <1>0, <1>2, <1>7 DEF Unanswered, actorVars, lifeVars
<1>13. QueueHolds'
  <2>1. \A k \in 1..Len(pump.req) : Unanswered(pump.req[k], gen) /\ pump.req[k] \in Req
    BY StateShape DEF CommandsInv, QueueHolds
  <2>2. \A k \in 1..Len(pump.req) : Unanswered(pump.req[k], gen) => pump.req[k] # n
    BY <1>2 DEF Unanswered
  <2>3. \A k \in 1..Len(pump'.req) : Unanswered(pump.req[k], gen)'
    <3> SUFFICES ASSUME NEW k \in 1..Len(pump'.req) PROVE Unanswered(pump.req[k], gen)'
      OBVIOUS
    <3>1. CASE k = Len(pump.req) + 1
      <4>1. pump'.req[k] = n
        BY <1>4, <1>5, <3>1
      <4> QED
        BY <4>1, <1>12 DEF Unanswered
    <3>2. CASE k \in 1..Len(pump.req)
      <4>1. pump'.req[k] = pump.req[k]
        BY <1>4, <1>5, <3>2
      <4> QED
        BY <4>1, <2>1, <3>2, <1>0, <1>2 DEF Unanswered, actorVars, lifeVars
    <3> QED
      BY <1>4, <1>5, <3>1, <3>2
  <2>4. \A j, k \in 1..Len(pump'.req) : pump'.req[j] = pump'.req[k] => j = k
    <3>1. \A j, k \in 1..Len(pump.req) : pump.req[j] = pump.req[k] => j = k
      BY DEF CommandsInv, QueueHolds
    <3> QED
      BY <1>4, <1>5, <2>1, <2>2, <3>1
  <2> QED
    BY <2>3, <2>4 DEF QueueHolds
<1>14. HandHolds'
  BY <1>0, <1>10, <1>11 DEF CommandsInv, HandHolds, Handled
<1>15. LaneHolds'
  <2>1. \A k \in 1..Len(lane) : lane[k].kind = "approval" =>
          /\ Unanswered(lane[k].of, lane[k].g) /\ lane[k].of \in Req
          /\ ~Queued(lane[k].of) /\ ~Handled(lane[k].of)
    BY StateShape DEF CommandsInv, LaneHolds, Unanswered
  <2>2. \A k \in 1..Len(lane) : lane[k].kind = "approval" =>
          /\ Unanswered(lane[k].of, lane[k].g)'
          /\ ~Queued(lane[k].of)' /\ ~Handled(lane[k].of)'
    <3> SUFFICES ASSUME NEW k \in 1..Len(lane), lane[k].kind = "approval"
                 PROVE  /\ Unanswered(lane[k].of, lane[k].g)'
                        /\ ~Queued(lane[k].of)' /\ ~Handled(lane[k].of)'
      OBVIOUS
    <3>1. PICK x, g : x = lane[k].of /\ g = lane[k].g
      OBVIOUS
    <3>2. Unanswered(x, g)' /\ ~Queued(x)' /\ ~Handled(x)'
      BY <2>1, <3>1, <1>0, <1>10, <1>11 DEF Handled
    <3> QED
      BY <3>1, <3>2, <1>0 DEF Unanswered, Queued, Handled
  <2> QED
    BY <1>0, <2>2 DEF CommandsInv, LaneHolds
<1>16. MapHolds'
  <2> SUFFICES ASSUME NEW i \in ApprovalIds, pending[i] # 0
               PROVE  /\ Unanswered(pending[i], gen)' /\ IdOf(pending'[i]) = i /\ ~Contains(retired', i)
                      /\ ~Queued(pending[i])' /\ ~Handled(pending[i])' /\ ~Signalled(pending[i])'
    BY <1>0 DEF MapHolds, actorVars
  <2>1. PICK x : x = pending[i]
    OBVIOUS
  <2>2. /\ Unanswered(x, gen) /\ IdOf(x) = i /\ ~Contains(retired, i)
        /\ ~Queued(x) /\ ~Handled(x) /\ ~Signalled(x)
    BY <2>1 DEF CommandsInv, MapHolds
  <2>3. x \in Req
    BY <2>2, StateShape DEF Unanswered
  <2>4. Unanswered(x, gen)' /\ ~Queued(x)' /\ ~Handled(x)' /\ ~Signalled(x)'
    BY <2>2, <2>3, <1>0, <1>10, <1>11 DEF Handled, Signalled, Unanswered, lifeVars
  <2> QED
    BY <2>1, <2>2, <2>4, <1>0 DEF Unanswered, Queued, Handled, Signalled, actorVars
<1>17. NoneForgotten'
  <2>1. \A m \in Req : IsLive(m)' => m = n \/ IsLive(m)
    BY <1>0, <1>2 DEF IsLive, lifeVars
  <2> QED
    BY <2>1, <1>0, <1>11 DEF CommandsInv, NoneForgotten, Handled, Signalled, Registered,
       lifeVars, actorVars
<1> QED
  BY <1>6, <1>8, <1>9, <1>13, <1>14, <1>15, <1>16, <1>17 DEF CommandsInv

\* The worker takes an event; a request moves from the queue into its hand.
LEMMA WorkerPollKeepsInv ==
  ASSUME CommandsInv, WorkerPoll
  PROVE  CommandsInv'
<1>0. /\ worker.pc = "poll"
      /\ UNCHANGED <<lifeVars, open, sent, announced, ended, overdue, lane, actorVars, fault, actor>>
  BY DEF WorkerPoll
<1>a. gen # 0 /\ worker.g = gen
  BY <1>0 DEF CommandsInv, LifeAgrees
<1>1. OneAnswer' /\ AnswersSent'
  BY <1>0 DEF CommandsInv, OneAnswer, AnswersSent, actorVars
<1>2. CASE ~EventIsCurrent
  <2>1. worker' = [worker EXCEPT !.pc = "done"] /\ pump' = pump
    BY <1>2 DEF WorkerPoll
  <2>2. worker' \in Workers /\ worker'.pc = "done" /\ worker'.g = worker.g /\ worker'.cancel = worker.cancel
    BY <2>1, StateShape DEF Workers
  <2>3. CommandsTypes'
    BY <1>0, <2>1, <2>2 DEF CommandsInv, CommandsTypes, CommandsTypeOK, lifeVars, actorVars
  <2>4. LifeAgrees'
    BY <1>0, <2>1, <2>2 DEF CommandsInv, LifeAgrees, lifeVars, actorVars
  <2>5. QueueHolds' /\ HandHolds' /\ LaneHolds' /\ MapHolds'
    BY <1>0, <2>1, <2>2, PlacesLose, StateShape DEF lifeVars, actorVars
  <2>6. NoneForgotten'
    BY <1>0, <2>1, <2>2 DEF CommandsInv, NoneForgotten, IsLive, Queued, Handled, Signalled,
       Registered, lifeVars, actorVars
  <2> QED
    BY <1>1, <2>3, <2>4, <2>5, <2>6 DEF CommandsInv
<1>3. ASSUME NEW q \in {"ctl", "data"}, q \in Poppable,
             worker' = [worker EXCEPT !.pc = "handle", !.ev = Popped(q)],
             pump' = [pump EXCEPT ![q] = Tail(@)]
      PROVE  CommandsInv'
  <2>1. pump' \in Pumps /\ pump'.req = pump.req /\ Popped(q) \in WorkerEvents /\ Popped(q).kind # "request"
    <3>1. CASE q = "ctl"
      <4>1. pump.ctl # <<>>
        BY <1>3, <3>1 DEF Poppable
      <4>2. PICK c : c = Tail(pump.ctl)
        OBVIOUS
      <4>3. c \in Seq(CtlEvents) /\ Head(pump.ctl) \in CtlEvents
        BY <4>1, <4>2, StateShape, TailPlaces
      <4>4. pump' = [pump EXCEPT !.ctl = c]
        BY <1>3, <3>1, <4>2
      <4>5. pump' \in Pumps /\ pump'.req = pump.req
        BY <4>3, <4>4, StateShape DEF Pumps
      <4>6. Popped(q) = Head(pump.ctl)
        BY <3>1 DEF Popped
      <4>7. Popped(q) \in WorkerEvents /\ Popped(q).kind # "request"
        BY <4>3, <4>6 DEF CtlEvents, WorkerEvents, None
      <4> QED
        BY <4>5, <4>7
    <3>2. CASE q = "data"
      <4>1. pump.data # <<>>
        BY <1>3, <3>2 DEF Poppable
      <4>2. PICK c : c = Tail(pump.data)
        OBVIOUS
      <4>3. c \in Seq(Req) /\ Head(pump.data) \in Req
        BY <4>1, <4>2, StateShape, TailPlaces
      <4>4. pump' = [pump EXCEPT !.data = c]
        BY <1>3, <3>2, <4>2
      <4>5. pump' \in Pumps /\ pump'.req = pump.req
        BY <4>3, <4>4, StateShape DEF Pumps
      <4>6. Popped(q) = [kind |-> "notification", of |-> Head(pump.data)]
        BY <3>2 DEF Popped
      <4>7. Popped(q) \in WorkerEvents /\ Popped(q).kind # "request"
        BY <4>3, <4>6 DEF WorkerEvents
      <4> QED
        BY <4>5, <4>7
    <3> QED
      BY <3>1, <3>2
  <2>a. PICK e : e = Popped(q)
    OBVIOUS
  <2>2. /\ worker' \in Workers /\ worker'.pc = "handle" /\ worker'.g = worker.g /\ worker'.cancel = worker.cancel
        /\ worker'.ev.kind # "request"
    BY <1>3, <2>1, <2>a, StateShape DEF Workers
  <2>3. CommandsTypes'
    BY <1>0, <2>1, <2>2 DEF CommandsInv, CommandsTypes, CommandsTypeOK, lifeVars, actorVars
  <2>4. LifeAgrees'
    BY <1>0, <1>a, <2>1, <2>2 DEF CommandsInv, LifeAgrees, lifeVars, actorVars
  <2>5. QueueHolds' /\ HandHolds' /\ LaneHolds' /\ MapHolds'
    BY <1>0, <2>1, <2>2, PlacesLose, StateShape DEF lifeVars, actorVars
  <2>6. NoneForgotten'
    BY <1>0, <2>1, <2>2 DEF CommandsInv, NoneForgotten, IsLive, Queued, Handled, Signalled,
       Registered, lifeVars, actorVars
  <2> QED
    BY <1>1, <2>3, <2>4, <2>5, <2>6 DEF CommandsInv
<1>4. ASSUME "req" \in Poppable,
             worker' = [worker EXCEPT !.pc = "handle", !.ev = Popped("req")],
             pump' = [pump EXCEPT !.req = Tail(@)]
      PROVE  CommandsInv'
  <2>0. pump.req # <<>>
    BY <1>4 DEF Poppable
  <2>1. PICK q, n : q = Tail(pump.req) /\ n = Head(pump.req)
    OBVIOUS
  <2>2. /\ q \in Seq(Req) /\ n = pump.req[1] /\ n \in Req /\ Len(q) = Len(pump.req) - 1
        /\ Len(pump.req) \in Nat \ {0} /\ 1 \in 1..Len(pump.req)
        /\ \A k \in 1..Len(q) : k + 1 \in 1..Len(pump.req) /\ q[k] = pump.req[k + 1]
        /\ \A k \in 1..Len(pump.req) : k # 1 => k - 1 \in 1..Len(q) /\ q[k - 1] = pump.req[k]
    BY <2>0, <2>1, StateShape, TailPlaces
  <2>3. pump' = [pump EXCEPT !.req = q] /\ pump' \in Pumps /\ pump'.req = q
    <3>1. pump' = [pump EXCEPT !.req = q]
      BY <1>4, <2>1
    <3> QED
      BY <3>1, <2>2, StateShape DEF Pumps
  <2>4. PICK e : e = [kind |-> "request", of |-> n]
    OBVIOUS
  <2>5. Popped("req") = e /\ e \in WorkerEvents /\ e.kind = "request" /\ e.of = n
    BY <2>1, <2>2, <2>4 DEF Popped, WorkerEvents
  <2>6. /\ worker' \in Workers /\ worker'.pc = "handle" /\ worker'.g = worker.g /\ worker'.cancel = worker.cancel
        /\ worker'.ev = e
    <3>1. worker' = [worker EXCEPT !.pc = "handle", !.ev = e]
      BY <1>4, <2>5
    <3> QED
      BY <3>1, <2>5, StateShape DEF Workers
  <2>7. CommandsTypes'
    BY <1>0, <2>3, <2>6 DEF CommandsInv, CommandsTypes, CommandsTypeOK, lifeVars, actorVars
  <2>8. LifeAgrees'
    BY <1>0, <1>a, <2>0, <2>3, <2>6 DEF CommandsInv, LifeAgrees, lifeVars, actorVars
  <2>9. Queued(n) /\ Unanswered(n, gen) /\ n # 0
    BY <2>2, CommandsAssumption DEF Queued, CommandsInv, QueueHolds, Req
  <2>10. ~Signalled(n) /\ ~Registered(n)
    BY <2>9 DEF CommandsInv, LaneHolds, MapHolds, Signalled, Registered
  <2>11. \A j, k \in 1..Len(pump.req) : pump.req[j] = pump.req[k] => j = k
    BY DEF CommandsInv, QueueHolds
  <2>12. \A m : Queued(m) <=> m = n \/ Queued(m)'
    BY <2>2, <2>3, SMTT(40) DEF Queued
  <2>13. ~Queued(n)'
    <3> SUFFICES ASSUME NEW k \in 1..Len(q), q[k] = n PROVE FALSE
      BY <2>3 DEF Queued
    <3>1. k + 1 = 1
      BY <2>2, <2>11
    <3> QED
      BY <3>1
  <2>14. \A m : Handled(m)' <=> m = n
    BY <2>5, <2>6 DEF Handled
  <2>15. \A m, g : Unanswered(m, g) <=> Unanswered(m, g)'
    BY <1>0 DEF Unanswered, actorVars
  <2>16. QueueHolds'
    <3>1. \A k \in 1..Len(q) : Unanswered(q[k], gen)
      BY <2>2 DEF CommandsInv, QueueHolds
    <3>2. \A k \in 1..Len(q) : Unanswered(q[k], gen)'
      BY <3>1, <1>0 DEF Unanswered, lifeVars, actorVars
    <3>3. \A j, k \in 1..Len(q) : q[j] = q[k] => j = k
      <4> SUFFICES ASSUME NEW j \in 1..Len(q), NEW k \in 1..Len(q), q[j] = q[k] PROVE j = k
        OBVIOUS
      <4>1. j + 1 = k + 1
        BY <2>2, <2>11, SMTT(40)
      <4> QED
        BY <4>1
    <3> QED
      BY <2>3, <3>2, <3>3 DEF QueueHolds, Unanswered
  <2>17. HandHolds'
    BY <1>0, <1>a, <2>6, <2>9, <2>13, <2>14 DEF HandHolds, Unanswered, actorVars
  <2>18. LaneHolds'
    <3>1. \A k \in 1..Len(lane) : lane[k].kind = "approval" =>
            Unanswered(lane[k].of, lane[k].g) /\ ~Queued(lane[k].of)
      BY DEF CommandsInv, LaneHolds
    <3>2. \A k \in 1..Len(lane) : lane[k].kind = "approval" =>
            Unanswered(lane[k].of, lane[k].g)' /\ ~Queued(lane[k].of)' /\ ~Handled(lane[k].of)'
      <4> SUFFICES ASSUME NEW k \in 1..Len(lane), lane[k].kind = "approval"
                   PROVE  Unanswered(lane[k].of, lane[k].g)' /\ ~Queued(lane[k].of)' /\ ~Handled(lane[k].of)'
        OBVIOUS
      <4>1. PICK x, g : x = lane[k].of /\ g = lane[k].g
        OBVIOUS
      <4>2. Unanswered(x, g)' /\ ~Queued(x)' /\ ~Handled(x)'
        BY <3>1, <4>1, <2>9, <2>12, <2>14, <2>15
      <4> QED
        BY <4>1, <4>2, <1>0 DEF Unanswered, Queued, Handled
    <3> QED
      BY <1>0, <3>2 DEF CommandsInv, LaneHolds
  <2>19. MapHolds'
    <3> SUFFICES ASSUME NEW i \in ApprovalIds, pending[i] # 0
                 PROVE  /\ Unanswered(pending[i], gen)' /\ IdOf(pending'[i]) = i /\ ~Contains(retired', i)
                        /\ ~Queued(pending[i])' /\ ~Handled(pending[i])' /\ ~Signalled(pending[i])'
      BY <1>0 DEF MapHolds, actorVars
    <3>1. PICK x : x = pending[i]
      OBVIOUS
    <3>2. Unanswered(x, gen) /\ IdOf(x) = i /\ ~Contains(retired, i) /\ ~Queued(x) /\ ~Signalled(x)
      BY <3>1 DEF CommandsInv, MapHolds
    <3>3. Unanswered(x, gen)' /\ ~Queued(x)' /\ ~Handled(x)' /\ ~Signalled(x)'
      BY <3>2, <1>0, <2>9, <2>12, <2>14 DEF Signalled, Unanswered, lifeVars, actorVars
    <3> QED
      BY <3>1, <3>2, <3>3, <1>0 DEF Unanswered, Queued, Handled, Signalled, actorVars
  <2>20. NoneForgotten'
    BY <1>0, <2>12, <2>14 DEF CommandsInv, NoneForgotten, IsLive, Handled, Signalled, Registered,
       lifeVars, actorVars
  <2> QED
    BY <1>1, <2>7, <2>8, <2>16, <2>17, <2>18, <2>19, <2>20 DEF CommandsInv
<1>5. CASE EventIsCurrent
  <2>1. PICK q \in Poppable : /\ worker' = [worker EXCEPT !.pc = "handle", !.ev = Popped(q)]
                              /\ pump' = [pump EXCEPT ![q] = Tail(@)]
    BY <1>5 DEF WorkerPoll
  <2>2. q \in {"req", "ctl", "data"}
    BY DEF Poppable
  <2>3. CASE q = "req"
    BY <1>4, <2>1, <2>3
  <2>4. CASE q \in {"ctl", "data"}
    BY <1>3, <2>1, <2>4
  <2> QED
    BY <2>2, <2>3, <2>4
<1> QED
  BY <1>2, <1>5

\* The worker ends its generation: what it held is torn down with it.
LEMMA PublishKeepsInv ==
  ASSUME CommandsInv, worker.pc = "handle", EventIsCurrent, Publish, lane' = lane,
         UNCHANGED <<lifeVars, sidecarVars, actorVars, actor>>
  PROVE  CommandsInv'
<1>0. gen # 0 /\ worker.g = gen
  BY DEF CommandsInv, LifeAgrees
<1>1. /\ worker' \in Workers /\ worker'.pc = "done" /\ worker'.g = worker.g /\ worker'.cancel = worker.cancel
      /\ fault' = gen
  <2>1. worker' = [worker EXCEPT !.pc = "done", !.ev = NoEvent] /\ NoEvent \in WorkerEvents
    BY DEF Publish, NoEvent, None, WorkerEvents
  <2> QED
    BY <1>0, <2>1, StateShape DEF Workers, Publish
<1>2. CommandsTypes'
  BY <1>1, CommandsAssumption DEF CommandsInv, CommandsTypes, CommandsTypeOK, lifeVars,
     sidecarVars, actorVars
<1>3. OneAnswer' /\ AnswersSent' /\ LifeAgrees'
  BY <1>1 DEF CommandsInv, OneAnswer, AnswersSent, LifeAgrees, lifeVars, sidecarVars, actorVars
<1>4. QueueHolds' /\ HandHolds' /\ LaneHolds' /\ MapHolds'
  BY <1>1, PlacesLose, StateShape DEF lifeVars, sidecarVars, actorVars
<1>5. NoneForgotten'
  BY <1>1 DEF NoneForgotten, lifeVars
<1> QED
  BY <1>2, <1>3, <1>4, <1>5 DEF CommandsInv

\* The worker puts a signal into a lane that has room.
LEMMA OfferPlaces ==
  ASSUME CommandsInv, Len(lane) < LaneCap, NEW s \in Signals, lane' = Append(lane, s)
  PROVE  /\ lane' \in Seq(Signals) /\ Len(lane') <= LaneCap
         /\ Len(lane') = Len(lane) + 1 /\ Len(lane) \in Nat /\ lane'[Len(lane) + 1] = s
         /\ \A k \in 1..Len(lane) : lane'[k] = lane[k]
         /\ \A k \in 1..Len(lane') : k = Len(lane) + 1 \/ k \in 1..Len(lane)
         /\ \A n : Signalled(n)' <=> Signalled(n) \/ (s.kind = "approval" /\ s.of = n)
<1>0. lane \in Seq(Signals) /\ LaneCap \in Nat
  BY StateShape, CommandsAssumption
<1>1. /\ lane' \in Seq(Signals) /\ Len(lane) \in Nat /\ Len(lane') = Len(lane) + 1
      /\ lane'[Len(lane) + 1] = s
      /\ \A k \in 1..Len(lane) : lane'[k] = lane[k]
      /\ \A k \in 1..Len(lane') : k = Len(lane) + 1 \/ k \in 1..Len(lane)
  BY <1>0, AppendPlaces
<1>2. \A n : Signalled(n)' <=> Signalled(n) \/ (s.kind = "approval" /\ s.of = n)
  <2>1. 1..Len(lane) \subseteq 1..Len(lane') /\ Len(lane) + 1 \in 1..Len(lane')
    BY <1>1
  <2> QED
    BY <1>1, <2>1 DEF Signalled
<1> QED
  BY <1>0, <1>1, <1>2

\* The worker hands its request to the lane, or ends the generation when that is full.
LEMMA WorkerForwardsKeepsInv ==
  ASSUME CommandsInv, WorkerForwards
  PROVE  CommandsInv'
<1>0. /\ worker.pc = "handle" /\ EventIsCurrent /\ worker.ev.kind = "request"
      /\ UNCHANGED <<lifeVars, sidecarVars, actorVars, actor>>
  BY DEF WorkerForwards
<1>1. CASE ~(Len(lane) < LaneCap)
  BY <1>0, <1>1, PublishKeepsInv DEF WorkerForwards, Offer
<1>2. CASE Len(lane) < LaneCap
  <2>1. PICK n, s : n = worker.ev.of /\ s = [g |-> worker.g, kind |-> "approval", of |-> n]
    OBVIOUS
  <2>2. gen # 0 /\ worker.g = gen /\ worker.g \in 0..MaxGen
    BY <1>0, StateShape DEF CommandsInv, LifeAgrees
  <2>3. Handled(n)
    BY <1>0, <2>1 DEF Handled
  <2>4. n \in Req
    BY <1>0, <2>1, StateShape DEF WorkerEvents, CtlEvents, None
  <2>5. /\ Unanswered(n, gen) /\ ~Queued(n) /\ ~Signalled(n) /\ ~Registered(n) /\ n # 0
    <3>1. Unanswered(n, gen) /\ ~Queued(n) /\ n # 0
      BY <2>2, <2>3, <2>4, CommandsAssumption DEF CommandsInv, HandHolds, Req
    <3>2. ~Signalled(n)
      BY <2>3 DEF CommandsInv, LaneHolds, Signalled
    <3>3. ~Registered(n)
      BY <2>3, <3>1 DEF CommandsInv, MapHolds, Registered
    <3> QED
      BY <3>1, <3>2, <3>3
  <2>6. s \in Signals /\ s.kind = "approval" /\ s.of = n /\ s.g = gen
    BY <2>1, <2>2, <2>4 DEF Signals
  <2>7. lane' = Append(lane, s) /\ fault' = fault
    BY <1>2, <2>1 DEF WorkerForwards, Offer
  <2>8. /\ worker' \in Workers /\ worker'.pc = "await" /\ worker'.g = worker.g /\ worker'.cancel = worker.cancel
    <3>1. worker' = [worker EXCEPT !.pc = "await", !.ev = worker.ev]
      BY <1>2 DEF WorkerForwards, Offer
    <3> QED
      BY <3>1, StateShape DEF Workers
  <2>9. /\ lane' \in Seq(Signals) /\ Len(lane') <= LaneCap
        /\ Len(lane') = Len(lane) + 1 /\ Len(lane) \in Nat /\ lane'[Len(lane) + 1] = s
        /\ \A k \in 1..Len(lane) : lane'[k] = lane[k]
        /\ \A k \in 1..Len(lane') : k = Len(lane) + 1 \/ k \in 1..Len(lane)
        /\ \A m : Signalled(m)' <=> Signalled(m) \/ m = n
    BY <1>2, <2>6, <2>7, OfferPlaces
  <2>10. CommandsTypes'
    BY <1>0, <2>7, <2>8, <2>9 DEF CommandsInv, CommandsTypes, CommandsTypeOK, lifeVars,
       sidecarVars, actorVars
  <2>11. OneAnswer' /\ AnswersSent' /\ LifeAgrees'
    BY <1>0, <2>2, <2>8 DEF CommandsInv, OneAnswer, AnswersSent, LifeAgrees, lifeVars,
       sidecarVars, actorVars
  <2>12. /\ \A m : Queued(m)' <=> Queued(m)
         /\ \A m : ~Handled(m)'
         /\ \A m, g : Unanswered(m, g)' <=> Unanswered(m, g)
    BY <1>0, <2>8 DEF Queued, Handled, Unanswered, sidecarVars, actorVars
  <2>13. QueueHolds' /\ HandHolds'
    BY <1>0, <2>12 DEF CommandsInv, QueueHolds, HandHolds, Unanswered, lifeVars, sidecarVars,
       actorVars
  <2>14. LaneHolds'
    <3>1. \A k \in 1..Len(lane) : lane[k].kind = "approval" =>
            Unanswered(lane[k].of, lane[k].g) /\ ~Queued(lane[k].of) /\ lane[k].of # n
      BY <2>3 DEF CommandsInv, LaneHolds
    <3>2. \A k \in 1..Len(lane') : lane'[k].kind = "approval" =>
            Unanswered(lane[k].of, lane[k].g)' /\ ~Queued(lane[k].of)' /\ ~Handled(lane[k].of)'
      <4> SUFFICES ASSUME NEW k \in 1..Len(lane'), lane'[k].kind = "approval"
                   PROVE  Unanswered(lane[k].of, lane[k].g)' /\ ~Queued(lane[k].of)' /\ ~Handled(lane[k].of)'
        OBVIOUS
      <4>1. PICK x, g : x = lane'[k].of /\ g = lane'[k].g
        OBVIOUS
      <4>2. Unanswered(x, g) /\ ~Queued(x)
        <5>1. CASE k = Len(lane) + 1
          BY <2>5, <2>6, <2>9, <4>1, <5>1
        <5>2. CASE k \in 1..Len(lane)
          BY <2>9, <3>1, <4>1, <5>2
        <5> QED
          BY <2>9, <5>1, <5>2
      <4>3. Unanswered(x, g)' /\ ~Queued(x)' /\ ~Handled(x)'
        BY <4>2, <2>12
      <4> QED
        BY <4>1, <4>3 DEF Unanswered, Queued, Handled
    <3>3. \A j, k \in 1..Len(lane') :
            lane'[j].kind = "approval" /\ lane'[k].kind = "approval" /\ lane'[j].of = lane'[k].of => j = k
      <4>1. \A j, k \in 1..Len(lane) :
              lane[j].kind = "approval" /\ lane[k].kind = "approval" /\ lane[j].of = lane[k].of => j = k
        BY DEF CommandsInv, LaneHolds
      <4> QED
        BY <2>6, <2>9, <3>1, <4>1
    <3> QED
      BY <3>2, <3>3 DEF LaneHolds
  <2>15. MapHolds'
    <3> SUFFICES ASSUME NEW i \in ApprovalIds, pending[i] # 0
                 PROVE  /\ Unanswered(pending[i], gen)' /\ IdOf(pending'[i]) = i /\ ~Contains(retired', i)
                        /\ ~Queued(pending[i])' /\ ~Handled(pending[i])' /\ ~Signalled(pending[i])'
      BY <1>0 DEF MapHolds, actorVars
    <3>1. PICK x : x = pending[i]
      OBVIOUS
    <3>2. Unanswered(x, gen) /\ IdOf(x) = i /\ ~Contains(retired, i) /\ ~Queued(x) /\ ~Signalled(x)
          /\ ~Handled(x)
      BY <3>1 DEF CommandsInv, MapHolds
    <3>3. Unanswered(x, gen)' /\ ~Queued(x)' /\ ~Handled(x)' /\ ~Signalled(x)'
      BY <3>2, <1>0, <2>3, <2>9, <2>12 DEF Unanswered, lifeVars, sidecarVars, actorVars
    <3> QED
      BY <3>1, <3>2, <3>3, <1>0 DEF Unanswered, Queued, Handled, Signalled, actorVars
  <2>16. NoneForgotten'
    <3>1. \A m : Handled(m) => m = n
      BY <2>1 DEF Handled
    <3> QED
      BY <1>0, <2>7, <2>9, <2>12, <3>1 DEF CommandsInv, NoneForgotten, IsLive, Registered,
         lifeVars, sidecarVars, actorVars
  <2> QED
    BY <2>10, <2>11, <2>13, <2>14, <2>15, <2>16 DEF CommandsInv
<1> QED
  BY <1>1, <1>2

\* The worker signals the end of a turn.
LEMMA WorkerEndsTurnKeepsInv ==
  ASSUME CommandsInv, WorkerEndsTurn
  PROVE  CommandsInv'
<1>0. /\ worker.pc = "handle" /\ EventIsCurrent /\ worker.ev.kind = "turn"
      /\ UNCHANGED <<lifeVars, sidecarVars, actorVars, actor>>
  BY DEF WorkerEndsTurn
<1>1. CASE ~(Len(lane) < LaneCap)
  BY <1>0, <1>1, PublishKeepsInv DEF WorkerEndsTurn, Offer
<1>2. CASE Len(lane) < LaneCap
  <2>1. PICK s : s = [g |-> worker.g, kind |-> "turn", of |-> worker.ev.of]
    OBVIOUS
  <2>2. s \in Signals /\ s.kind = "turn"
    BY <1>0, <2>1, StateShape DEF WorkerEvents, CtlEvents, None, Signals
  <2>3. lane' = Append(lane, s) /\ fault' = fault
    BY <1>2, <2>1 DEF WorkerEndsTurn, Offer
  <2>4. /\ worker' \in Workers /\ worker'.pc = "poll" /\ worker'.g = worker.g /\ worker'.cancel = worker.cancel
        /\ worker'.ev = NoEvent
    <3>1. worker' = [worker EXCEPT !.pc = "poll", !.ev = NoEvent] /\ NoEvent \in WorkerEvents
      BY <1>2 DEF WorkerEndsTurn, Offer, NoEvent, None, WorkerEvents
    <3> QED
      BY <3>1, StateShape DEF Workers
  <2>5. /\ lane' \in Seq(Signals) /\ Len(lane') <= LaneCap
        /\ Len(lane') = Len(lane) + 1 /\ Len(lane) \in Nat /\ lane'[Len(lane) + 1] = s
        /\ \A k \in 1..Len(lane) : lane'[k] = lane[k]
        /\ \A k \in 1..Len(lane') : k = Len(lane) + 1 \/ k \in 1..Len(lane)
        /\ \A m : Signalled(m)' <=> Signalled(m)
    BY <1>2, <2>2, <2>3, OfferPlaces
  <2>6. CommandsTypes'
    BY <1>0, <2>3, <2>4, <2>5 DEF CommandsInv, CommandsTypes, CommandsTypeOK, lifeVars,
       sidecarVars, actorVars
  <2>7. OneAnswer' /\ AnswersSent' /\ LifeAgrees'
    BY <1>0, <2>4 DEF CommandsInv, OneAnswer, AnswersSent, LifeAgrees, lifeVars, sidecarVars,
       actorVars
  <2>8. /\ \A m : Queued(m)' <=> Queued(m)
        /\ \A m : ~Handled(m)' /\ ~Handled(m)
        /\ \A m, g : Unanswered(m, g)' <=> Unanswered(m, g)
    BY <1>0, <2>4 DEF Queued, Handled, Unanswered, sidecarVars, actorVars
  <2>9. QueueHolds' /\ HandHolds'
    BY <1>0, <2>8 DEF CommandsInv, QueueHolds, HandHolds, Unanswered, lifeVars, sidecarVars,
       actorVars
  <2>10. LaneHolds'
    <3>1. \A k \in 1..Len(lane') : lane'[k].kind = "approval" => k \in 1..Len(lane) /\ lane'[k] = lane[k]
      BY <2>2, <2>5
    <3>2. \A k \in 1..Len(lane') : lane'[k].kind = "approval" =>
            Unanswered(lane[k].of, lane[k].g)' /\ ~Queued(lane[k].of)' /\ ~Handled(lane[k].of)'
      <4> SUFFICES ASSUME NEW k \in 1..Len(lane'), lane'[k].kind = "approval"
                   PROVE  Unanswered(lane[k].of, lane[k].g)' /\ ~Queued(lane[k].of)' /\ ~Handled(lane[k].of)'
        OBVIOUS
      <4>1. PICK x, g : x = lane'[k].of /\ g = lane'[k].g
        OBVIOUS
      <4>2. Unanswered(x, g) /\ ~Queued(x)
        BY <3>1, <4>1 DEF CommandsInv, LaneHolds
      <4>3. Unanswered(x, g)' /\ ~Queued(x)' /\ ~Handled(x)'
        BY <4>2, <2>8
      <4> QED
        BY <4>1, <4>3 DEF Unanswered, Queued, Handled
    <3> QED
      BY <3>1, <3>2 DEF CommandsInv, LaneHolds
  <2>11. MapHolds'
    <3> SUFFICES ASSUME NEW i \in ApprovalIds, pending[i] # 0
                 PROVE  /\ Unanswered(pending[i], gen)' /\ IdOf(pending'[i]) = i /\ ~Contains(retired', i)
                        /\ ~Queued(pending[i])' /\ ~Handled(pending[i])' /\ ~Signalled(pending[i])'
      BY <1>0 DEF MapHolds, actorVars
    <3>1. PICK x : x = pending[i]
      OBVIOUS
    <3>2. Unanswered(x, gen) /\ IdOf(x) = i /\ ~Contains(retired, i) /\ ~Queued(x) /\ ~Signalled(x)
      BY <3>1 DEF CommandsInv, MapHolds
    <3>3. Unanswered(x, gen)' /\ ~Queued(x)' /\ ~Handled(x)' /\ ~Signalled(x)'
      BY <3>2, <1>0, <2>5, <2>8 DEF Unanswered, lifeVars, sidecarVars, actorVars
    <3> QED
      BY <3>1, <3>2, <3>3, <1>0 DEF Unanswered, Queued, Handled, Signalled, actorVars
  <2>12. NoneForgotten'
    BY <1>0, <2>3, <2>5, <2>8 DEF CommandsInv, NoneForgotten, IsLive, Registered, lifeVars,
       sidecarVars, actorVars
  <2> QED
    BY <2>6, <2>7, <2>9, <2>10, <2>11, <2>12 DEF CommandsInv
<1> QED
  BY <1>1, <1>2

\* A signal that does not register: its request is answered, or is not live.
LEMMA SignalDropped ==
  ASSUME CommandsInv, lane # <<>>, lane' = Tail(lane), actor = "signals",
         UNCHANGED <<lifeVars, sidecarVars, worker, fault, actor, pending, retired>>,
         ack' \in {None, "true", "false"}, replies' \in [Req -> Seq(Replies)],
         NEW n, n = lane[1].of,
         \A m \in Req : m # n => replies'[m] = replies[m],
         replies' = replies \/ (lane[1].kind = "approval" /\ Len(replies'[n]) = 1 /\ replies'[n] # <<>>),
         lane[1].kind = "approval" /\ open /\ lane[1].g = gen => replies'[n] # <<>>
  PROVE  CommandsInv'
<1>1. /\ lane[1] \in Signals /\ 1 \in 1..Len(lane)
      /\ lane' \in Seq(Signals) /\ Len(lane') <= LaneCap
      /\ \A m : Signalled(m) => Signalled(m)' \/ (lane[1].kind = "approval" /\ n = m)
      /\ lane[1].kind = "approval" => ~Signalled(n)'
  BY TailSignals
<1>2. CommandsTypes'
  BY <1>1 DEF CommandsInv, CommandsTypes, CommandsTypeOK, lifeVars, sidecarVars
<1>3. OneAnswer'
  <2>1. \A m \in Req : Len(replies[m]) <= 1
    BY DEF CommandsInv, OneAnswer
  <2>2. \A m \in Req : replies'[m] = replies[m] \/ Len(replies'[m]) = 1
    OBVIOUS
  <2>3. ASSUME NEW m \in Req PROVE Len(replies'[m]) <= 1
    <3>1. CASE replies'[m] = replies[m]
      BY <2>1, <3>1
    <3>2. CASE Len(replies'[m]) = 1
      BY <3>2
    <3> QED
      BY <2>2, <3>1, <3>2
  <2> QED
    BY <2>3 DEF OneAnswer
<1>4. LifeAgrees'
  BY DEF CommandsInv, LifeAgrees, lifeVars, sidecarVars
<1>5. lane[1].kind = "approval" => /\ Unanswered(n, lane[1].g) /\ ~Queued(n) /\ ~Handled(n)
                                   /\ Signalled(n) /\ n \in Req
  BY <1>1, StateShape DEF CommandsInv, LaneHolds, Signalled, Unanswered
<1>6. lane[1].kind = "approval" => ~Registered(n) /\ n # 0
  BY <1>5, CommandsAssumption DEF CommandsInv, MapHolds, Registered, Req
<1>7. AnswersSent'
  BY <1>5 DEF CommandsInv, AnswersSent, Unanswered, sidecarVars
<1>8. QueueHolds' /\ HandHolds' /\ LaneHolds' /\ MapHolds'
  <2>1. \A m \in Req : \/ replies'[m] = replies[m]
                       \/ ~Queued(m)' /\ ~Handled(m)' /\ ~Signalled(m)' /\ ~Registered(m)'
    BY <1>1, <1>5, <1>6 DEF Queued, Handled, Registered, sidecarVars
  <2> QED
    BY <2>1, PlacesLose DEF lifeVars, sidecarVars
<1>9. NoneForgotten'
  <2> SUFFICES ASSUME NEW m \in Req, open', IsLive(m)', replies'[m] = <<>>
               PROVE  Queued(m)' \/ Handled(m)' \/ Signalled(m)' \/ Registered(m)' \/ fault' = gen'
                      \/ actor' = "stopping"
    BY DEF NoneForgotten
  <2>1. open /\ IsLive(m) /\ replies[m] = <<>>
    BY DEF IsLive, lifeVars, sidecarVars
  <2>2. Queued(m) \/ Handled(m) \/ Signalled(m) \/ Registered(m) \/ fault = gen \/ actor = "stopping"
    BY <2>1 DEF CommandsInv, NoneForgotten
  <2>3. Signalled(m) => Signalled(m)'
    <3> SUFFICES ASSUME Signalled(m), ~Signalled(m)' PROVE FALSE
      OBVIOUS
    <3>1. lane[1].kind = "approval" /\ m = n
      BY <1>1
    <3>2. lane[1].g = gen
      BY <1>5, <2>1, <3>1 DEF Unanswered, IsLive
    <3> QED
      BY <2>1, <3>1, <3>2
  <2> QED
    BY <2>2, <2>3 DEF Queued, Handled, Registered, lifeVars, sidecarVars
<1> QED
  BY <1>2, <1>3, <1>4, <1>7, <1>8, <1>9 DEF CommandsInv

\* A signal becomes a pending approval.
LEMMA SignalRegistered ==
  ASSUME CommandsInv, lane # <<>>, lane' = Tail(lane), actor = "signals",
         UNCHANGED <<lifeVars, sidecarVars, worker, fault, actor, retired, replies>>,
         ack' \in {None, "true", "false"},
         NEW n, n = lane[1].of, lane[1].kind = "approval", lane[1].g = gen, gen # 0,
         pending[IdOf(n)] = 0, ~Contains(retired, IdOf(n)),
         pending' = [pending EXCEPT ![IdOf(n)] = n]
  PROVE  CommandsInv'
<1>1. /\ lane[1] \in Signals /\ 1 \in 1..Len(lane)
      /\ lane' \in Seq(Signals) /\ Len(lane') <= LaneCap
      /\ \A m : Signalled(m) => Signalled(m)' \/ n = m
      /\ ~Signalled(n)'
  BY TailSignals
<1>2. Unanswered(n, gen) /\ ~Queued(n) /\ ~Handled(n) /\ Signalled(n) /\ n \in Req
  BY <1>1, StateShape DEF CommandsInv, LaneHolds, Signalled, Unanswered
<1>3. ~Registered(n) /\ n # 0 /\ n \in 0..MaxRequests /\ IdOf(n) \in ApprovalIds
  BY <1>2, CommandsAssumption DEF CommandsInv, MapHolds, Registered, Req
<1>4. /\ pending' \in [ApprovalIds -> 0..MaxRequests] /\ pending'[IdOf(n)] = n
      /\ \A i \in ApprovalIds : i # IdOf(n) => pending'[i] = pending[i]
  BY <1>3, StateShape
<1>5. CommandsTypes'
  BY <1>1, <1>4 DEF CommandsInv, CommandsTypes, CommandsTypeOK, lifeVars, sidecarVars
<1>6. OneAnswer' /\ AnswersSent'
  BY DEF CommandsInv, OneAnswer, AnswersSent, sidecarVars
<1>7. LifeAgrees'
  BY DEF CommandsInv, LifeAgrees, lifeVars, sidecarVars
<1>8. /\ \A m : Queued(m)' <=> Queued(m)
      /\ \A m : Handled(m)' <=> Handled(m)
      /\ \A m, g : Unanswered(m, g)' <=> Unanswered(m, g)
      /\ \A m : Signalled(m)' => Signalled(m)
  <2>1. \A m : Signalled(m)' => Signalled(m)
    BY PlacesShrink DEF sidecarVars
  <2> QED
    BY <2>1 DEF Queued, Handled, Unanswered, sidecarVars
<1>9. QueueHolds' /\ HandHolds' /\ LaneHolds'
  <2>1. QueueHolds' /\ HandHolds'
    BY <1>8 DEF CommandsInv, QueueHolds, HandHolds, Unanswered, lifeVars, sidecarVars
  <2>2. LaneHolds'
    <3>0. lane \in Seq(Signals)
      BY StateShape
    <3>1. /\ \A k \in 1..Len(lane') : k + 1 \in 1..Len(lane) /\ lane'[k] = lane[k + 1]
      BY <3>0, TailPlaces
    <3>2. \A k \in 1..Len(lane') : lane'[k].kind = "approval" =>
            Unanswered(lane[k].of, lane[k].g)' /\ ~Queued(lane[k].of)' /\ ~Handled(lane[k].of)'
      <4> SUFFICES ASSUME NEW k \in 1..Len(lane'), lane'[k].kind = "approval"
                   PROVE  Unanswered(lane[k].of, lane[k].g)' /\ ~Queued(lane[k].of)' /\ ~Handled(lane[k].of)'
        OBVIOUS
      <4>1. PICK x, g : x = lane'[k].of /\ g = lane'[k].g
        OBVIOUS
      <4>2. Unanswered(x, g) /\ ~Queued(x) /\ ~Handled(x)
        BY <3>1, <4>1 DEF CommandsInv, LaneHolds
      <4>3. Unanswered(x, g)' /\ ~Queued(x)' /\ ~Handled(x)'
        BY <4>2, <1>8
      <4> QED
        BY <4>1, <4>3 DEF Unanswered, Queued, Handled
    <3>3. \A j, k \in 1..Len(lane') :
            lane'[j].kind = "approval" /\ lane'[k].kind = "approval" /\ lane'[j].of = lane'[k].of => j = k
      <4> SUFFICES ASSUME NEW j \in 1..Len(lane'), NEW k \in 1..Len(lane'), lane'[j].kind = "approval",
                          lane'[k].kind = "approval", lane'[j].of = lane'[k].of
                   PROVE  j = k
        OBVIOUS
      <4>1. j + 1 = k + 1
        BY <3>1 DEF CommandsInv, LaneHolds
      <4> QED
        BY <4>1
    <3> QED
      BY <3>2, <3>3 DEF LaneHolds
  <2> QED
    BY <2>1, <2>2
<1>10. MapHolds'
  <2> SUFFICES ASSUME NEW i \in ApprovalIds, pending'[i] # 0
               PROVE  /\ Unanswered(pending[i], gen)' /\ IdOf(pending'[i]) = i /\ ~Contains(retired', i)
                      /\ ~Queued(pending[i])' /\ ~Handled(pending[i])' /\ ~Signalled(pending[i])'
    BY DEF MapHolds
  <2>1. PICK x : x = pending'[i]
    OBVIOUS
  <2>2. Unanswered(x, gen) /\ IdOf(x) = i /\ ~Contains(retired, i) /\ ~Queued(x) /\ ~Handled(x) /\ ~Signalled(x)'
    <3>1. CASE i = IdOf(n)
      BY <1>1, <1>2, <1>4, <2>1, <3>1
    <3>2. CASE i # IdOf(n)
      <4>1. x = pending[i]
        BY <1>4, <2>1, <3>2
      <4> QED
        BY <1>8, <2>1, <4>1 DEF CommandsInv, MapHolds
    <3> QED
      BY <3>1, <3>2
  <2>3. Unanswered(x, gen)' /\ ~Queued(x)' /\ ~Handled(x)' /\ ~Signalled(x)'
    BY <2>2, <1>8 DEF Unanswered, lifeVars, sidecarVars
  <2> QED
    BY <2>1, <2>2, <2>3 DEF Unanswered, Queued, Handled, Signalled
<1>11. NoneForgotten'
  <2>1. \A m : Registered(m) \/ m = n => Registered(m)' \/ m = 0
    BY <1>3, <1>4 DEF Registered
  <2>2. \A m \in Req : m # 0
    BY CommandsAssumption DEF Req
  <2> QED
    BY <1>1, <1>8, <2>1, <2>2 DEF CommandsInv, NoneForgotten, IsLive, lifeVars, sidecarVars
<1> QED
  BY <1>5, <1>6, <1>7, <1>9, <1>10, <1>11 DEF CommandsInv

\* The actor registers a signalled approval under its id, or answers it; the end of a
\* turn answers those of that turn.
LEMMA ActorTakesSignalKeepsInv ==
  ASSUME CommandsInv, ActorTakesSignal
  PROVE  CommandsInv'
<1>0. /\ actor = "signals" /\ lane # <<>> /\ lane' = Tail(lane)
      /\ UNCHANGED <<lifeVars, sidecarVars, worker, fault, actor>>
      /\ Head(lane) = lane[1] /\ lane[1] \in Signals /\ 1 \in 1..Len(lane)
      /\ lane' \in Seq(Signals) /\ Len(lane') <= LaneCap
  BY TailSignals DEF ActorTakesSignal
<1>1. PICK n : n = lane[1].of
  OBVIOUS
<1>2. CASE lane[1].kind = "approval" /\ lane[1].g = gen
  <2>1. RegisterApproval(n) /\ UNCHANGED retired
    BY <1>0, <1>1, <1>2 DEF ActorTakesSignal
  <2>2. PICK valid \in BOOLEAN :
          IF open /\ Refusal(n, valid) = None
          THEN /\ pending' = [pending EXCEPT ![IdOf(n)] = n]
               /\ Ack(n, "true")
               /\ UNCHANGED replies
          ELSE Ack(n, "false") /\ Answer(n, Refusal(n, valid)) /\ UNCHANGED pending
    BY <2>1 DEF RegisterApproval
  <2>3. Unanswered(n, gen) /\ n \in Req /\ gen # 0
    <3>1. Unanswered(n, gen) /\ n \in Req
      BY <1>0, <1>1, <1>2, StateShape DEF CommandsInv, LaneHolds, Unanswered
    <3>2. sent[n] \in 1..MaxGen
      <4>1. sent \in Seq(1..MaxGen) /\ n \in 1..Len(sent)
        BY <3>1, StateShape DEF Unanswered
      <4> QED
        BY <4>1, ElementOf
    <3> QED
      BY <3>1, <3>2, CommandsAssumption DEF Unanswered
  <2>4. ack' \in {None, "true", "false"}
    BY <2>2 DEF Ack, CommandsInv, CommandsTypes, CommandsTypeOK
  <2>5. CASE open /\ Refusal(n, valid) = None
    <3>1. pending[IdOf(n)] = 0 /\ ~Contains(retired, IdOf(n))
      BY <2>5 DEF Refusal, None
    <3> QED
      BY <1>0, <1>1, <1>2, <2>1, <2>2, <2>3, <2>4, <2>5, <3>1, SignalRegistered
  <2>6. CASE ~(open /\ Refusal(n, valid) = None)
    <3>1. CASE open
      <4>1. PICK a : a = Refusal(n, valid)
        OBVIOUS
      <4>2. a \in Replies
        BY <2>6, <3>1, <4>1 DEF Refusal, Replies, None
      <4>3. replies' = [replies EXCEPT ![n] = Append(@, a)] /\ UNCHANGED pending
        BY <2>2, <2>6, <3>1, <4>1 DEF Answer
      <4>4. Append(replies[n], a) \in Seq(Replies) /\ Len(Append(replies[n], a)) = 1
            /\ Append(replies[n], a) # <<>>
        BY <2>3, <4>2, FirstAnswer DEF Unanswered
      <4>5. /\ replies' \in [Req -> Seq(Replies)] /\ Len(replies'[n]) = 1 /\ replies'[n] # <<>>
            /\ \A m \in Req : m # n => replies'[m] = replies[m]
        BY <2>3, <4>3, <4>4, StateShape
      <4> QED
        BY <1>0, <1>1, <1>2, <2>1, <2>4, <4>3, <4>5, SignalDropped
    <3>2. CASE ~open
      <4>1. replies' = replies /\ UNCHANGED pending
        BY <2>2, <3>2 DEF Answer
      <4> QED
        BY <1>0, <1>1, <1>2, <2>1, <2>4, <3>2, <4>1, SignalDropped, StateShape
    <3> QED
      BY <3>1, <3>2
  <2> QED
    BY <2>5, <2>6
<1>3. CASE lane[1].kind = "approval" /\ lane[1].g # gen
  <2>1. Ack(n, "false") /\ UNCHANGED <<pending, retired, replies>>
    BY <1>0, <1>1, <1>3 DEF ActorTakesSignal
  <2>2. ack' \in {None, "true", "false"}
    BY <2>1 DEF Ack, CommandsInv, CommandsTypes, CommandsTypeOK
  <2> QED
    BY <1>0, <1>1, <1>3, <2>1, <2>2, SignalDropped, StateShape
<1>4. CASE lane[1].kind = "turn" /\ lane[1].g = gen
  <2>1. PICK ids : ids = {i \in Waiting : TurnOf(pending[i]) = n}
    OBVIOUS
  <2>2. ids \in SUBSET Waiting /\ Retire(ids, "not_found") /\ UNCHANGED ack /\ "not_found" \in Replies
    BY <1>0, <1>1, <1>4, <2>1 DEF ActorTakesSignal, Replies
  <2>3. /\ pending' \in [ApprovalIds -> 0..MaxRequests]
        /\ retired' \in Seq(ApprovalIds) /\ Len(retired') <= MaxRetired
        /\ replies' \in [Req -> Seq(Replies)] /\ OneAnswer'
        /\ \A i \in ApprovalIds : pending'[i] = IF i \in ids THEN 0 ELSE pending[i]
        /\ \A i \in ApprovalIds : Contains(retired', i) => i \in ids \/ Contains(retired, i)
        /\ \A m \in Req : replies'[m] = replies[m] \/ \E i \in ids : pending[i] = m
        /\ \A m \in Req : open /\ (\E i \in ids : pending[i] = m) => replies'[m] # <<>>
    BY <2>2, RetireFacts
  <2>4. CommandsTypes'
    BY <1>0, <2>2, <2>3 DEF CommandsInv, CommandsTypes, CommandsTypeOK, lifeVars, sidecarVars
  <2>5. LifeAgrees'
    BY <1>0, <2>3 DEF CommandsInv, LifeAgrees, lifeVars, sidecarVars
  <2>6. AnswersSent' /\ QueueHolds' /\ HandHolds' /\ LaneHolds' /\ MapHolds'
    BY <1>0, <2>2, <2>3, RetirePlaces DEF lifeVars, sidecarVars
  <2>7. \A m \in Req : replies'[m] = replies[m] \/ replies'[m] # <<>>
    BY <2>2, RetireFacts
  <2>8. NoneForgotten'
    BY <1>0, <1>4, <2>2, <2>3, <2>7, RetireForgetsNone DEF lifeVars, sidecarVars
  <2> QED
    BY <2>3, <2>4, <2>5, <2>6, <2>8 DEF CommandsInv
<1>5. CASE lane[1].kind = "turn" /\ lane[1].g # gen
  <2>1. UNCHANGED <<pending, retired, replies, ack>>
    BY <1>0, <1>5 DEF ActorTakesSignal, actorVars
  <2>2. ack' \in {None, "true", "false"}
    BY <2>1 DEF CommandsInv, CommandsTypes, CommandsTypeOK
  <2> QED
    BY <1>0, <1>1, <1>5, <2>1, <2>2, SignalDropped, StateShape
<1> QED
  BY <1>0, <1>2, <1>3, <1>4, <1>5 DEF Signals

\* respond_approval: expired approvals go first, then the one the user decided.
LEMMA ActorRespondsKeepsInv ==
  ASSUME CommandsInv, NEW wanted \in ApprovalIds, ActorResponds(wanted)
  PROVE  CommandsInv'
<1>0. /\ actor = "command" /\ actor' = "purge"
      /\ UNCHANGED <<lifeVars, sent, ended, overdue, worker, lane, ack, fault>>
  BY DEF ActorResponds
<1>1. PICK live, gone, late :
        /\ live = [i \in ApprovalIds |-> IF i \in Overdue THEN 0 ELSE pending[i]]
        /\ gone = Remember(retired, Overdue)
        /\ late = [m \in Req |-> IF open /\ \E i \in Overdue : pending[i] = m
                                 THEN Append(replies[m], "expired") ELSE replies[m]]
  OBVIOUS
<1>2. \/ /\ gen # 0 /\ live[wanted] # 0 /\ open
         /\ pending' = [live EXCEPT ![wanted] = 0]
         /\ retired' = Remember(gone, {wanted})
         /\ replies' = [late EXCEPT ![live[wanted]] = Append(@, "decision")]
         /\ UNCHANGED <<open, pump, announced>>
      \/ /\ gen # 0 /\ live[wanted] # 0 /\ open
         /\ pending' = live /\ retired' = gone /\ replies' = late
         /\ open' = FALSE /\ announced' = 0
         /\ pump' = [EmptyPump EXCEPT !.ctl = <<[kind |-> "eof", of |-> 0]>>]
      \/ /\ gen # 0 /\ pending' = live /\ retired' = gone /\ replies' = late
         /\ UNCHANGED <<open, pump, announced>>
      \/ gen = 0 /\ UNCHANGED <<pending, retired, replies, open, pump, announced>>
  BY <1>1 DEF ActorResponds
<1>3. Overdue \in SUBSET Waiting /\ IsFiniteSet(Overdue) /\ Overdue \subseteq ApprovalIds
  BY OverdueWaits, WaitingFinite, FS_Subset
<1>4. /\ live \in [ApprovalIds -> 0..MaxRequests]
      /\ \A i \in ApprovalIds : live[i] = IF i \in Overdue THEN 0 ELSE pending[i]
  BY <1>1, StateShape, CommandsAssumption
<1>5. /\ gone \in Seq(ApprovalIds) /\ Len(gone) <= MaxRetired
      /\ \A i : Contains(gone, i) => i \in Overdue \/ Contains(retired, i)
  BY <1>1, <1>3, StateShape, RememberFacts
<1>6. \A m \in Req : /\ late[m] \in Seq(Replies) /\ Len(late[m]) <= 1
                     /\ late[m] = replies[m] \/ (late[m] # <<>> /\ \E i \in Overdue : pending[i] = m)
                     /\ open /\ (\E i \in Overdue : pending[i] = m) => late[m] # <<>>
  <2> SUFFICES ASSUME NEW m \in Req
               PROVE  /\ late[m] \in Seq(Replies) /\ Len(late[m]) <= 1
                      /\ late[m] = replies[m] \/ (late[m] # <<>> /\ \E i \in Overdue : pending[i] = m)
                      /\ open /\ (\E i \in Overdue : pending[i] = m) => late[m] # <<>>
    OBVIOUS
  <2>1. CASE open /\ \E i \in Overdue : pending[i] = m
    <3>1. late[m] = Append(replies[m], "expired")
      BY <1>1, <2>1
    <3>2. replies[m] = <<>>
      BY <1>3, <2>1 DEF CommandsInv, MapHolds, Unanswered, Waiting
    <3>3. late[m] \in Seq(Replies) /\ Len(late[m]) = 1 /\ late[m] # <<>>
      BY <3>1, <3>2, FirstAnswer DEF Replies
    <3> QED
      BY <2>1, <3>3
  <2>2. CASE ~(open /\ \E i \in Overdue : pending[i] = m)
    <3>1. late[m] = replies[m]
      BY <1>1, <2>2
    <3>2. replies[m] \in Seq(Replies) /\ Len(replies[m]) <= 1
      BY StateShape DEF CommandsInv, OneAnswer
    <3> QED
      BY <2>2, <3>1, <3>2
  <2> QED
    BY <2>1, <2>2
<1>7. late \in [Req -> Seq(Replies)]
  BY <1>1, <1>6
<1>8. ASSUME gen # 0, NEW ids \in SUBSET Waiting,
             pending' \in [ApprovalIds -> 0..MaxRequests],
             retired' \in Seq(ApprovalIds), Len(retired') <= MaxRetired,
             replies' \in [Req -> Seq(Replies)], OneAnswer',
             \A i \in ApprovalIds : pending'[i] = IF i \in ids THEN 0 ELSE pending[i],
             \A i \in ApprovalIds : Contains(retired', i) => i \in ids \/ Contains(retired, i),
             \A m \in Req : replies'[m] = replies[m] \/ (replies'[m] # <<>> /\ \E i \in ids : pending[i] = m),
             \A m \in Req : open /\ (\E i \in ids : pending[i] = m) => replies'[m] # <<>>,
             \/ UNCHANGED <<open, pump, announced>>
             \/ open' = FALSE /\ announced' = 0 /\ pump' \in Pumps /\ pump'.req = <<>>
      PROVE  CommandsInv'
  <2>1. announced' \in 0..MaxRequests /\ pump' \in Pumps /\ open' \in BOOLEAN
    <3>1. announced \in 0..MaxRequests /\ 0 \in 0..MaxRequests /\ pump \in Pumps /\ open \in BOOLEAN
      BY CommandsAssumption DEF CommandsInv, CommandsTypes, CommandsTypeOK
    <3> QED
      BY <1>8, <3>1
  <2>2. CommandsTypes'
    BY <1>0, <1>8, <2>1 DEF CommandsInv, CommandsTypes, CommandsTypeOK, lifeVars, ActorAt
  <2>3. LifeAgrees'
    BY <1>0, <1>8 DEF CommandsInv, LifeAgrees, lifeVars
  <2>4. AnswersSent' /\ QueueHolds' /\ HandHolds' /\ LaneHolds' /\ MapHolds'
    BY <1>0, <1>8, RetirePlaces, SMTT(40) DEF lifeVars
  <2>5. NoneForgotten'
    <3>1. (open' => open) /\ (open' => pump'.req = pump.req)
      BY <1>8
    <3>2. \A m \in Req : replies'[m] = replies[m] \/ replies'[m] # <<>>
      BY <1>8
    <3>3. actor # "stopping" /\ fault' = fault /\ sent' = sent /\ gen' = gen /\ lane' = lane
          /\ worker'.pc = worker.pc /\ worker'.ev = worker.ev
      BY <1>0 DEF lifeVars
    <3> QED
      BY <1>8, <3>1, <3>2, <3>3, RetireForgetsNone
  <2> QED
    BY <1>8, <2>2, <2>3, <2>4, <2>5 DEF CommandsInv
<1>9. ASSUME gen # 0, pending' = live, retired' = gone, replies' = late,
             \/ UNCHANGED <<open, pump, announced>>
             \/ open' = FALSE /\ announced' = 0
                /\ pump' = [EmptyPump EXCEPT !.ctl = <<[kind |-> "eof", of |-> 0]>>]
      PROVE  CommandsInv'
  <2>1. OneAnswer'
    BY <1>6, <1>9 DEF OneAnswer
  <2>2. \/ UNCHANGED <<open, pump, announced>>
        \/ open' = FALSE /\ announced' = 0 /\ pump' \in Pumps /\ pump'.req = <<>>
    <3>1. CASE pump' = [EmptyPump EXCEPT !.ctl = <<[kind |-> "eof", of |-> 0]>>]
      <4>1. PICK e : e = [kind |-> "eof", of |-> 0]
        OBVIOUS
      <4>2. e \in CtlEvents
        BY <4>1 DEF CtlEvents
      <4>3. PICK c : c = <<e>>
        OBVIOUS
      <4>4. c \in Seq(CtlEvents)
        BY <4>2, <4>3
      <4>5. pump' = [req |-> <<>>, ctl |-> c, data |-> <<>>]
        BY <3>1, <4>1, <4>3 DEF EmptyPump
      <4>6. pump' \in Pumps /\ pump'.req = <<>>
        BY <4>4, <4>5 DEF Pumps
      <4> QED
        BY <1>9, <4>6
    <3> QED
      BY <1>9, <3>1
  <2> QED
    BY <1>3, <1>4, <1>5, <1>6, <1>7, <1>8, <1>9, <2>1, <2>2
<1>10. ASSUME gen # 0, live[wanted] # 0, open, pending' = [live EXCEPT ![wanted] = 0],
              retired' = Remember(gone, {wanted}),
              replies' = [late EXCEPT ![live[wanted]] = Append(@, "decision")],
              UNCHANGED <<open, pump, announced>>
       PROVE  CommandsInv'
  <2>1. PICK n, ids : n = live[wanted] /\ ids = Overdue \cup {wanted}
    OBVIOUS
  <2>2. n = pending[wanted] /\ n # 0 /\ wanted \notin Overdue /\ ids \in SUBSET Waiting
        /\ wanted \in Waiting /\ n \in Req
    <3>1. n = pending[wanted] /\ n # 0 /\ wanted \notin Overdue
      BY <1>4, <1>10, <2>1
    <3>2. wanted \in Waiting /\ n \in Req
      BY <3>1, StateShape, CommandsAssumption DEF Waiting, Req
    <3> QED
      BY <1>3, <2>1, <3>1, <3>2
  <2>3. /\ pending' \in [ApprovalIds -> 0..MaxRequests]
        /\ \A i \in ApprovalIds : pending'[i] = IF i \in ids THEN 0 ELSE pending[i]
    BY <1>4, <1>10, <2>1, CommandsAssumption
  <2>4. /\ retired' \in Seq(ApprovalIds) /\ Len(retired') <= MaxRetired
        /\ \A i \in ApprovalIds : Contains(retired', i) => i \in ids \/ Contains(retired, i)
    <3>1. IsFiniteSet({wanted}) /\ {wanted} \in SUBSET ApprovalIds
      BY FS_Singleton
    <3>2. /\ retired' \in Seq(ApprovalIds) /\ Len(retired') <= MaxRetired
          /\ \A i : Contains(retired', i) => i \in {wanted} \/ Contains(gone, i)
      BY <1>5, <1>10, <3>1, RememberFacts
    <3> QED
      BY <1>5, <2>1, <3>2
  <2>5. late[n] = replies[n] /\ replies[n] = <<>>
    <3>1. ~\E i \in Overdue : pending[i] = n
      BY <1>3, <2>2, WaitingFinite
    <3>2. replies[n] = <<>>
      BY <2>2 DEF CommandsInv, MapHolds, Unanswered
    <3> QED
      BY <1>6, <2>2, <3>1, <3>2
  <2>6. /\ Append(late[n], "decision") \in Seq(Replies) /\ Len(Append(late[n], "decision")) = 1
        /\ Append(late[n], "decision") # <<>>
    BY <2>2, <2>5, FirstAnswer DEF Replies
  <2>7. /\ replies' \in [Req -> Seq(Replies)] /\ Len(replies'[n]) = 1 /\ replies'[n] # <<>>
        /\ \A m \in Req : m # n => replies'[m] = late[m]
    BY <1>7, <1>10, <2>1, <2>2, <2>6
  <2>8. OneAnswer'
    <3>1. ASSUME NEW m \in Req PROVE Len(replies'[m]) <= 1
      <4>1. CASE m = n
        <5>1. Len(replies'[m]) = 1
          BY <2>7, <4>1
        <5> QED
          BY <5>1
      <4>2. CASE m # n
        BY <1>6, <2>7, <4>2
      <4> QED
        BY <4>1, <4>2
    <3> QED
      BY <3>1 DEF OneAnswer
  <2>9. \A m \in Req : replies'[m] = replies[m] \/ (replies'[m] # <<>> /\ \E i \in ids : pending[i] = m)
    BY <1>6, <2>1, <2>2, <2>7
  <2>10. \A m \in Req : open /\ (\E i \in ids : pending[i] = m) => replies'[m] # <<>>
    BY <1>6, <2>1, <2>2, <2>7
  <2> QED
    BY <1>8, <1>10, <2>2, <2>3, <2>4, <2>7, <2>8, <2>9, <2>10
<1>11. CASE gen = 0 /\ UNCHANGED <<pending, retired, replies, open, pump, announced>>
  <2>1. CommandsTypes'
    BY <1>0, <1>11 DEF CommandsInv, CommandsTypes, CommandsTypeOK, lifeVars, ActorAt
  <2>2. OneAnswer' /\ AnswersSent' /\ LifeAgrees'
    BY <1>0, <1>11 DEF CommandsInv, OneAnswer, AnswersSent, LifeAgrees, lifeVars
  <2>3. QueueHolds' /\ HandHolds' /\ LaneHolds' /\ MapHolds'
    BY <1>0, <1>11, PlacesLose, StateShape DEF lifeVars
  <2>4. NoneForgotten'
    BY <1>0, <1>11 DEF NoneForgotten, IsLive, lifeVars
  <2> QED
    BY <2>1, <2>2, <2>3, <2>4 DEF CommandsInv
<1> QED
  BY <1>2, <1>9, <1>10, <1>11

\* The invariant holds at the start,
LEMMA CommandsStart == CommandsInit => CommandsInv
<1> SUFFICES ASSUME CommandsInit PROVE CommandsInv
  OBVIOUS
<1>1. pump \in Pumps /\ pump.req = <<>>
  BY DEF CommandsInit, EmptyPump, Pumps
<1>2. worker \in Workers /\ worker.pc = "done"
  <2>1. NoEvent \in WorkerEvents /\ 0 \in 0..MaxGen
    BY CommandsAssumption DEF NoEvent, None, WorkerEvents
  <2> QED
    BY <2>1 DEF CommandsInit, NoWorker, Workers
<1>3. CommandsTypeOK
  <2>1. /\ gen \in 0..MaxGen /\ nextGen \in 1..(MaxGen + 1) /\ current \in 0..MaxGen /\ fault \in 0..MaxGen
        /\ announced \in 0..MaxRequests /\ replayed \in 0..ReplaySteps
    BY CommandsAssumption DEF CommandsInit
  <2>3. Len(lane) <= LaneCap /\ Len(retired) <= MaxRetired
    BY CommandsAssumption DEF CommandsInit
  <2>4. pending \in [ApprovalIds -> 0..MaxRequests]
    BY CommandsAssumption DEF CommandsInit
  <2>2. open \in BOOLEAN /\ ended \subseteq Turns /\ overdue \subseteq Req
    BY DEF CommandsInit
  <2>5. sent \in Seq(1..MaxGen)
    BY DEF CommandsInit
  <2>6. ack \in {None, "true", "false"} /\ actor \in ActorAt /\ worker.pc \in {"poll", "handle", "await", "done"}
    BY <1>2 DEF CommandsInit, ActorAt
  <2> QED
    BY <2>1, <2>2, <2>3, <2>4, <2>5, <2>6 DEF CommandsTypeOK
<1>4. CommandsTypes
  <2>1. Len(sent) <= MaxRequests
    BY CommandsAssumption DEF CommandsInit
  <2> QED
    BY <1>1, <1>2, <1>3, <2>1 DEF CommandsInit, CommandsTypes
<1>5. OneAnswer /\ AnswersSent
  BY DEF CommandsInit, OneAnswer, AnswersSent
<1>6. LifeAgrees
  BY <1>1, <1>2 DEF CommandsInit, LifeAgrees
<1>7. QueueHolds /\ HandHolds /\ LaneHolds /\ MapHolds /\ NoneForgotten
  BY <1>1, <1>2 DEF CommandsInit, QueueHolds, HandHolds, LaneHolds, MapHolds, NoneForgotten,
     IsLive, Handled
<1> QED
  BY <1>4, <1>5, <1>6, <1>7 DEF CommandsInv

\* A stuttering step.
LEMMA CommandsStutterKeepsInv ==
  ASSUME CommandsInv, UNCHANGED commandsVars
  PROVE  CommandsInv'
<1>1. CommandsTypes'
  BY DEF CommandsInv, CommandsTypes, CommandsTypeOK, commandsVars
<1>2. OneAnswer' /\ AnswersSent' /\ LifeAgrees'
  BY DEF CommandsInv, OneAnswer, AnswersSent, LifeAgrees, commandsVars
<1>3. QueueHolds' /\ HandHolds' /\ LaneHolds' /\ MapHolds'
  BY PlacesLose, StateShape DEF commandsVars
<1>4. NoneForgotten'
  BY DEF CommandsInv, NoneForgotten, IsLive, Queued, Handled, Signalled, Registered, commandsVars
<1> QED
  BY <1>1, <1>2, <1>3, <1>4 DEF CommandsInv

\* is kept by every step,
LEMMA CommandsStep == CommandsInv /\ [CommandsNext]_commandsVars => CommandsInv'
<1> SUFFICES ASSUME CommandsInv, [CommandsNext]_commandsVars PROVE CommandsInv'
  OBVIOUS
<1>1. CASE Worker
  BY <1>1, WorkerPollKeepsInv, WorkerStaleKeepsInv, WorkerShowsKeepsInv, WorkerForwardsKeepsInv,
     WorkerEndsTurnKeepsInv, WorkerSeesEndKeepsInv, WorkerAckedKeepsInv,
     WorkerGivesUpKeepsInv DEF Worker
<1>2. CASE Actor
  BY <1>2, ActorPurgesKeepsInv, ActorTakesSignalKeepsInv, ActorLaneEmptyKeepsInv,
     ActorFaultKeepsInv,
     SessionStoppedKeepsInv, ActorStoppedKeepsInv, ActorRespondsKeepsInv, ActorCallsKeepsInv,
     ActorCallEndsKeepsInv, NestedHandlerKeepsInv, ActorStopsKeepsInv, ActorStartsKeepsInv,
     ReplayStepKeepsInv, ReplayFailsKeepsInv, StartedKeepsInv, ActorIdlesKeepsInv DEF Actor
<1>3. CASE Environment
  BY <1>3, AnnounceKeepsInv, SendRequestKeepsInv, SessionDiesKeepsInv, EndTurnKeepsInv,
     ApprovalExpiresKeepsInv DEF Environment
<1>4. CASE UNCHANGED commandsVars
  BY <1>4, CommandsStutterKeepsInv
<1> QED
  BY <1>1, <1>2, <1>3, <1>4 DEF CommandsNext

\* and so in every reachable state.
LEMMA CommandsInvariant == CommandsSpec => []CommandsInv
  BY CommandsStart, CommandsStep, PTL DEF CommandsSpec

\* For any approvals, requests, turns, generations and limits, and any
\* interleaving of the sidecar, the event worker, the actor, the clock and the
\* user: no request is answered twice, none the worker took is forgotten while
\* its session is served, and no approval waits under a tombstone or for a
\* generation that is gone (bridge.rs, register_approval_request,
\* respond_approval, retire_approval, event_drain_loop).
THEOREM ApprovalsNeverDisagree == CommandsSpec => []ApprovalsAgree
<1>1. CommandsInv => ApprovalsAgree
  <2> SUFFICES ASSUME CommandsInv PROVE ApprovalsAgree
    OBVIOUS
  <2>1. CommandsTypeOK /\ OneAnswer
    BY DEF CommandsInv, CommandsTypes
  <2>2. \A n \in Req : Handled(n) => worker.ev = [kind |-> "request", of |-> n]
    BY StateShape DEF Handled, WorkerEvents, CtlEvents, None
  <2>3. RequestNotForgotten
    <3>1. DOMAIN sent \subseteq Req /\ DOMAIN lane = 1..Len(lane)
      BY StateShape
    <3>2. \A n \in DOMAIN sent : Queued(n) => Contains(pump.req, n)
      BY DEF Queued, Contains
    <3>3. \A n \in DOMAIN sent : Signalled(n) => \E k \in DOMAIN lane : lane[k].kind = "approval" /\ lane[k].of = n
      BY <3>1 DEF Signalled
    <3> QED
      BY <2>2, <3>1, <3>2, <3>3 DEF CommandsInv, NoneForgotten, RequestNotForgotten, Registered
  <2>4. PendingIsFresh
    <3>1. \A i \in ApprovalIds : pending[i] # 0 => gen # 0
      BY DEF CommandsInv, LifeAgrees
    <3> QED
      BY <3>1 DEF CommandsInv, MapHolds, PendingIsFresh, Unanswered
  <2> QED
    BY <2>1, <2>3, <2>4 DEF ApprovalsAgree
<1> QED
  BY <1>1, CommandsInvariant, PTL

=============================================================================
