----------------------- MODULE PendingRequestsProofs -----------------------
(***************************************************************************)
(* For every number of calls and every limit: the types of PendingRequests, *)
(* that closing the session strands no waiter and admits no call after it,  *)
(* and that the registry, its counters and the callers agree.               *)
(***************************************************************************)
EXTENDS PendingRequests, FiniteSetTheorems, SequenceTheorems, TLAPS

Tombstone == [id : Ids, terminal : Terminal]

\* Keeping the newest elements of a sequence keeps its element type.
LEMMA NewestType ==
  ASSUME NEW S, NEW s \in Seq(S), NEW n \in Nat
  PROVE  Newest(s, n) \in Seq(S)
<1>1. CASE Len(s) <= n
  BY <1>1 DEF Newest
<1>2. CASE ~(Len(s) <= n)
  <2>1. Len(s) \in Nat /\ Len(s) - n + 1 \in Int /\ \A i \in (Len(s) - n + 1)..Len(s) : s[i] \in S
    BY <1>2
  <2>2. SubSeq(s, Len(s) - n + 1, Len(s)) \in Seq(S)
    BY <2>1, SubSeqProperties
  <2> QED
    BY <2>2, <1>2 DEF Newest
<1> QED
  BY <1>1, <1>2

\* remember() keeps the tombstone queue well typed.
LEMMA RememberedType ==
  ASSUME NEW S \in SUBSET Ids, NEW order \in Orders(S), NEW t \in Terminal,
         tombstones \in Seq(Tombstone)
  PROVE  Remembered(order, t) \in Seq(Tombstone)
<1> DEFINE added == [i \in DOMAIN order |-> [id |-> order[i], terminal |-> t]]
<1>0. IsFiniteSet(1..MaxLedger)
  <2>1. 1 \in Int /\ MaxLedger \in Int
    BY LimitsAssumption
  <2> QED
    BY <2>1, FS_Interval
<1>1. IsFiniteSet(S)
  BY <1>0, FS_Subset DEF Ids
<1>2. Cardinality(S) \in Nat
  BY <1>1, FS_CardinalityType
<1>3. order \in [1..Cardinality(S) -> S]
  BY DEF Orders
<1>4. added \in [1..Cardinality(S) -> Tombstone]
  BY <1>3 DEF Tombstone
<1>5. added \in Seq(Tombstone)
  BY <1>4, <1>2
<1>6. tombstones \o added \in Seq(Tombstone)
  BY <1>5
<1> QED
  BY <1>6, NewestType, LimitsAssumption DEF Remembered

\* What removing entries does to the registry, whoever asks for it.
LEMMA FinishType ==
  ASSUME TypeOK, NEW S \in SUBSET Ids, NEW o \in Outcome, NEW t \in Terminal,
         Finish(S, o, t)
  PROVE  /\ active' \in SUBSET Ids
         /\ chan' \in [Ids -> Outcome \cup {"none"}]
         /\ tombstones' \in Seq(Tombstone)
<1>1. tombstones \in Seq(Tombstone)
  BY DEF TypeOK, Tombstone
<1>2. PICK order \in Orders(S) : tombstones' = Remembered(order, t)
  BY DEF Finish
<1>3. tombstones' \in Seq(Tombstone)
  BY <1>1, <1>2, RememberedType
<1> QED
  BY <1>3 DEF Finish, TypeOK

-----------------------------------------------------------------------------
IInv == TypeOK /\ WaiterServed

\* The initial state: nobody has an id, the registry is empty.
LEMMA InitIInv == Init => IInv
<1> SUFFICES ASSUME Init PROVE IInv
  OBVIOUS
<1>1. next \in 1..(MaxLedger + 1)
  BY LimitsAssumption DEF Init
<1>2. tombstones \in Seq([id : Ids, terminal : Terminal])
  BY DEF Init
<1>3. /\ pc \in [Calls -> Labels]
      /\ idOf \in [Calls -> Ids \cup {0}]
      /\ result \in [Calls -> Result]
  BY DEF Init, Labels, Result
<1>4. /\ chan \in [Ids -> Outcome \cup {"none"}]
      /\ answers \in [Ids \cup {StrayId} -> Nat]
      /\ wire \in [Ids \cup {StrayId} -> Nat]
  BY DEF Init
<1>5. TypeOK
  BY <1>1, <1>2, <1>3, <1>4 DEF Init, TypeOK
<1>6. WaiterServed
  BY DEF Init, WaiterServed, HasId
<1> QED
  BY <1>5, <1>6 DEF IInv

\* Removing entries tells their waiters, so every other conjunct about channels
\* and entries survives.
LEMMA FinishServes ==
  ASSUME IInv, NEW S \in SUBSET Ids, NEW o \in Outcome, NEW t \in Terminal,
         Finish(S, o, t)
  PROVE  /\ \A id \in Ids : id \in active \/ chan[id] # "none" =>
                            id \in active' \/ chan'[id] # "none"
         /\ \A id \in Ids : chan[id] # "none" => chan'[id] # "none"
  BY DEF Finish, IInv, TypeOK, Outcome

\* Steps of request_inner that leave the registry and the close alone.
LEMMA PlainCallStep ==
  ASSUME IInv, NEW c \in Calls,
         \/ Admit(c) \/ CheckOpen(c) \/ SendCheck(c) \/ Enqueue(c) \/ Receive(c)
         \/ TimeOut(c) \/ PollClosed(c)
  PROVE  IInv'
<1> USE DEF IInv, Return, Goto, RegistryUnchanged, HasId
<1>1. CASE Admit(c)
  <2>1. TypeOK'
    BY <1>1 DEF Admit, HoldGate, TypeOK, Labels, Result
  <2>2. WaiterServed'
    BY <1>1 DEF Admit, HoldGate, TypeOK, WaiterServed
  <2> QED
    BY <2>1, <2>2
<1>2. CASE CheckOpen(c)
  <2>1. TypeOK'
    BY <1>2 DEF CheckOpen, TypeOK, Labels, Result, Outcome
  <2>2. WaiterServed'
    BY <1>2 DEF CheckOpen, TypeOK, WaiterServed
  <2> QED
    BY <2>1, <2>2
<1>3. CASE SendCheck(c)
  <2>1. TypeOK'
    BY <1>3 DEF SendCheck, SendRefused, TypeOK, Labels, Result, Outcome
  <2>2. WaiterServed'
    BY <1>3 DEF SendCheck, SendRefused, TypeOK, WaiterServed, Closed
  <2> QED
    BY <2>1, <2>2
<1>4. CASE Enqueue(c)
  <2>1. idOf[c] \in Ids
    BY <1>4 DEF Enqueue, WaiterServed
  <2>2. TypeOK'
    BY <1>4, <2>1 DEF Enqueue, TypeOK, Labels, Result
  <2>3. WaiterServed'
    BY <1>4 DEF Enqueue, TypeOK, WaiterServed
  <2> QED
    BY <2>2, <2>3
<1>5. CASE Receive(c)
  <2>1. chan[idOf[c]] \in Result
    BY <1>5 DEF Receive, TypeOK, WaiterServed, Result
  <2>2. TypeOK'
    BY <1>5, <2>1 DEF Receive, TypeOK, Labels
  <2>3. WaiterServed'
    BY <1>5 DEF Receive, TypeOK, WaiterServed
  <2> QED
    BY <2>2, <2>3
<1>6. CASE TimeOut(c)
  <2>1. TypeOK'
    BY <1>6 DEF TimeOut, TypeOK, Labels
  <2>2. WaiterServed'
    BY <1>6 DEF TimeOut, TypeOK, WaiterServed
  <2> QED
    BY <2>1, <2>2
<1>7. CASE PollClosed(c)
  <2>1. TypeOK'
    BY <1>7 DEF PollClosed, TypeOK, Labels, Result, Outcome
  <2>2. WaiterServed'
    BY <1>7 DEF PollClosed, TypeOK, WaiterServed
  <2> QED
    BY <2>1, <2>2
<1> QED
  BY <1>1, <1>2, <1>3, <1>4, <1>5, <1>6, <1>7

\* Allocating an id and registering it.
LEMMA RegisterStep ==
  ASSUME IInv, NEW c \in Calls, Allocate(c) \/ Register(c)
  PROVE  IInv'
<1> USE DEF IInv, Return, Goto, RegistryUnchanged, HasId
<1>1. CASE Allocate(c)
  <2>1. next <= MaxLedger => next \in Ids /\ next + 1 \in 1..(MaxLedger + 1)
    BY LimitsAssumption DEF TypeOK, Ids
  <2>2. next > MaxLedger \/ next <= MaxLedger
    BY LimitsAssumption DEF TypeOK
  <2>3. TypeOK'
    BY <1>1, <2>1, <2>2 DEF Allocate, LedgerFull, TypeOK, Labels
  <2>4. WaiterServed'
    BY <1>1, <2>1, <2>2 DEF Allocate, LedgerFull, TypeOK, WaiterServed
  <2> QED
    BY <2>3, <2>4
<1>2. CASE Register(c)
  <2>1. idOf[c] \in Ids
    BY <1>2 DEF Register, WaiterServed
  <2>2. CASE Return(c, "Encode") \/ Return(c, "RegisterRefused")
    <3>1. active' = active /\ chan' = chan /\ tombstones' = tombstones
      BY <1>2, <2>2 DEF Register, TypeOK
    <3>2. TypeOK'
      BY <1>2, <2>2, <3>1 DEF Register, TypeOK, Labels, Result
    <3>3. WaiterServed'
      BY <1>2, <2>2, <3>1 DEF Register, TypeOK, WaiterServed
    <3> QED
      BY <3>2, <3>3
  <2>3. CASE /\ active' = active \cup {idOf[c]}
             /\ Goto(c, "send")
             /\ UNCHANGED <<chan, tombstones, result, gate>>
    <3>1. TypeOK'
      BY <1>2, <2>1, <2>3 DEF Register, TypeOK, Labels
    <3>2. WaiterServed'
      BY <1>2, <2>1, <2>3 DEF Register, TypeOK, WaiterServed
    <3> QED
      BY <3>1, <3>2
  <2> QED
    BY <1>2, <2>2, <2>3 DEF Register
<1> QED
  BY <1>1, <1>2

\* Steps of request_inner that remove entries or close the session.
LEMMA FinishingCallStep ==
  ASSUME IInv, NEW c \in Calls, Cancel(c) \/ Expire(c) \/ CallFailClosed(c)
  PROVE  IInv'
<1> USE DEF IInv, Return, Goto, HasId
<1>1. CASE Cancel(c)
  <2>1. idOf[c] \in Ids
    BY <1>1 DEF Cancel, WaiterServed
  <2>2. CASE Finish({idOf[c]}, "Cancelled", "Cancelled")
    <3>1. {idOf[c]} \in SUBSET Ids /\ "Cancelled" \in Outcome /\ "Cancelled" \in Terminal
      BY <2>1 DEF Outcome, Terminal
    <3>2. /\ active' \in SUBSET Ids
          /\ chan' \in [Ids -> Outcome \cup {"none"}]
          /\ tombstones' \in Seq(Tombstone)
      BY <2>2, <3>1, FinishType
    <3>3. TypeOK'
      BY <1>1, <3>2 DEF Cancel, TypeOK, Labels, Tombstone
    <3>4. WaiterServed'
      BY <1>1, <2>2, <3>1, FinishServes DEF Cancel, TypeOK, WaiterServed
    <3> QED
      BY <3>3, <3>4
  <2>3. CASE RegistryUnchanged
    <3>1. TypeOK'
      BY <1>1, <2>3 DEF Cancel, TypeOK, Labels, RegistryUnchanged
    <3>2. WaiterServed'
      BY <1>1, <2>3 DEF Cancel, TypeOK, WaiterServed, RegistryUnchanged
    <3> QED
      BY <3>1, <3>2
  <2> QED
    BY <1>1, <2>2, <2>3 DEF Cancel, CancelEntry
<1>2. CASE Expire(c)
  <2>1. /\ active \cap due \in SUBSET Ids
        /\ "DeadlineExceeded" \in Outcome /\ "TimedOut" \in Terminal
    BY DEF TypeOK, Outcome, Terminal
  <2>2. Finish(active \cap due, "DeadlineExceeded", "TimedOut")
    BY <1>2 DEF Expire
  <2>3. /\ active' \in SUBSET Ids
        /\ chan' \in [Ids -> Outcome \cup {"none"}]
        /\ tombstones' \in Seq(Tombstone)
    BY <2>1, <2>2, FinishType
  <2>4. TypeOK'
    BY <1>2, <2>3 DEF Expire, TypeOK, Labels, Tombstone, Result, Outcome
  <2>5. WaiterServed'
    BY <1>2, <2>1, <2>2, FinishServes DEF Expire, TypeOK, WaiterServed
  <2> QED
    BY <2>4, <2>5
<1>3. CASE CallFailClosed(c)
  <2>1. TypeOK'
    BY <1>3 DEF CallFailClosed, TypeOK, Labels, Result, RegistryUnchanged
  <2>2. WaiterServed'
    BY <1>3 DEF CallFailClosed, TypeOK, WaiterServed, RegistryUnchanged
  <2> QED
    BY <2>1, <2>2
<1> QED
  BY <1>1, <1>2, <1>3

\* The close, the reader, the clock, the supervisor and the sidecar.
LEMMA EnvironmentStep ==
  ASSUME IInv,
         \/ \E id \in Ids : DeadlinePasses(id)
         \/ \E id \in Ids \cup {StrayId} : SidecarAnswers(id) \/ ReaderDispatch(id)
         \/ CloseElsewhere \/ FinishClose \/ BeginShutdown
         \/ ReaderCheck \/ ReaderEof \/ ReaderFailClosed
  PROVE  IInv'
<1> USE DEF IInv, HasId
<1>1. CASE \E id \in Ids : DeadlinePasses(id)
  <2>1. TypeOK'
    BY <1>1 DEF DeadlinePasses, TypeOK, RegistryUnchanged
  <2>2. WaiterServed'
    BY <1>1 DEF DeadlinePasses, WaiterServed, RegistryUnchanged
  <2> QED
    BY <2>1, <2>2
<1>2. ASSUME NEW id \in Ids \cup {StrayId}, SidecarAnswers(id)
      PROVE  IInv'
  <2>1. TypeOK'
    BY <1>2 DEF SidecarAnswers, TypeOK, RegistryUnchanged
  <2>2. WaiterServed'
    BY <1>2 DEF SidecarAnswers, WaiterServed, RegistryUnchanged
  <2> QED
    BY <2>1, <2>2
<1>3. ASSUME NEW id \in Ids \cup {StrayId}, ReaderDispatch(id)
      PROVE  IInv'
  <2>1. wire' \in [Ids \cup {StrayId} -> Nat]
    BY <1>3 DEF ReaderDispatch, TypeOK
  <2>2. CASE id \in active
    <3>1. {id} \in SUBSET Ids /\ "ok" \in Outcome /\ "Resolved" \in Terminal
      BY <2>2 DEF TypeOK, Outcome, Terminal
    <3>2. Finish({id}, "ok", "Resolved")
      BY <1>3, <2>2 DEF ReaderDispatch
    <3>3. /\ active' \in SUBSET Ids
          /\ chan' \in [Ids -> Outcome \cup {"none"}]
          /\ tombstones' \in Seq(Tombstone)
      BY <3>1, <3>2, FinishType
    <3>4. TypeOK'
      BY <1>3, <2>1, <2>2, <3>3 DEF ReaderDispatch, TypeOK, Tombstone
    <3>5. WaiterServed'
      BY <1>3, <3>1, <3>2, FinishServes DEF ReaderDispatch, TypeOK, WaiterServed
    <3> QED
      BY <3>4, <3>5
  <2>3. CASE id \notin active
    <3>1. TypeOK'
      BY <1>3, <2>1, <2>3 DEF ReaderDispatch, TypeOK, RegistryUnchanged
    <3>2. WaiterServed'
      BY <1>3, <2>3 DEF ReaderDispatch, WaiterServed, RegistryUnchanged
    <3> QED
      BY <3>1, <3>2
  <2> QED
    BY <2>2, <2>3
<1>4. CASE FinishClose
  <2>1. active \in SUBSET Ids /\ "SessionClosed" \in Outcome /\ "Cancelled" \in Terminal
    BY DEF TypeOK, Outcome, Terminal
  <2>2. Finish(active, "SessionClosed", "Cancelled")
    BY <1>4 DEF FinishClose
  <2>3. /\ active' \in SUBSET Ids
        /\ chan' \in [Ids -> Outcome \cup {"none"}]
        /\ tombstones' \in Seq(Tombstone)
    BY <2>1, <2>2, FinishType
  <2>4. TypeOK'
    BY <1>4, <2>3 DEF FinishClose, TypeOK, Tombstone
  <2>5. \A id \in Ids : id \in active \/ chan[id] # "none" => chan'[id] # "none"
    BY <2>2 DEF Finish, TypeOK
  <2>6. WaiterServed'
    BY <1>4, <2>5 DEF FinishClose, TypeOK, WaiterServed
  <2> QED
    BY <2>4, <2>6
<1>5. CASE CloseElsewhere \/ BeginShutdown \/ ReaderCheck \/ ReaderEof \/ ReaderFailClosed
  <2> USE DEF CloseElsewhere, BeginShutdown, ReaderCheck, ReaderEof, ReaderFailClosed,
              RegistryUnchanged
  <2>1. TypeOK'
    BY <1>5 DEF TypeOK
  <2>2. WaiterServed'
    BY <1>5 DEF WaiterServed
  <2> QED
    BY <2>1, <2>2
<1> QED
  BY <1>1, <1>2, <1>3, <1>4, <1>5

\* Stuttering changes nothing the invariant mentions.
LEMMA StutterStep == ASSUME IInv, UNCHANGED vars PROVE IInv'
<1>1. TypeOK'
  BY DEF IInv, TypeOK, vars
<1>2. WaiterServed'
  BY DEF IInv, WaiterServed, vars
<1> QED
  BY <1>1, <1>2 DEF IInv

\* The inductive invariant holds of every reachable state.
THEOREM InductiveInvariant == Spec => []IInv
<1>1. Init => IInv
  BY InitIInv
<1>2. IInv /\ [Next]_vars => IInv'
  <2> SUFFICES ASSUME IInv, [Next]_vars PROVE IInv'
    OBVIOUS
  <2>1. ASSUME NEW c \in Calls, CallStep(c) PROVE IInv'
    BY <2>1, PlainCallStep, RegisterStep, FinishingCallStep DEF CallStep
  <2>2. CASE UNCHANGED vars
    BY <2>2, StutterStep
  <2> QED
    BY <2>1, <2>2, EnvironmentStep DEF Next
<1> QED
  BY <1>1, <1>2, PTL DEF Spec

\* TypeOK: every variable of the request machinery keeps its type.
THEOREM TypeCorrect == Spec => []TypeOK
<1>1. IInv => TypeOK
  BY DEF IInv
<1> QED
  BY <1>1, InductiveInvariant, PTL

\* NoStrandedWaiter: closing a session (fail_closed_with_reason) leaves no
\* request_inner caller waiting on a channel that nobody will write.
THEOREM CloseStrandsNobody == Spec => []NoStrandedWaiter
<1>1. IInv => NoStrandedWaiter
  BY DEF IInv, WaiterServed, NoStrandedWaiter
<1> QED
  BY <1>1, InductiveInvariant, PTL

-----------------------------------------------------------------------------
(* The admission gate.                                                     *)

UnderGate == {"admitted", "allocate", "exhausted", "register", "send", "enqueue",
              "failclosed", "cancel"}

\* A gated call keeps the admission mutex from the test of the stopping flag until
\* its frame is queued or it returns, so the flag is still down when it is queued.
GateInv == \A c \in Gated : pc[c] \in UnderGate => gate = c /\ ~stopping

\* Every step of a call keeps the gate's meaning.
LEMMA GateCallStep ==
  ASSUME TypeOK, GateInv, NEW c \in Calls, CallStep(c)
  PROVE  GateInv'
<1> SUFFICES ASSUME NEW d \in Gated, pc'[d] \in UnderGate
             PROVE  gate' = d /\ ~stopping'
  BY DEF GateInv
<1>1. d \in Calls /\ d # NoCall /\ c # NoCall
  BY CallsAssumption
<1>2. stopping' = stopping
  BY DEF CallStep, Admit, CheckOpen, Allocate, Register, SendCheck, Enqueue, Cancel,
         Receive, TimeOut, Expire, PollClosed, CallFailClosed
<1>3. CASE Admit(c)
  BY <1>1, <1>2, <1>3 DEF Admit, HoldGate, Return, Goto, GateInv, TypeOK, UnderGate
<1>4. CASE ~Admit(c)
  <2>1. \/ gate' = gate
        \/ gate' = (IF gate = c THEN NoCall ELSE gate) /\ pc' = [pc EXCEPT ![c] = "done"]
        \/ gate' = (IF gate = c THEN NoCall ELSE gate) /\ pc' = [pc EXCEPT ![c] = "wait"]
    BY <1>4 DEF CallStep, CheckOpen, Allocate, Register, SendCheck, Enqueue, Cancel,
         Receive, TimeOut, Expire, PollClosed, CallFailClosed, Return, Goto
  <2>2. pc[d] \in UnderGate
    <3>1. CASE d # c
      BY <1>1, <1>4, <3>1 DEF CallStep, CheckOpen, Allocate, Register, SendCheck, Enqueue,
         Cancel, Receive, TimeOut, Expire, PollClosed, CallFailClosed, Return, Goto, TypeOK
    <3>2. CASE d = c
      BY <1>1, <1>4, <3>2 DEF CallStep, CheckOpen, Allocate, Register, SendCheck, Enqueue,
         Cancel, Receive, TimeOut, Expire, PollClosed, CallFailClosed, Return, Goto, TypeOK,
         UnderGate
    <3> QED
      BY <3>1, <3>2
  <2>3. gate = d /\ ~stopping
    BY <2>2 DEF GateInv
  <2>4. d = c => gate' = gate
    BY <1>1, <2>1 DEF TypeOK, UnderGate
  <2> QED
    BY <1>2, <2>1, <2>3, <2>4
<1> QED
  BY <1>3, <1>4

\* The supervisor cannot raise the flag while a gated call is inside.
LEMMA GateStep == TypeOK /\ GateInv /\ [Next]_vars => GateInv'
<1> SUFFICES ASSUME TypeOK, GateInv, [Next]_vars PROVE GateInv'
  OBVIOUS
<1>1. ASSUME NEW c \in Calls, CallStep(c) PROVE GateInv'
  BY <1>1, GateCallStep
<1>2. CASE BeginShutdown
  <2>1. \A c \in Gated : c # NoCall
    BY CallsAssumption
  <2> QED
    BY <1>2, <2>1 DEF BeginShutdown, GateInv
<1>3. CASE pc' = pc /\ gate' = gate /\ stopping' = stopping
  BY <1>3 DEF GateInv
<1>4. \/ \E c \in Calls : CallStep(c)
      \/ BeginShutdown
      \/ pc' = pc /\ gate' = gate /\ stopping' = stopping
  BY DEF Next, vars, DeadlinePasses, SidecarAnswers, ReaderDispatch, CloseElsewhere,
         FinishClose, ReaderCheck, ReaderEof, ReaderFailClosed
<1> QED
  BY <1>1, <1>2, <1>3, <1>4

\* NoAdmissionAfterStop: once shutdown_until has raised the stopping flag, no
\* request admitted through request_with_gate reaches the writer queue.
THEOREM ShutdownShutsTheGate == Spec => NoAdmissionAfterStop
<1>1. Init => GateInv
  BY CallsAssumption DEF Init, GateInv, UnderGate
<1>2. Spec => []GateInv
  BY <1>1, GateStep, TypeCorrect, PTL DEF Spec
<1>3. GateInv /\ [Next]_vars =>
        [\A c \in Gated : (pc[c] = "enqueue" /\ pc'[c] = "wait") => ~stopping]_vars
  BY DEF GateInv, UnderGate
<1> QED
  BY <1>2, <1>3, PTL DEF Spec, NoAdmissionAfterStop

-----------------------------------------------------------------------------
(* The registry and its callers.                                           *)

\* Where a call answers for the entry it registered.
Holding == {"send", "enqueue", "failclosed", "cancel", "wait", "expire"}

\* Ids are handed out once.
IdsUnique ==
  /\ \A c \in Calls : idOf[c] < next
  /\ \A c, d \in Calls : idOf[c] = idOf[d] /\ idOf[c] # 0 => c = d
  /\ \A c \in Calls : pc[c] \in {"idle", "admitted", "allocate", "exhausted"} => idOf[c] = 0

\* The registry knows nothing of an id before it is registered, ...
UnusedIsUnknown ==
  /\ \A id \in Ids : id >= next => id \notin active /\ chan[id] = "none"
  /\ \A c \in Calls : pc[c] = "register" => idOf[c] \notin active /\ chan[idOf[c]] = "none"

\* ... an entry is removed when its channel is written, and only then ...
OneCompletion == \A id \in active : chan[id] = "none"

\* ... and a tombstone records what was written.
TombstonesRecord ==
  \A i \in 1..Len(tombstones) :
    /\ chan[tombstones[i].id] # "none"
    /\ chan[tombstones[i].id] = "ok" => tombstones[i].terminal = "Resolved"

\* A caller is answered by its own channel, and gives up only after its deadline.
ResultsAreSent ==
  \A c \in Calls : /\ result[c] = "ok" => idOf[c] \in Ids /\ chan[idOf[c]] = "ok"
                   /\ pc[c] = "expire" => idOf[c] \in due

RegistryInv ==
  /\ IInv
  /\ IdsUnique /\ UnusedIsUnknown /\ OneCompletion /\ TombstonesRecord /\ ResultsAreSent
  /\ NoLeakedEntry

\* Popping the front of a sequence leaves elements of it.
LEMMA NewestElements ==
  ASSUME NEW S, NEW s \in Seq(S), NEW n \in Nat \ {0}
  PROVE  \A i \in 1..Len(Newest(s, n)) : \E j \in 1..Len(s) : Newest(s, n)[i] = s[j]
<1>1. CASE Len(s) <= n
  BY <1>1 DEF Newest
<1>2. CASE ~(Len(s) <= n)
  <2> DEFINE m == Len(s) - n + 1
  <2>1. Len(s) \in Nat /\ m \in 1..Len(s) /\ \A i \in m..Len(s) : s[i] \in S
    BY <1>2
  <2> HIDE DEF m
  <2>2. /\ Len(SubSeq(s, m, Len(s))) = Len(s) - m + 1
        /\ \A i \in 1..(Len(s) - m + 1) : SubSeq(s, m, Len(s))[i] = s[m + i - 1]
    BY <2>1, SubSeqProperties
  <2>3. \A i \in 1..(Len(s) - m + 1) : m + i - 1 \in 1..Len(s)
    BY <2>1
  <2>4. Newest(s, n) = SubSeq(s, m, Len(s))
    BY <1>2 DEF Newest, m
  <2> QED
    BY <2>2, <2>3, <2>4
<1> QED
  BY <1>1, <1>2

\* Every tombstone was there before or belongs to an entry just removed.
LEMMA RememberedElements ==
  ASSUME NEW S \in SUBSET Ids, NEW order \in Orders(S), NEW t \in Terminal,
         tombstones \in Seq(Tombstone)
  PROVE  \A i \in 1..Len(Remembered(order, t)) :
           \/ \E j \in 1..Len(tombstones) : Remembered(order, t)[i] = tombstones[j]
           \/ \E id \in S : Remembered(order, t)[i] = [id |-> id, terminal |-> t]
<1> DEFINE added == [i \in DOMAIN order |-> [id |-> order[i], terminal |-> t]]
           all == tombstones \o added
<1>0. IsFiniteSet(1..MaxLedger)
  <2>1. 1 \in Int /\ MaxLedger \in Int
    BY LimitsAssumption
  <2> QED
    BY <2>1, FS_Interval
<1>1. IsFiniteSet(S)
  BY <1>0, FS_Subset DEF Ids
<1>2. Cardinality(S) \in Nat
  BY <1>1, FS_CardinalityType
<1>3. order \in [1..Cardinality(S) -> S]
  BY DEF Orders
<1>4. added \in [1..Cardinality(S) -> Tombstone]
  BY <1>3 DEF Tombstone
<1>5. added \in Seq(Tombstone) /\ Len(added) = Cardinality(S)
  BY <1>4, <1>2
<1>6. \A k \in 1..Len(added) : order[k] \in S /\ added[k] = [id |-> order[k], terminal |-> t]
  BY <1>3, <1>5
<1> HIDE DEF added
<1>7. all \in Seq(Tombstone)
  BY <1>5
<1>8. \A k \in 1..Len(all) : \/ \E j \in 1..Len(tombstones) : all[k] = tombstones[j]
                             \/ \E j \in 1..Len(added) : all[k] = added[j]
  <2> SUFFICES ASSUME NEW k \in 1..Len(all)
               PROVE  \/ \E j \in 1..Len(tombstones) : all[k] = tombstones[j]
                      \/ \E j \in 1..Len(added) : all[k] = added[j]
    OBVIOUS
  <2>1. CASE k <= Len(tombstones)
    <3>1. all[k] = tombstones[k] /\ k \in 1..Len(tombstones)
      BY <1>5, <2>1
    <3> QED
      BY <3>1
  <2>2. CASE k > Len(tombstones)
    <3>1. all[k] = added[k - Len(tombstones)] /\ k - Len(tombstones) \in 1..Len(added)
      BY <1>5, <2>2
    <3> QED
      BY <3>1
  <2> QED
    BY <2>1, <2>2
<1>9. Remembered(order, t) = Newest(all, MaxTombstones)
  BY DEF Remembered, added
<1> HIDE DEF all
<1>10. \A i \in 1..Len(Newest(all, MaxTombstones)) :
         \E k \in 1..Len(all) : Newest(all, MaxTombstones)[i] = all[k]
  BY <1>7, NewestElements, LimitsAssumption
<1> SUFFICES ASSUME NEW i \in 1..Len(Newest(all, MaxTombstones))
             PROVE  \/ \E j \in 1..Len(tombstones) : Newest(all, MaxTombstones)[i] = tombstones[j]
                    \/ \E id \in S : Newest(all, MaxTombstones)[i] = [id |-> id, terminal |-> t]
  BY <1>9
<1>11. PICK k \in 1..Len(all) : Newest(all, MaxTombstones)[i] = all[k]
  BY <1>10
<1>12. CASE \E j \in 1..Len(tombstones) : all[k] = tombstones[j]
  BY <1>11, <1>12
<1>13. CASE \E j \in 1..Len(added) : all[k] = added[j]
  BY <1>6, <1>11, <1>13
<1> QED
  BY <1>8, <1>12, <1>13

\* Removing entries writes their channels and records it, and touches no other id.
LEMMA FinishRecords ==
  ASSUME RegistryInv, NEW S \in SUBSET active, NEW o \in Outcome, NEW t \in Terminal,
         o = "ok" => t = "Resolved", Finish(S, o, t)
  PROVE  /\ active' = active \ S
         /\ \A id \in Ids : chan'[id] = IF id \in S THEN o ELSE chan[id]
         /\ OneCompletion'
         /\ TombstonesRecord'
<1> USE DEF RegistryInv, IInv
<1>1. S \in SUBSET Ids /\ active \in SUBSET Ids
  BY DEF TypeOK
<1>2. /\ active' = active \ S
      /\ \A id \in Ids : chan'[id] = IF id \in S THEN o ELSE chan[id]
  BY DEF Finish
<1>3. OneCompletion'
  BY <1>1, <1>2 DEF OneCompletion
<1>4. TombstonesRecord'
  <2>1. tombstones \in Seq(Tombstone)
    BY DEF TypeOK, Tombstone
  <2>2. PICK order \in Orders(S) : tombstones' = Remembered(order, t)
    BY DEF Finish
  <2> SUFFICES ASSUME NEW i \in 1..Len(tombstones')
               PROVE  /\ chan'[tombstones'[i].id] # "none"
                      /\ chan'[tombstones'[i].id] = "ok" => tombstones'[i].terminal = "Resolved"
    BY DEF TombstonesRecord
  <2>3. \/ \E j \in 1..Len(tombstones) : tombstones'[i] = tombstones[j]
        \/ \E id \in S : tombstones'[i] = [id |-> id, terminal |-> t]
    BY <1>1, <2>1, <2>2, RememberedElements
  <2>4. ASSUME NEW j \in 1..Len(tombstones), tombstones'[i] = tombstones[j]
        PROVE  /\ chan'[tombstones'[i].id] # "none"
               /\ chan'[tombstones'[i].id] = "ok" => tombstones'[i].terminal = "Resolved"
    <3>0. tombstones[j] \in Tombstone
      BY <2>1
    <3>1. tombstones[j].id \in Ids
      BY <3>0 DEF Tombstone
    <3>2. tombstones[j].id \notin S
      BY DEF TombstonesRecord, OneCompletion
    <3> QED
      BY <1>2, <2>4, <3>1, <3>2 DEF TombstonesRecord
  <2>5. ASSUME NEW id \in S, tombstones'[i] = [id |-> id, terminal |-> t]
        PROVE  /\ chan'[tombstones'[i].id] # "none"
               /\ chan'[tombstones'[i].id] = "ok" => tombstones'[i].terminal = "Resolved"
    BY <1>1, <1>2, <2>5 DEF Outcome
  <2> QED
    BY <2>3, <2>4, <2>5
<1> QED
  BY <1>2, <1>3, <1>4

\* The steps of a call that leave the registry alone.
LEMMA RegistryPlainStep ==
  ASSUME RegistryInv, NEW c \in Calls,
         \/ Admit(c) \/ CheckOpen(c) \/ SendCheck(c) \/ Enqueue(c) \/ Receive(c)
         \/ TimeOut(c) \/ PollClosed(c) \/ CallFailClosed(c)
  PROVE  RegistryInv'
<1> USE DEF RegistryInv
<1>0. IInv'
  BY PlainCallStep, FinishingCallStep
<1>1. /\ UNCHANGED <<active, chan, tombstones, idOf, next, due>>
      /\ pc' = [pc EXCEPT ![c] = pc'[c]]
      /\ result' = [result EXCEPT ![c] = result'[c]]
      /\ closePhase' = closePhase \/ closePhase' = "closing"
  BY DEF Admit, CheckOpen, SendCheck, Enqueue, Receive, TimeOut, PollClosed, CallFailClosed,
         Return, Goto, RegistryUnchanged, IInv, TypeOK
<1>2. \/ pc[c] = "idle" /\ pc'[c] \in {"admitted", "done"}
      \/ pc[c] = "admitted" /\ pc'[c] \in {"allocate", "done"}
      \/ pc[c] = "exhausted" /\ pc'[c] \in {"exhausted", "done"}
      \/ pc[c] \in Holding /\ pc'[c] \in Holding
      \/ /\ pc[c] = "wait" /\ pc'[c] = "done"
         /\ chan[idOf[c]] # "none" \/ (Closed /\ closePhase' = closePhase)
  BY DEF Admit, CheckOpen, SendCheck, Enqueue, Receive, TimeOut, PollClosed, CallFailClosed,
         Return, Goto, IInv, TypeOK, Holding
<1>3. IdsUnique'
  BY <1>1, <1>2 DEF IdsUnique, IInv, TypeOK, Holding
<1>4. UnusedIsUnknown'
  BY <1>1, <1>2 DEF UnusedIsUnknown, IInv, TypeOK, Holding
<1>5. OneCompletion' /\ TombstonesRecord'
  BY <1>1 DEF OneCompletion, TombstonesRecord
<1>6. ResultsAreSent'
  <2>1. result'[c] = "ok" => idOf[c] \in Ids /\ chan[idOf[c]] = "ok"
    BY DEF Admit, CheckOpen, SendCheck, Enqueue, Receive, TimeOut, PollClosed, CallFailClosed,
           Return, ResultsAreSent, IInv, TypeOK, WaiterServed, HasId
  <2>2. pc'[c] = "expire" => idOf[c] \in due
    BY DEF Admit, CheckOpen, SendCheck, Enqueue, Receive, TimeOut, PollClosed, CallFailClosed,
           Return, Goto, ResultsAreSent, IInv, TypeOK
  <2> QED
    BY <1>1, <2>1, <2>2 DEF ResultsAreSent, IInv, TypeOK
<1>7. NoLeakedEntry'
  <2> SUFFICES ASSUME NEW id \in active, closePhase' # "closing"
               PROVE  \E d \in Calls : idOf[d] = id /\ pc'[d] \in Holding
    BY <1>1 DEF NoLeakedEntry, Holding
  <2>1. PICK d \in Calls : idOf[d] = id /\ pc[d] \in Holding
    BY <1>1 DEF NoLeakedEntry, Holding
  <2>2. CASE d # c
    BY <1>1, <2>1, <2>2 DEF IInv, TypeOK
  <2>3. CASE d = c
    <3>1. chan[idOf[c]] = "none"
      BY <2>1, <2>3 DEF OneCompletion
    <3>2. closePhase = "closed" => pc[c] # "wait"
      BY <3>1 DEF IInv, WaiterServed
    <3>3. pc'[c] \in Holding
      BY <1>1, <1>2, <2>1, <2>3, <3>1, <3>2 DEF Holding, Closed, IInv, TypeOK
    <3> QED
      BY <2>1, <2>3, <3>3
  <2> QED
    BY <2>2, <2>3
<1> QED
  BY <1>0, <1>3, <1>4, <1>5, <1>6, <1>7

\* A fresh id is unknown to the registry, and stays so until it is registered.
LEMMA RegistryAllocate ==
  ASSUME RegistryInv, NEW c \in Calls, Allocate(c)
  PROVE  RegistryInv'
<1> USE DEF RegistryInv
<1>0. IInv'
  BY RegisterStep
<1>1. /\ UNCHANGED <<active, chan, tombstones, due, result, closePhase>>
      /\ pc[c] = "allocate" /\ idOf[c] = 0
  BY DEF Allocate, RegistryUnchanged, IdsUnique
<1>2. CASE LedgerFull
  <2>1. pc' = [pc EXCEPT ![c] = "exhausted"] /\ UNCHANGED <<idOf, next>>
    BY <1>2 DEF Allocate, Goto
  <2>2. IdsUnique' /\ UnusedIsUnknown' /\ OneCompletion' /\ TombstonesRecord' /\ ResultsAreSent'
    BY <1>1, <2>1 DEF IdsUnique, UnusedIsUnknown, OneCompletion, TombstonesRecord,
                      ResultsAreSent, IInv, TypeOK
  <2>3. NoLeakedEntry'
    BY <1>1, <2>1 DEF NoLeakedEntry, IInv, TypeOK
  <2> QED
    BY <1>0, <2>2, <2>3
<1>3. CASE ~LedgerFull
  <2>1. /\ pc' = [pc EXCEPT ![c] = "register"]
        /\ idOf' = [idOf EXCEPT ![c] = next] /\ next' = next + 1
    BY <1>3 DEF Allocate, Goto
  <2>2. next \in Ids
    BY <1>3, LimitsAssumption DEF LedgerFull, IInv, TypeOK, Ids
  <2>3. \A d \in Calls : idOf[d] \in Nat /\ idOf[d] < next
    BY LimitsAssumption DEF IdsUnique, IInv, TypeOK, Ids
  <2>4. IdsUnique'
    <3>1. \A d \in Calls : idOf'[d] < next'
      BY <2>1, <2>2, <2>3 DEF IInv, TypeOK, Ids
    <3>2. \A d, e \in Calls : idOf'[d] = idOf'[e] /\ idOf'[d] # 0 => d = e
      BY <2>1, <2>2, <2>3 DEF IdsUnique, IInv, TypeOK, Ids
    <3>3. \A d \in Calls : pc'[d] \in {"idle", "admitted", "allocate", "exhausted"} => idOf'[d] = 0
      BY <2>1 DEF IdsUnique, IInv, TypeOK
    <3> QED
      BY <3>1, <3>2, <3>3 DEF IdsUnique
  <2>5. UnusedIsUnknown'
    <3>1. \A id \in Ids : id >= next + 1 => id >= next
      BY <2>2, LimitsAssumption DEF Ids
    <3>2. next \notin active /\ chan[next] = "none"
      BY <2>2, LimitsAssumption DEF UnusedIsUnknown, Ids
    <3> QED
      BY <1>1, <2>1, <3>1, <3>2 DEF UnusedIsUnknown, IInv, TypeOK
  <2>6. OneCompletion' /\ TombstonesRecord'
    BY <1>1 DEF OneCompletion, TombstonesRecord
  <2>7. ResultsAreSent'
    BY <1>1, <2>1 DEF ResultsAreSent, IInv, TypeOK, Ids
  <2>8. NoLeakedEntry'
    BY <1>1, <2>1 DEF NoLeakedEntry, IInv, TypeOK
  <2> QED
    BY <1>0, <2>4, <2>5, <2>6, <2>7, <2>8
<1> QED
  BY <1>2, <1>3

\* The entry a call adds is its own.
LEMMA RegistryRegister ==
  ASSUME RegistryInv, NEW c \in Calls, Register(c)
  PROVE  RegistryInv'
<1> USE DEF RegistryInv
<1>0. IInv'
  BY RegisterStep
<1>1. /\ UNCHANGED <<chan, tombstones, due, closePhase, idOf, next>>
      /\ pc[c] = "register" /\ idOf[c] \in Ids /\ idOf[c] # 0
      /\ idOf[c] \notin active /\ chan[idOf[c]] = "none"
  BY LimitsAssumption DEF Register, RegistryUnchanged, UnusedIsUnknown, IInv, WaiterServed, HasId, Ids
<1>2. idOf[c] < next
  BY DEF IdsUnique
<1>3. \/ /\ pc' = [pc EXCEPT ![c] = "done"] /\ active' = active
         /\ result' = [result EXCEPT ![c] = "Encode"] \/ result' = [result EXCEPT ![c] = "RegisterRefused"]
      \/ pc' = [pc EXCEPT ![c] = "send"] /\ active' = active \cup {idOf[c]} /\ result' = result
  BY DEF Register, Return, Goto, RegistryUnchanged
<1>4. IdsUnique'
  BY <1>1, <1>3 DEF IdsUnique, IInv, TypeOK
<1>5. UnusedIsUnknown'
  <2>1. \A id \in Ids : id >= next => id # idOf[c]
    BY <1>2, LimitsAssumption DEF IInv, TypeOK, Ids
  <2>2. \A d \in Calls : d # c => idOf[d] # idOf[c]
    BY <1>1 DEF IdsUnique
  <2> QED
    BY <1>1, <1>3, <2>1, <2>2 DEF UnusedIsUnknown, IInv, TypeOK
<1>6. OneCompletion' /\ TombstonesRecord'
  BY <1>1, <1>3 DEF OneCompletion, TombstonesRecord
<1>7. ResultsAreSent'
  BY <1>1, <1>3 DEF ResultsAreSent, IInv, TypeOK
<1>8. NoLeakedEntry'
  <2> SUFFICES ASSUME NEW id \in active', closePhase # "closing"
               PROVE  \E d \in Calls : idOf[d] = id /\ pc'[d] \in Holding
    BY <1>1 DEF NoLeakedEntry, Holding
  <2>1. CASE id \in active
    <3>1. PICK d \in Calls : idOf[d] = id /\ pc[d] \in Holding
      BY <2>1 DEF NoLeakedEntry, Holding
    <3>2. d # c
      BY <1>1, <3>1 DEF Holding
    <3> QED
      BY <1>3, <3>1, <3>2 DEF IInv, TypeOK
  <2>2. CASE id \notin active
    BY <1>3, <2>2 DEF IInv, TypeOK, Holding
  <2> QED
    BY <2>1, <2>2
<1> QED
  BY <1>0, <1>4, <1>5, <1>6, <1>7, <1>8

\* A call that removes entries leaves with its own gone.
LEMMA RegistryFinishingStep ==
  ASSUME RegistryInv, NEW c \in Calls, Cancel(c) \/ Expire(c)
  PROVE  RegistryInv'
<1> USE DEF RegistryInv
<1>0. IInv'
  BY FinishingCallStep
<1>1. idOf[c] \in Ids
  BY DEF Cancel, Expire, IInv, WaiterServed, HasId
<1>2. /\ UNCHANGED <<due, closePhase, idOf, next>>
      /\ pc' = [pc EXCEPT ![c] = "done"]
      /\ result' = result \/ result' = [result EXCEPT ![c] = "DeadlineExceeded"]
  BY DEF Cancel, Expire, Return, Goto, IInv, TypeOK
<1>3. /\ active' \subseteq active /\ idOf[c] \notin active'
      /\ \A id \in Ids : id \notin active => chan'[id] = chan[id]
      /\ OneCompletion' /\ TombstonesRecord'
  <2>1. CASE Cancel(c) /\ idOf[c] \in active
    <3>1. {idOf[c]} \in SUBSET active /\ "Cancelled" \in Outcome /\ "Cancelled" \in Terminal
      BY <2>1 DEF Outcome, Terminal
    <3>2. Finish({idOf[c]}, "Cancelled", "Cancelled")
      BY <2>1 DEF Cancel, CancelEntry
    <3>3. /\ active' = active \ {idOf[c]}
          /\ \A id \in Ids : chan'[id] = IF id \in {idOf[c]} THEN "Cancelled" ELSE chan[id]
          /\ OneCompletion' /\ TombstonesRecord'
      BY <3>1, <3>2, FinishRecords
    <3> QED
      BY <2>1, <3>3
  <2>2. CASE Cancel(c) /\ idOf[c] \notin active
    BY <2>2 DEF Cancel, CancelEntry, RegistryUnchanged, OneCompletion, TombstonesRecord
  <2>3. CASE Expire(c)
    <3>1. /\ active \cap due \in SUBSET active
          /\ "DeadlineExceeded" \in Outcome /\ "TimedOut" \in Terminal
      BY DEF Outcome, Terminal
    <3>2. Finish(active \cap due, "DeadlineExceeded", "TimedOut")
      BY <2>3 DEF Expire
    <3>3. idOf[c] \in due
      BY <2>3 DEF Expire, ResultsAreSent
    <3>4. /\ active' = active \ (active \cap due)
          /\ \A id \in Ids : chan'[id] = IF id \in (active \cap due) THEN "DeadlineExceeded" ELSE chan[id]
          /\ OneCompletion' /\ TombstonesRecord'
      BY <3>1, <3>2, FinishRecords
    <3> QED
      BY <1>1, <3>3, <3>4
  <2> QED
    BY <2>1, <2>2, <2>3
<1>4. IdsUnique'
  BY <1>2 DEF IdsUnique, IInv, TypeOK
<1>5. UnusedIsUnknown'
  BY <1>2, <1>3 DEF UnusedIsUnknown, IInv, TypeOK, WaiterServed, HasId
<1>6. ResultsAreSent'
  <2>1. \A d \in Calls : result[d] = "ok" => chan'[idOf[d]] = "ok"
    BY <1>3 DEF ResultsAreSent, OneCompletion
  <2> QED
    BY <1>2, <2>1 DEF ResultsAreSent, IInv, TypeOK
<1>7. NoLeakedEntry'
  BY <1>2, <1>3 DEF NoLeakedEntry, IInv, TypeOK
<1> QED
  BY <1>0, <1>3, <1>4, <1>5, <1>6, <1>7

\* The close, the reader and the rest of the environment.
LEMMA RegistryEnvironmentStep ==
  ASSUME RegistryInv,
         \/ \E id \in Ids : DeadlinePasses(id)
         \/ \E id \in Ids \cup {StrayId} : SidecarAnswers(id) \/ ReaderDispatch(id)
         \/ CloseElsewhere \/ FinishClose \/ BeginShutdown
         \/ ReaderCheck \/ ReaderEof \/ ReaderFailClosed \/ UNCHANGED vars
  PROVE  RegistryInv'
<1> USE DEF RegistryInv
<1>0. IInv'
  BY EnvironmentStep, StutterStep
<1>1. UNCHANGED <<pc, idOf, result, next>> /\ due \subseteq due'
  BY DEF DeadlinePasses, SidecarAnswers, ReaderDispatch, CloseElsewhere, FinishClose,
         BeginShutdown, ReaderCheck, ReaderEof, ReaderFailClosed, vars
<1>2. /\ active' \subseteq active
      /\ \A id \in Ids : id \notin active => chan'[id] = chan[id]
      /\ OneCompletion' /\ TombstonesRecord'
      /\ closePhase' = closePhase \/ closePhase' = "closing" \/ active' = {}
  <2>1. CASE FinishClose
    <3>1. active \in SUBSET active /\ "SessionClosed" \in Outcome /\ "Cancelled" \in Terminal
      BY DEF Outcome, Terminal
    <3>2. Finish(active, "SessionClosed", "Cancelled")
      BY <2>1 DEF FinishClose
    <3> QED
      BY <3>1, <3>2, FinishRecords
  <2>2. ASSUME NEW id \in Ids \cup {StrayId}, ReaderDispatch(id), id \in active
        PROVE  <1>2!:
    <3>1. {id} \in SUBSET active /\ "ok" \in Outcome /\ "Resolved" \in Terminal
      BY <2>2 DEF Outcome, Terminal
    <3>2. Finish({id}, "ok", "Resolved") /\ closePhase' = closePhase
      BY <2>2 DEF ReaderDispatch
    <3>3. /\ active' = active \ {id}
          /\ \A i \in Ids : chan'[i] = IF i \in {id} THEN "ok" ELSE chan[i]
          /\ OneCompletion' /\ TombstonesRecord'
      BY <3>1, <3>2, FinishRecords
    <3> QED
      BY <2>2, <3>2, <3>3
  <2>3. CASE UNCHANGED <<active, chan, tombstones>> /\ ~FinishClose
    BY <2>3 DEF OneCompletion, TombstonesRecord, DeadlinePasses, SidecarAnswers, ReaderDispatch,
         CloseElsewhere, FinishClose, BeginShutdown, ReaderCheck, ReaderEof, ReaderFailClosed, vars
  <2> QED
    BY <2>1, <2>2, <2>3 DEF DeadlinePasses, SidecarAnswers, ReaderDispatch, CloseElsewhere,
         BeginShutdown, ReaderCheck, ReaderEof, ReaderFailClosed, vars, RegistryUnchanged
<1>3. IdsUnique'
  BY <1>1 DEF IdsUnique
<1>4. UnusedIsUnknown'
  BY <1>1, <1>2 DEF UnusedIsUnknown, IInv, WaiterServed, HasId
<1>5. ResultsAreSent'
  <2>1. \A d \in Calls : result[d] = "ok" => chan'[idOf[d]] = "ok"
    BY <1>2 DEF ResultsAreSent, OneCompletion
  <2> QED
    BY <1>1, <2>1 DEF ResultsAreSent
<1>6. NoLeakedEntry'
  BY <1>1, <1>2 DEF NoLeakedEntry
<1> QED
  BY <1>0, <1>2, <1>3, <1>4, <1>5, <1>6

\* RegistryAgrees: ids, entries, tombstones and callers tell one story, in every
\* order in which answers, deadlines, failed sends and the close can meet.
THEOREM RegistryIsConsistent == Spec => []RegistryAgrees
<1>1. Init => RegistryInv
  <2> SUFFICES ASSUME Init PROVE RegistryInv
    OBVIOUS
  <2>1. IInv
    BY InitIInv
  <2>2. IdsUnique /\ UnusedIsUnknown /\ OneCompletion /\ ResultsAreSent /\ NoLeakedEntry
    BY DEF Init, IdsUnique, UnusedIsUnknown, OneCompletion, ResultsAreSent, NoLeakedEntry
  <2>3. TombstonesRecord
    BY DEF Init, TombstonesRecord
  <2> QED
    BY <2>1, <2>2, <2>3 DEF RegistryInv
<1>2. RegistryInv /\ [Next]_vars => RegistryInv'
  <2> SUFFICES ASSUME RegistryInv, [Next]_vars PROVE RegistryInv'
    OBVIOUS
  <2>1. ASSUME NEW c \in Calls, CallStep(c) PROVE RegistryInv'
    BY <2>1, RegistryPlainStep, RegistryAllocate, RegistryRegister, RegistryFinishingStep
       DEF CallStep
  <2> QED
    BY <2>1, RegistryEnvironmentStep DEF Next
<1>3. RegistryInv => RegistryAgrees
  <2> SUFFICES ASSUME RegistryInv PROVE TombstoneAgrees
    BY DEF RegistryInv, IInv, RegistryAgrees
  <2> QED
    BY DEF RegistryInv, TombstoneAgrees, TombstonesRecord, OneCompletion, ResultsAreSent
<1> QED
  BY <1>1, <1>2, <1>3, PTL DEF Spec

=============================================================================
