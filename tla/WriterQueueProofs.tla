-------------------------- MODULE WriterQueueProofs --------------------------
(***************************************************************************)
(* For any number of senders, any lane capacities and budgets and any      *)
(* burst: the writer actor never sleeps over a queued frame or a close,    *)
(* control frames never hold data back beyond the burst, and the byte      *)
(* budget of a lane is exactly what its frames have been charged.          *)
(***************************************************************************)
EXTENDS WriterQueue, TLAPS, FiniteSetTheorems, NaturalsInduction, WellFoundedInduction

\* The initial state: nothing queued, nobody asleep.
LEMMA InitWInv == Init => WInv
BY BurstAssumption DEF BurstAssumption, Init, WInv, Shape, Wakeups, Bursts, Lanes, SendPc, WriterPc, Pending

\* A lane stays a sequence of frames when one is appended or taken.
LEMMA LaneType ==
  ASSUME queue \in [Lanes -> Seq(Sends)], NEW l \in Lanes
  PROVE  /\ \A s \in Sends : [queue EXCEPT ![l] = Append(@, s)] \in [Lanes -> Seq(Sends)]
         /\ queue[l] # << >> => [queue EXCEPT ![l] = Tail(@)] \in [Lanes -> Seq(Sends)]
<1>1. queue[l] \in Seq(Sends) OBVIOUS
<1>2. \A s \in Sends : Append(queue[l], s) \in Seq(Sends) BY <1>1
<1>3. queue[l] # << >> => Tail(queue[l]) \in Seq(Sends) BY <1>1
<1> QED BY <1>2, <1>3

\* Steps of a sender: only Push fills a lane, and it leaves its caller owing a
\* notification.
LEMMA SendKeepsWInv == ASSUME WInv, NEW s \in Sends, SendStep(s) PROVE WInv'
<1> USE SendsAssumption, BurstAssumption DEF SendsAssumption, BurstAssumption, WInv, wvars, Lanes, Goto
<1>1. CASE Check(s)
  <2>1. Shape' BY <1>1 DEF Check, Shape, SendPc
  <2>2. Wakeups' BY <1>1 DEF Check, Shape, Wakeups, Pending
  <2>3. Bursts' BY <1>1 DEF Check, Bursts
  <2> QED BY <2>1, <2>2, <2>3
<1>2. CASE Reserve(s)
  <2>1. Shape' BY <1>2 DEF Reserve, Shape, SendPc
  <2>2. Wakeups' BY <1>2 DEF Reserve, Shape, Wakeups, Pending
  <2>3. Bursts' BY <1>2 DEF Reserve, Bursts
  <2> QED BY <2>1, <2>2, <2>3
<1>3. CASE Recheck(s)
  <2>1. Shape' BY <1>3 DEF Recheck, Shape, SendPc
  <2>2. Wakeups' BY <1>3 DEF Recheck, Shape, Wakeups, Pending
  <2>3. Bursts' BY <1>3 DEF Recheck, Bursts
  <2> QED BY <2>1, <2>2, <2>3
<1>4. CASE Push(s)
  <2> USE <1>4 DEF Push
  <2>1. Shape'
    <3>1. queue \in [Lanes -> Seq(Sends)] BY DEF Shape
    <3>2. LaneOf[s] \in Lanes OBVIOUS
    <3>3. [queue EXCEPT ![LaneOf[s]] = Append(@, s)] \in [Lanes -> Seq(Sends)]
      BY <3>1, <3>2, LaneType
    <3>5. queue' \in {queue, [queue EXCEPT ![LaneOf[s]] = Append(@, s)]} OBVIOUS
    <3>6. queue' \in [Lanes -> Seq(Sends)] BY <3>1, <3>3, <3>5
    <3>4. pc' \in [Sends -> SendPc] BY DEF Shape, SendPc
    <3> QED BY <3>4, <3>6 DEF Shape
  <2>2. Wakeups'
    <3>1. CASE Len(queue[LaneOf[s]]) < Capacity[LaneOf[s]] /\ wpc # "exit"
      <4>1. pc'[s] = "notify" BY <3>1 DEF Shape
      <4> QED BY <4>1 DEF Shape, Wakeups, Pending
    <3>2. CASE ~(Len(queue[LaneOf[s]]) < Capacity[LaneOf[s]] /\ wpc # "exit")
      BY <3>2 DEF Shape, Wakeups, Pending
    <3> QED BY <3>1, <3>2
  <2>3. Bursts'
    <3>1. queue'["data"] = << >> => queue["data"] = << >>
      BY DEF Shape
    <3> QED BY <3>1 DEF Bursts
  <2> QED BY <2>1, <2>2, <2>3
<1>5. CASE Notify(s)
  <2> USE <1>5 DEF Notify, Bump
  <2>1. Shape' BY DEF Shape, SendPc, WriterPc
  <2>2. Wakeups'
    <3>1. observed' < seq' BY DEF Shape, Wakeups
    <3>2. wpc' # "waiting" BY DEF Shape
    <3>3. observed' <= seq' /\ observed' # seq' BY <3>1 DEF Shape
    <3> QED BY <3>2, <3>3 DEF Wakeups
  <2>3. Bursts' BY DEF Bursts
  <2> QED BY <2>1, <2>2, <2>3
<1>6. CASE SendFailClosed(s)
  <2>1. Shape' BY <1>6 DEF SendFailClosed, Shape, SendPc
  <2>2. Wakeups' BY <1>6 DEF SendFailClosed, Shape, Wakeups, Pending
  <2>3. Bursts' BY <1>6 DEF SendFailClosed, Bursts
  <2> QED BY <2>1, <2>2, <2>3
<1> QED BY <1>1, <1>2, <1>3, <1>4, <1>5, <1>6 DEF SendStep

\* The close: flagging leaves a sleeping actor asleep, and the notification that
\* follows wakes it.
LEMMA CloseKeepsWInv ==
  ASSUME WInv, CloseElsewhere \/ CloseWriter \/ WatchdogFailClosed PROVE WInv'
<1> USE DEF WInv, wvars
<1>1. CASE CloseElsewhere
  BY <1>1 DEF CloseElsewhere, Shape, Wakeups, Bursts, Pending
<1>2. CASE CloseWriter
  <2> USE <1>2 DEF CloseWriter, Bump
  <2>1. Shape' BY DEF Shape, WriterPc
  <2>2. Wakeups'
    <3>1. observed' <= seq' /\ observed' # seq' BY DEF Shape, Wakeups
    <3>2. wpc' # "waiting" OBVIOUS
    <3> QED BY <3>1, <3>2 DEF Wakeups
  <2>3. Bursts' BY DEF Bursts
  <2> QED BY <2>1, <2>2, <2>3
<1>3. CASE WatchdogFailClosed
  BY <1>3 DEF WatchdogFailClosed, Shape, Wakeups, Bursts, Pending
<1> QED BY <1>1, <1>2, <1>3

\* Steps of the actor between two looks at its lanes.
LEMMA ActorKeepsWInv ==
  ASSUME WInv,
         \/ WriterStart \/ WriterLoop \/ Release \/ Resume("woken") \/ Resume("waiting")
         \/ AfterWrite \/ WriterFailClosed \/ WriteOk \/ WriteFails \/ Watchdog
  PROVE WInv'
<1> USE BurstAssumption DEF BurstAssumption, WInv, Pending
<1>1. CASE WriterStart BY <1>1 DEF WriterStart, Shape, Wakeups, Bursts, WriterPc
<1>2. CASE WriterLoop
  <2>1. wpc' \in {"exit", "datafirst", "control"} BY <1>2 DEF WriterLoop
  <2>2. wpc' = "control" => ~(burst >= MaxBurst) BY <1>2 DEF WriterLoop, DataFirst
  <2> QED BY <1>2, <2>1, <2>2 DEF WriterLoop, Shape, Wakeups, Bursts, WriterPc
<1>3. CASE Release BY <1>3 DEF Release, Shape, Wakeups, Bursts, WriterPc
<1>4. CASE Resume("woken") BY <1>4 DEF Resume, Shape, Wakeups, Bursts, WriterPc
<1>5. CASE Resume("waiting") BY <1>5 DEF Resume, Shape, Wakeups, Bursts, WriterPc
<1>6. CASE AfterWrite BY <1>6 DEF AfterWrite, Shape, Wakeups, Bursts, WriterPc
<1>7. CASE WriterFailClosed BY <1>7 DEF WriterFailClosed, Shape, Wakeups, Bursts, WriterPc
<1>8. CASE WriteOk BY <1>8 DEF WriteOk, Shape, Wakeups, Bursts, WriterPc
<1>9. CASE WriteFails BY <1>9 DEF WriteFails, Shape, Wakeups, Bursts, WriterPc
<1>10. CASE Watchdog BY <1>10 DEF Watchdog, Shape, Wakeups, Bursts, WriterPc
<1> QED BY <1>1, <1>2, <1>3, <1>4, <1>5, <1>6, <1>7, <1>8, <1>9, <1>10

\* The three try_recv calls of next_frame: what a lane was when it was looked at
\* is remembered by the actor's place.
LEMMA TakeKeepsWInv ==
  ASSUME WInv, TakeDataFirst \/ TakeControl \/ TakeData PROVE WInv'
<1> USE BurstAssumption DEF BurstAssumption, WInv, TryRecv, Lanes
<1>1. CASE TakeDataFirst
  <2> USE <1>1 DEF TakeDataFirst
  <2>1. Shape'
    <3>1. queue' \in [Lanes -> Seq(Sends)] BY LaneType DEF Shape
    <3> QED BY <3>1 DEF Shape, WriterPc
  <2>2. Wakeups' BY DEF Shape, Wakeups
  <2>3. Bursts'
    <3>1. CASE queue["data"] # << >>
      <4>1. passed' = 0 /\ burst' = 0 BY <3>1
      <4> QED BY <4>1 DEF Bursts
    <3>2. CASE queue["data"] = << >>
      BY <3>2 DEF Bursts
    <3> QED BY <3>1, <3>2
  <2> QED BY <2>1, <2>2, <2>3
<1>2. CASE TakeControl
  <2> USE <1>2 DEF TakeControl
  <2>1. Shape'
    <3>1. queue' \in [Lanes -> Seq(Sends)] BY LaneType DEF Shape
    <3> QED BY <3>1 DEF Shape, WriterPc
  <2>2. Wakeups' BY DEF Shape, Wakeups
  <2>3. Bursts'
    <3>1. queue'["data"] = queue["data"] BY DEF Shape
    <3>2. CASE queue["control"] # << >>
      <4>1. burst' = burst + 1 /\ wpc' = "release" BY <3>2
      <4>2. passed' = IF queue["data"] = << >> THEN 0 ELSE passed + 1 BY <3>2
      <4>3. passed' <= burst' BY <4>1, <4>2 DEF Shape, Bursts
      <4>4. passed' <= MaxBurst BY <4>2 DEF Shape, Bursts
      <4> QED BY <4>1, <4>2, <4>3, <4>4, <3>1 DEF Bursts
    <3>3. CASE queue["control"] = << >>
      BY <3>3 DEF Bursts
    <3> QED BY <3>2, <3>3
  <2> QED BY <2>1, <2>2, <2>3
<1>3. CASE TakeData
  <2> USE <1>3 DEF TakeData
  <2>1. Shape'
    <3>1. queue' \in [Lanes -> Seq(Sends)] BY LaneType DEF Shape
    <3> QED BY <3>1 DEF Shape, WriterPc
  <2>2. Wakeups'
    <3>1. CASE queue["data"] # << >>
      <4>1. wpc' = "release" BY <3>1
      <4> QED BY <4>1 DEF Wakeups
    <3>2. CASE queue["data"] = << >>
      BY <3>2 DEF Wakeups, Pending
    <3> QED BY <3>1, <3>2
  <2>3. Bursts'
    <3>1. CASE queue["data"] # << >>
      <4>1. passed' = 0 /\ burst' = 0 /\ wpc' = "release" BY <3>1
      <4> QED BY <4>1 DEF Bursts
    <3>2. CASE queue["data"] = << >>
      BY <3>2 DEF Bursts
    <3> QED BY <3>1, <3>2
  <2> QED BY <2>1, <2>2, <2>3
<1> QED BY <1>1, <1>2, <1>3

\* Park sleeps only on an unchanged sequence and an open session, both read
\* under the lock that every notification takes.
LEMMA ParkKeepsWInv == ASSUME WInv, Park PROVE WInv'
<1> USE DEF WInv, Park
<1>1. wpc' = "waiting" => seq = observed /\ ~Closed /\ observed' = observed BY DEF MaySleep
<1>2. wpc' \in {"exit", "waiting", "loop"} OBVIOUS
<1>3. observed' \in {seq, observed} OBVIOUS
<1>4. Shape' BY <1>2, <1>3 DEF Shape, WriterPc
<1>5. Wakeups' BY <1>1, <1>2, <1>3 DEF Shape, Wakeups, Pending, Closed
<1>6. Bursts' BY <1>2 DEF Bursts
<1> QED BY <1>4, <1>5, <1>6

\* The strengthened invariant holds in every reachable state.
THEOREM WriterInvariance == Spec => []WInv
<1>1. Init => WInv BY InitWInv
<1>2. WInv /\ [Next]_vars => WInv'
  <2> SUFFICES ASSUME WInv, [Next]_vars PROVE WInv' OBVIOUS
  <2>1. CASE UNCHANGED vars
    BY <2>1 DEF vars, wvars, WInv, Shape, Wakeups, Bursts, Pending
  <2>2. CASE Next
    BY <2>2, SendKeepsWInv, CloseKeepsWInv, ActorKeepsWInv, TakeKeepsWInv, ParkKeepsWInv
       DEF Next, WriterStep
  <2> QED BY <2>1, <2>2
<1> QED BY <1>1, <1>2, PTL DEF Spec

\* However sends, closes and the actor interleave, writer_loop is never left
\* waiting on the condition variable with a frame queued or the session closed
\* and nobody about to notify it.
THEOREM NoSleepOverWork == Spec => []NoLostWakeup
<1>1. WInv => NoLostWakeup BY DEF WInv, Wakeups, NoLostWakeup, Lanes
<1> QED BY <1>1, WriterInvariance, PTL

\* Data frames wait behind at most MaxBurst control frames (next_frame), for
\* every burst limit and every arrival between its try_recv calls.
THEOREM DataIsNotStarved == Spec => []BurstFair
<1>1. WInv => BurstFair BY DEF WInv, Bursts, BurstFair
<1> QED BY <1>1, WriterInvariance, PTL
-----------------------------------------------------------------------------
(* Sums of sizes over finite sets of frames.                               *)

\* A set of naturals that is not empty has a least element.
LEMMA LeastNatural ==
  ASSUME NEW T, T \subseteq Nat, T # {}
  PROVE  \E m \in T : \A k \in T : m <= k
<1>1. \E x \in T : \A y \in T : ~(<<y, x>> \in OpToRel(<, Nat))
  BY WFMin, NatLessThanWellFounded
<1>2. \A x, y \in T : <<y, x>> \in OpToRel(<, Nat) <=> y < x
  BY DEF OpToRel
<1>3. \E x \in T : \A y \in T : ~(y < x)
  BY <1>1, <1>2, Zenon
<1> QED BY <1>3

\* The element that the fold takes first.
First(T) == CHOOSE s \in T : TRUE

\* f sums the sizes of every subset of S, taking the first element each time.
Sums(f, S) == \A T \in SUBSET S : f[T] = IF T = {} THEN 0 ELSE Size[First(T)] + f[T \ {First(T)}]

\* What a subset without one of its elements is.
LEMMA Smaller ==
  ASSUME NEW S, IsFiniteSet(S), NEW T \in SUBSET S, NEW x \in T
  PROVE  /\ IsFiniteSet(T) /\ Cardinality(T) \in Nat /\ T \ {x} \in SUBSET S
         /\ Cardinality(T \ {x}) = Cardinality(T) - 1 /\ Cardinality(T) # 0 /\ First(T) \in T
<1>1. IsFiniteSet(T)
  BY FS_Subset
<1>2. Cardinality(T) \in Nat /\ Cardinality(T \ {x}) \in Nat
  BY <1>1, FS_CardinalityType, FS_RemoveElement
<1>3. Cardinality(T \ {x}) = Cardinality(T) - 1
  BY <1>1, FS_RemoveElement
<1>4. First(T) \in T
  BY Zenon DEF First
<1> QED BY <1>1, <1>2, <1>3, <1>4

\* Such a function exists: one for the subsets of up to n elements extends to n + 1.
LEMMA SumsExist ==
  ASSUME NEW S \in SUBSET Sends, IsFiniteSet(S)
  PROVE  \E f \in [SUBSET S -> Nat] : Sums(f, S)
<1> DEFINE Small(n) == {T \in SUBSET S : Cardinality(T) <= n}
           Fits(f, n) == \A T \in Small(n) :
                           f[T] = IF T = {} THEN 0 ELSE Size[First(T)] + f[T \ {First(T)}]
           Good(n) == \E f \in [Small(n) -> Nat] : Fits(f, n)
           Bad == {n \in Nat : ~Good(n)}
<1>0. /\ \A T \in SUBSET S : IsFiniteSet(T) /\ Cardinality(T) \in Nat
      /\ \A T \in SUBSET S : Cardinality(T) = 0 <=> T = {}
  BY FS_Subset, FS_CardinalityType, FS_EmptySet
<1>1. Good(Cardinality(S))
  <2>0. Cardinality(S) \in Nat
    BY FS_CardinalityType
  <2> HIDE DEF Good
  <2>1. SUFFICES ASSUME Bad # {} PROVE FALSE
    BY <2>0
  <2>2. PICK m \in Bad : \A k \in Bad : m <= k
    BY <2>1, LeastNatural
  <2>3. m \in Nat /\ ~Good(m) /\ \A k \in Nat : k < m => Good(k)
    BY <2>2
  <2>4. CASE m = 0
    <3>1. PICK f : f = [T \in Small(0) |-> 0]
      OBVIOUS
    <3>2. \A T \in Small(0) : T = {}
      BY <1>0
    <3>3. f \in [Small(0) -> Nat]
      BY <3>1
    <3>4. Fits(f, 0)
      BY <3>1, <3>2
    <3> HIDE DEF Small, Fits
    <3> QED BY <2>3, <2>4, <3>3, <3>4 DEF Good
  <2>5. CASE m # 0
    <3>1. PICK n \in Nat : m = n + 1 /\ Good(n)
      <4>1. m - 1 \in Nat /\ m = (m - 1) + 1 /\ Good(m - 1)
        BY <2>3, <2>5
      <4> QED BY <4>1
    <3>2. PICK f \in [Small(n) -> Nat] : Fits(f, n)
      BY <3>1 DEF Good
    <3>3. PICK g : g = [T \in Small(m) |-> IF T \in Small(n) THEN f[T]
                                           ELSE Size[First(T)] + f[T \ {First(T)}]]
      OBVIOUS
    <3>4. ASSUME NEW T \in Small(m), T # {}
          PROVE  /\ T \ {First(T)} \in Small(n) /\ T \ {First(T)} \in Small(m)
                 /\ Size[First(T)] \in Nat /\ f[T \ {First(T)}] \in Nat
      <4>1. PICK x \in T : x = First(T)
        BY <3>4, Zenon DEF First
      <4>2. /\ Cardinality(T) \in Nat /\ T \ {x} \in SUBSET S /\ Cardinality(T \ {x}) = Cardinality(T) - 1
        BY Smaller
      <4>3. Cardinality(T \ {x}) <= n /\ Cardinality(T \ {x}) <= m
        BY <3>1, <4>2
      <4>4. T \ {x} \in Small(n) /\ T \ {x} \in Small(m)
        BY <4>2, <4>3
      <4>5. Size[x] \in Nat
        BY SendsAssumption
      <4>6. f[T \ {x}] \in Nat
        BY <3>2, <4>4
      <4> QED BY <4>1, <4>4, <4>5, <4>6
    <3>5. {} \in Small(n) /\ f[{}] = 0
      <4>1. {} \in Small(n)
        BY FS_EmptySet
      <4> QED BY <3>2, <4>1
    <3> HIDE DEF Small
    <3>6. g \in [Small(m) -> Nat]
      <4>1. ASSUME NEW T \in Small(m)
            PROVE  (IF T \in Small(n) THEN f[T] ELSE Size[First(T)] + f[T \ {First(T)}]) \in Nat
        <5>1. CASE T \in Small(n)
          BY <3>2, <5>1
        <5>2. CASE T \notin Small(n)
          <6>1. T # {}
            BY <3>5, <5>2
          <6> QED BY <3>4, <5>2, <6>1
        <5> QED BY <5>1, <5>2
      <4> QED BY <3>3, <4>1, Zenon
    <3>7. Fits(g, m)
      <4>1. ASSUME NEW T \in Small(m)
            PROVE  g[T] = IF T = {} THEN 0 ELSE Size[First(T)] + g[T \ {First(T)}]
        <5>1. CASE T = {}
          <6>1. g[T] = f[{}]
            BY <3>3, <3>5, <5>1
          <6> QED BY <3>5, <5>1, <6>1
        <5>2. CASE T # {}
          <6>1. g[T \ {First(T)}] = f[T \ {First(T)}]
            BY <3>3, <3>4, <5>2
          <6>2. CASE T \in Small(n)
            <7>1. g[T] = f[T]
              BY <3>3, <6>2
            <7>2. f[T] = Size[First(T)] + f[T \ {First(T)}]
              BY <3>2, <5>2, <6>2
            <7> QED BY <5>2, <6>1, <7>1, <7>2
          <6>3. CASE T \notin Small(n)
            BY <3>3, <5>2, <6>1, <6>3
          <6> QED BY <6>2, <6>3
        <5> QED BY <5>1, <5>2
      <4> QED BY <4>1
    <3> HIDE DEF Fits
    <3> QED BY <2>3, <3>6, <3>7 DEF Good
  <2> QED BY <2>4, <2>5
<1>2. PICK f \in [Small(Cardinality(S)) -> Nat] : Fits(f, Cardinality(S))
  BY <1>1
<1>3. Small(Cardinality(S)) = SUBSET S
  BY FS_Subset
<1> QED BY <1>2, <1>3 DEF Sums

\* Two of them agree on the sets they share.
LEMMA SumsAgree ==
  ASSUME NEW S, IsFiniteSet(S), NEW R \in SUBSET S, NEW f, NEW g, Sums(f, S), Sums(g, R)
  PROVE  \A T \in SUBSET R : f[T] = g[T]
<1> DEFINE Wrong == {T \in SUBSET R : f[T] # g[T]}
           Bad == {Cardinality(T) : T \in Wrong}
<1>1. SUFFICES ASSUME Wrong # {} PROVE FALSE
  OBVIOUS
<1>2. \A T \in Wrong : T \in SUBSET S /\ T \in SUBSET R /\ IsFiniteSet(T) /\ Cardinality(T) \in Nat
  BY FS_Subset, FS_CardinalityType
<1>3. PICK m \in Bad : \A k \in Bad : m <= k
  <2>1. Bad \subseteq Nat /\ Bad # {}
    BY <1>1, <1>2
  <2> QED BY <2>1, LeastNatural
<1>4. PICK T \in Wrong : m = Cardinality(T)
  BY <1>3
<1>5. T # {}
  BY <1>2, <1>4 DEF Sums
<1>6. PICK x \in T : x = First(T)
  BY <1>5, Zenon DEF First
<1>7. Cardinality(T \ {x}) = Cardinality(T) - 1 /\ Cardinality(T) \in Nat /\ T \ {x} \in SUBSET R
  BY <1>2, <1>4, Smaller
<1>8. T \ {x} \notin Wrong
  <2>1. SUFFICES ASSUME T \ {x} \in Wrong PROVE FALSE
    OBVIOUS
  <2>2. Cardinality(T \ {x}) \in Bad
    BY <2>1
  <2>3. m <= Cardinality(T \ {x})
    BY <1>3, <2>2
  <2> QED BY <1>4, <1>7, <2>3
<1>9. f[T \ {x}] = g[T \ {x}]
  BY <1>7, <1>8
<1>10. f[T] = Size[x] + f[T \ {x}] /\ g[T] = Size[x] + g[T \ {x}]
  BY <1>2, <1>4, <1>5, <1>6 DEF Sums
<1> QED BY <1>4, <1>9, <1>10

\* The order does not matter.
LEMMA SumsAnyOrder ==
  ASSUME NEW S \in SUBSET Sends, IsFiniteSet(S), NEW f \in [SUBSET S -> Nat], Sums(f, S)
  PROVE  \A T \in SUBSET S : \A x \in T : f[T] = Size[x] + f[T \ {x}]
<1> DEFINE Wrong == {T \in SUBSET S : \E x \in T : f[T] # Size[x] + f[T \ {x}]}
           Bad == {Cardinality(T) : T \in Wrong}
<1>1. SUFFICES ASSUME Wrong # {} PROVE FALSE
  OBVIOUS
<1>2. \A T \in Wrong : T \in SUBSET S /\ IsFiniteSet(T) /\ Cardinality(T) \in Nat
  BY FS_Subset, FS_CardinalityType
<1>3. PICK m \in Bad : \A k \in Bad : m <= k
  <2>1. Bad \subseteq Nat /\ Bad # {}
    BY <1>1, <1>2
  <2> QED BY <2>1, LeastNatural
<1>4. PICK T \in Wrong : m = Cardinality(T)
  BY <1>3
<1>5. PICK x \in T : f[T] # Size[x] + f[T \ {x}]
  BY <1>4
<1>6. PICK y \in T : y = First(T)
  BY <1>5, Zenon DEF First
<1>7. f[T] = Size[y] + f[T \ {y}] /\ x # y
  BY <1>2, <1>4, <1>5, <1>6 DEF Sums
<1>8. ASSUME NEW z \in T
      PROVE  /\ T \ {z} \in SUBSET S
             /\ \A w \in T \ {z} : f[T \ {z}] = Size[w] + f[(T \ {z}) \ {w}]
  <2>1. Cardinality(T \ {z}) = Cardinality(T) - 1 /\ Cardinality(T) \in Nat /\ T \ {z} \in SUBSET S
    BY <1>2, <1>4, Smaller
  <2>2. T \ {z} \notin Wrong
    <3>1. SUFFICES ASSUME T \ {z} \in Wrong PROVE FALSE
      OBVIOUS
    <3>2. Cardinality(T \ {z}) \in Bad
      BY <3>1
    <3>3. m <= Cardinality(T \ {z})
      BY <1>3, <3>2
    <3> QED BY <1>4, <2>1, <3>3
  <2> QED BY <2>1, <2>2
<1>9. /\ f[T \ {y}] = Size[x] + f[(T \ {y}) \ {x}]
      /\ f[T \ {x}] = Size[y] + f[(T \ {x}) \ {y}]
  BY <1>5, <1>6, <1>7, <1>8
<1>10. PICK rest : rest = (T \ {x}) \ {y} /\ rest = (T \ {y}) \ {x}
  <2>1. (T \ {x}) \ {y} = (T \ {y}) \ {x}
    OBVIOUS
  <2> QED BY <2>1
<1>11. f[rest] \in Nat /\ Size[x] \in Nat /\ Size[y] \in Nat
  <2>1. rest \in SUBSET S
    BY <1>4, <1>10
  <2>2. x \in Sends /\ y \in Sends
    BY <1>4, <1>5, <1>6
  <2> QED BY <2>1, <2>2, SendsAssumption
<1> QED BY <1>5, <1>7, <1>9, <1>10, <1>11

-----------------------------------------------------------------------------
\* The bytes of a set of frames, in the words of the model.
Total(S) == MapThenSumSet(LAMBDA s : Size[s], S)

\* The fold behind it, on every subset at once,
Folded(S) ==
  LET iter[T \in SUBSET S] == IF T = {} THEN 0
                              ELSE LET x == CHOOSE s \in T : TRUE IN Size[x] + iter[T \ {x}]
  IN iter

\* which is the library's operator unfolded.
LEMMA FoldedIsTotal == \A S : Total(S) = Folded(S)[S]
  BY Zenon DEF Total, Folded, MapThenSumSet, MapThenFoldSet

\* The fold is one of the sums above.
LEMMA FoldedSums ==
  ASSUME NEW S \in SUBSET Sends, IsFiniteSet(S)
  PROVE  Sums(Folded(S), S)
<1>1. PICK f \in [SUBSET S -> Nat] : Sums(f, S)
  BY SumsExist
<1>2. f = [T \in SUBSET S |-> IF T = {} THEN 0
                              ELSE LET x == CHOOSE s \in T : TRUE IN Size[x] + f[T \ {x}]]
  BY <1>1, Zenon DEF Sums, First
<1>3. Folded(S) = [T \in SUBSET S |-> IF T = {} THEN 0
                              ELSE LET x == CHOOSE s \in T : TRUE IN Size[x] + Folded(S)[T \ {x}]]
  BY <1>2, Zenon DEF Folded
<1>4. PICK g : g = Folded(S)
  OBVIOUS
<1>5. \A T \in SUBSET S : g[T] = IF T = {} THEN 0
                              ELSE LET x == CHOOSE s \in T : TRUE IN Size[x] + g[T \ {x}]
  BY <1>3, <1>4, Zenon
<1> QED BY <1>4, <1>5, Zenon DEF Sums, First

\* Adding and taking away a frame.
LEMMA TotalChanges ==
  ASSUME NEW S \in SUBSET Sends, IsFiniteSet(S)
  PROVE  /\ Total({}) = 0 /\ Total(S) \in Nat
         /\ \A x \in S : Total(S) = Size[x] + Total(S \ {x}) /\ Total(S \ {x}) \in Nat
         /\ \A x \in Sends \ S : Total(S \cup {x}) = Size[x] + Total(S)
<1>1. ASSUME NEW R \in SUBSET Sends, IsFiniteSet(R)
      PROVE  /\ Total(R) \in Nat
             /\ \A x \in R : Total(R) = Size[x] + Total(R \ {x}) /\ Total(R \ {x}) \in Nat
  <2>1. PICK f \in [SUBSET R -> Nat] : Sums(f, R)
    BY <1>1, SumsExist
  <2>2. ASSUME NEW T \in SUBSET R
        PROVE  Total(T) = f[T]
    <3>1. IsFiniteSet(T) /\ T \in SUBSET Sends
      BY <1>1, FS_Subset
    <3>2. Sums(Folded(T), T)
      BY <3>1, FoldedSums
    <3>3. f[T] = Folded(T)[T]
      BY <1>1, <2>1, <3>2, SumsAgree
    <3> QED BY <3>3, FoldedIsTotal
  <2>3. Total(R) = f[R] /\ f[R] \in Nat
    BY <2>1, <2>2
  <2>4. ASSUME NEW x \in R
        PROVE  Total(R) = Size[x] + Total(R \ {x}) /\ Total(R \ {x}) \in Nat
    <3>1. R \ {x} \in SUBSET R /\ R \in SUBSET R
      OBVIOUS
    <3>2. f[R] = Size[x] + f[R \ {x}]
      <4>1. \A T \in SUBSET R : \A y \in T : f[T] = Size[y] + f[T \ {y}]
        BY <1>1, <2>1, SumsAnyOrder
      <4> QED BY <3>1, <4>1, Zenon
    <3>3. Total(R \ {x}) = f[R \ {x}] /\ f[R \ {x}] \in Nat
      BY <2>1, <2>2, <3>1
    <3> QED BY <2>3, <3>2, <3>3
  <2> QED BY <2>3, <2>4
<1>2. Total({}) = 0
  <2>1. {} \in SUBSET Sends /\ IsFiniteSet({})
    BY FS_EmptySet
  <2>2. Folded({})[{}] = 0
    BY <2>1, FoldedSums DEF Sums
  <2> QED BY <2>2, FoldedIsTotal
<1>3. ASSUME NEW x \in Sends \ S
      PROVE  Total(S \cup {x}) = Size[x] + Total(S)
  <2>1. IsFiniteSet(S \cup {x}) /\ S \cup {x} \in SUBSET Sends /\ (S \cup {x}) \ {x} = S /\ x \in S \cup {x}
    BY FS_AddElement
  <2> QED BY <1>1, <2>1
<1> QED BY <1>1, <1>2, <1>3
-----------------------------------------------------------------------------
(* The byte budgets.                                                       *)

\* Where a sender holds bytes for a frame that is not queued, and where it no longer does.
Held == {"recheck", "push"}
Past == {"notify", "done"}
\* The frame is queued.
InLane(s) == \E i \in 1..Len(queue[LaneOf[s]]) : queue[LaneOf[s]][i] = s

\* The counters are within budget, and sum the frames that are charged.
Books ==
  /\ bytes \in [Lanes -> Nat]
  /\ \A l \in Lanes : /\ bytes[l] <= MaxBytes[l] /\ IsFiniteSet(Charged(l))
                      /\ bytes[l] = Total(Charged(l))

\* A frame is charged in one place only: by its sender before the push, in its lane
\* once, or in the actor's hands.
OnePlace ==
  /\ \A l \in Lanes : \A i \in 1..Len(queue[l]) : LaneOf[queue[l][i]] = l /\ pc[queue[l][i]] \in Past
  /\ \A l \in Lanes : \A i, j \in 1..Len(queue[l]) : queue[l][i] = queue[l][j] => i = j
  /\ wpc = "release" => frame \in Sends /\ pc[frame] \in Past /\ ~InLane(frame)

\* What the actor has in its hands.
HandTypes ==
  /\ frame \in Sends \cup {NoFrame} /\ fired \in BOOLEAN /\ written \subseteq Sends
  /\ wpc \in {"release", "write"} => frame \in Sends

\* The strengthening of LanesAgree: without the one place a frame could be counted once
\* and given back twice.
ChargeInv == Books /\ OnePlace /\ HandTypes

\* The charged frames, by the place they are charged in.
LEMMA ChargedFrames ==
  \A l \in Lanes : /\ Charged(l) \in SUBSET Sends
                   /\ \A s \in Sends : s \in Charged(l) <=> /\ LaneOf[s] = l
                                                            /\ pc[s] \in Held \/ (wpc = "release" /\ frame = s) \/ InLane(s)
  BY DEF Charged, InLane, Held

\* Nothing charged and nothing given back.
LEMMA BooksStay ==
  ASSUME Books, bytes' = bytes, \A l \in Lanes : Charged(l)' = Charged(l)
  PROVE  Books'
  BY DEF Books

\* A frame newly charged to its lane, within the budget.
LEMMA BooksCharge ==
  ASSUME Books, NEW s \in Sends, s \notin Charged(LaneOf[s]), ~OverBudget(s),
         bytes' = [bytes EXCEPT ![LaneOf[s]] = @ + Size[s]],
         Charged(LaneOf[s])' = Charged(LaneOf[s]) \cup {s},
         \A l \in Lanes \ {LaneOf[s]} : Charged(l)' = Charged(l)
  PROVE  Books'
<1>1. PICK k \in Lanes : k = LaneOf[s]
  BY SendsAssumption
<1>2. PICK n \in Nat : n = Size[s]
  BY SendsAssumption
<1>3. PICK C : C = Charged(k)
  OBVIOUS
<1>4. PICK b \in Nat : b = bytes[k] /\ b <= MaxBytes[k] /\ b = Total(C) /\ IsFiniteSet(C)
  BY <1>3 DEF Books
<1>5. MaxBytes[k] \in Nat /\ b + n <= MaxBytes[k]
  <2>1. MaxBytes[k] \in Nat
    BY LanesAssumption
  <2>2. ~(n > MaxBytes[k] - b)
    BY <1>1, <1>2, <1>4 DEF OverBudget
  <2> QED BY <2>1, <2>2
<1>6. C \in SUBSET Sends
  BY <1>3, ChargedFrames
<1>7. Total(C \cup {s}) = n + b /\ IsFiniteSet(C \cup {s})
  <2>1. s \in Sends \ C
    BY <1>1, <1>3
  <2> QED BY <1>2, <1>4, <1>6, <2>1, TotalChanges, FS_AddElement
<1>8. bytes' \in [Lanes -> Nat] /\ bytes'[k] = b + n /\ \A l \in Lanes \ {k} : bytes'[l] = bytes[l]
  BY <1>1, <1>2, <1>4 DEF Books
<1>9. ASSUME NEW l \in Lanes
      PROVE  bytes'[l] <= MaxBytes[l] /\ IsFiniteSet(Charged(l)') /\ bytes'[l] = Total(Charged(l)')
  <2>1. CASE l = k
    <3>1. Charged(l)' = C \cup {s}
      BY <1>1, <1>3, <2>1
    <3>2. b + n = n + b
      OBVIOUS
    <3> QED BY <1>5, <1>7, <1>8, <2>1, <3>1, <3>2
  <2>2. CASE l # k
    BY <1>1, <1>8, <2>2 DEF Books
  <2> QED BY <2>1, <2>2
<1> QED BY <1>8, <1>9 DEF Books

\* A frame whose bytes go back to its lane.
LEMMA BooksGiveBack ==
  ASSUME Books, NEW s \in Sends, s \in Charged(LaneOf[s]),
         bytes' = [bytes EXCEPT ![LaneOf[s]] = @ - Size[s]],
         Charged(LaneOf[s])' = Charged(LaneOf[s]) \ {s},
         \A l \in Lanes \ {LaneOf[s]} : Charged(l)' = Charged(l)
  PROVE  Books'
<1>1. PICK k \in Lanes : k = LaneOf[s]
  BY SendsAssumption
<1>2. PICK n \in Nat : n = Size[s]
  BY SendsAssumption
<1>3. PICK C : C = Charged(k)
  OBVIOUS
<1>4. PICK b \in Nat : b = bytes[k] /\ b <= MaxBytes[k] /\ b = Total(C) /\ IsFiniteSet(C)
  BY <1>3 DEF Books
<1>5. MaxBytes[k] \in Nat
  BY LanesAssumption
<1>6. C \in SUBSET Sends /\ s \in C
  BY <1>1, <1>3, ChargedFrames
<1>7. PICK r \in Nat : r = Total(C \ {s}) /\ b = n + r
  BY <1>2, <1>4, <1>6, TotalChanges
<1>8. IsFiniteSet(C \ {s})
  BY <1>4, FS_RemoveElement
<1>9. bytes' = [bytes EXCEPT ![k] = r]
  <2>1. bytes[k] - Size[s] = r
    BY <1>2, <1>4, <1>7
  <2> QED BY <1>1, <2>1 DEF Books
<1>10. bytes' \in [Lanes -> Nat] /\ bytes'[k] = r /\ \A l \in Lanes \ {k} : bytes'[l] = bytes[l]
  BY <1>9 DEF Books
<1>11. ASSUME NEW l \in Lanes
       PROVE  bytes'[l] <= MaxBytes[l] /\ IsFiniteSet(Charged(l)') /\ bytes'[l] = Total(Charged(l)')
  <2>1. CASE l = k
    <3>1. Charged(l)' = C \ {s}
      BY <1>1, <1>3, <2>1
    <3>2. r <= MaxBytes[k]
      BY <1>4, <1>5, <1>7
    <3> QED BY <1>7, <1>8, <1>10, <2>1, <3>1, <3>2
  <2>2. CASE l # k
    BY <1>1, <1>10, <2>2 DEF Books
  <2> QED BY <2>1, <2>2
<1> QED BY <1>10, <1>11 DEF Books

\* Steps that charge nothing and give nothing back.
LEMMA QuietKeepsCharges ==
  ASSUME WInv, ChargeInv, queue' = queue, bytes' = bytes,
         \A s \in Sends : (pc'[s] \in Held <=> pc[s] \in Held) /\ (pc[s] \in Past => pc'[s] \in Past),
         wpc = "release" <=> wpc' = "release", wpc = "release" => frame' = frame, HandTypes'
  PROVE  ChargeInv'
<1>1. \A s \in Sends : InLane(s)' <=> InLane(s)
  BY DEF InLane
<1>2. \A l \in Lanes : Charged(l)' = Charged(l)
  BY <1>1 DEF Charged, Held
<1>3. OnePlace'
  <2>1. \A l \in Lanes : \A i \in 1..Len(queue[l]) : queue[l][i] \in Sends
    BY DEF WInv, Shape
  <2>2. \A l \in Lanes : \A i \in 1..Len(queue'[l]) : LaneOf[queue'[l][i]] = l /\ pc'[queue'[l][i]] \in Past
    BY <2>1 DEF ChargeInv, OnePlace
  <2>3. \A l \in Lanes : \A i, j \in 1..Len(queue'[l]) : queue'[l][i] = queue'[l][j] => i = j
    BY DEF ChargeInv, OnePlace
  <2>4. wpc' = "release" => frame' \in Sends /\ pc'[frame'] \in Past /\ ~InLane(frame)'
    BY DEF ChargeInv, OnePlace, InLane
  <2> QED BY <2>2, <2>3, <2>4 DEF OnePlace
<1> QED BY <1>2, <1>3, BooksStay DEF ChargeInv

\* A reservation: the frame was charged nowhere before.
LEMMA ReserveKeepsCharges ==
  ASSUME WInv, ChargeInv, NEW s \in Sends, Reserve(s), ~OverBudget(s)
  PROVE  ChargeInv'
<1>1. /\ pc[s] = "reserve" /\ bytes' = [bytes EXCEPT ![LaneOf[s]] = @ + Size[s]]
      /\ pc' = [pc EXCEPT ![s] = "recheck"] /\ UNCHANGED <<queue, wpc, frame, fired, written>>
  BY DEF Reserve, Goto, wvars
<1>2. pc \in [Sends -> SendPc] /\ queue \in [Lanes -> Seq(Sends)] /\ LaneOf[s] \in Lanes
  BY SendsAssumption DEF WInv, Shape
<1>3. \A r \in Sends : InLane(r)' <=> InLane(r)
  BY <1>1 DEF InLane
<1>4. ~InLane(s) /\ ~(wpc = "release" /\ frame = s) /\ pc[s] \notin Held
  BY <1>1, <1>2, SMTT(40) DEF ChargeInv, OnePlace, InLane, Past, Held
<1>5. s \notin Charged(LaneOf[s])
  BY <1>2, <1>4, ChargedFrames
<1>6. /\ Charged(LaneOf[s])' = Charged(LaneOf[s]) \cup {s}
      /\ \A l \in Lanes \ {LaneOf[s]} : Charged(l)' = Charged(l)
  BY <1>1, <1>2 DEF Charged
<1>7. OnePlace'
  <2>1. \A r \in Sends : pc[r] \in Past => pc'[r] \in Past
    BY <1>1, <1>2 DEF Past
  <2>2. \A l \in Lanes : \A i \in 1..Len(queue[l]) : queue[l][i] \in Sends
    BY <1>2
  <2> QED BY <1>1, <2>1, <2>2 DEF ChargeInv, OnePlace, InLane
<1>8. HandTypes'
  BY <1>1 DEF ChargeInv, HandTypes
<1> QED BY <1>1, <1>5, <1>6, <1>7, <1>8, BooksCharge DEF ChargeInv

\* A send that fails after its reservation gives the bytes back.
LEMMA GiveBackKeepsCharges ==
  ASSUME WInv, ChargeInv, NEW s \in Sends, pc[s] \in Held, GiveBack(s),
         NEW label \in {"done", "failclosed"}, Goto(s, label),
         UNCHANGED <<queue, wpc, frame, fired, written>>
  PROVE  ChargeInv'
<1>1. /\ bytes' = [bytes EXCEPT ![LaneOf[s]] = @ - Size[s]] /\ pc' = [pc EXCEPT ![s] = label]
  BY DEF GiveBack, Goto
<1>2. pc \in [Sends -> SendPc] /\ queue \in [Lanes -> Seq(Sends)] /\ LaneOf[s] \in Lanes
  BY SendsAssumption DEF WInv, Shape
<1>3. pc[s] \notin Past
  BY DEF Past, Held
<1>4. ~InLane(s) /\ ~(wpc = "release" /\ frame = s)
  BY <1>2, <1>3 DEF ChargeInv, OnePlace, InLane
<1>5. s \in Charged(LaneOf[s])
  BY <1>2, ChargedFrames
<1>6. /\ Charged(LaneOf[s])' = Charged(LaneOf[s]) \ {s}
      /\ \A l \in Lanes \ {LaneOf[s]} : Charged(l)' = Charged(l)
  BY <1>1, <1>2, <1>4 DEF Charged, InLane, Held
<1>7. OnePlace'
  <2>1. \A r \in Sends : pc[r] \in Past => pc'[r] \in Past
    BY <1>1, <1>2, <1>3
  <2>2. \A l \in Lanes : \A i \in 1..Len(queue[l]) : queue[l][i] \in Sends
    BY <1>2
  <2> QED BY <2>1, <2>2 DEF ChargeInv, OnePlace, InLane
<1>8. HandTypes'
  BY DEF ChargeInv, HandTypes
<1> QED BY <1>1, <1>5, <1>6, <1>7, <1>8, BooksGiveBack DEF ChargeInv

\* An accepted push moves the charge from the sender to the lane.
LEMMA PushKeepsCharges ==
  ASSUME WInv, ChargeInv, NEW s \in Sends, pc[s] = "push",
         queue' = [queue EXCEPT ![LaneOf[s]] = Append(@, s)], Goto(s, "notify"),
         UNCHANGED <<bytes, wpc, frame, fired, written>>
  PROVE  ChargeInv'
<1>1. pc' = [pc EXCEPT ![s] = "notify"] /\ pc \in [Sends -> SendPc] /\ queue \in [Lanes -> Seq(Sends)]
  BY DEF Goto, WInv, Shape
<1>2. PICK k \in Lanes : k = LaneOf[s]
  BY SendsAssumption
<1>3. PICK q \in Seq(Sends) : q = queue[k]
  BY <1>1
<1>4. PICK a : a = Append(q, s)
  OBVIOUS
<1>5. queue'[k] = a /\ \A l \in Lanes \ {k} : queue'[l] = queue[l]
  BY <1>1, <1>2, <1>3, <1>4
<1>6. /\ Len(q) \in Nat /\ Len(a) = Len(q) + 1 /\ a[Len(q) + 1] = s
      /\ \A i \in 1..Len(q) : a[i] = q[i] /\ q[i] \in Sends
      /\ 1..Len(a) = 1..Len(q) \cup {Len(q) + 1}
  BY <1>3, <1>4
<1>7. pc[s] \notin Past /\ pc[s] \in Held /\ "notify" \in Past /\ "notify" \notin Held
  BY DEF Past, Held
<1>8. /\ pc'[s] \in Past /\ pc'[s] \notin Held
      /\ \A r \in Sends \ {s} : pc'[r] = pc[r]
  BY <1>1, <1>7
<1>9. ~(wpc = "release" /\ frame = s) /\ \A i \in 1..Len(q) : q[i] # s /\ LaneOf[q[i]] = k /\ pc[q[i]] \in Past
  BY <1>3, <1>7 DEF ChargeInv, OnePlace
<1>10. InLane(s)'
  <2>1. Len(q) + 1 \in 1..Len(a)
    BY <1>6
  <2> QED BY <1>2, <1>5, <1>6, <2>1 DEF InLane
<1>11. ASSUME NEW r \in Sends \ {s} PROVE InLane(r)' <=> InLane(r)
  <2>1. CASE LaneOf[r] = k
    <3>1. (\E i \in 1..Len(a) : a[i] = r) <=> (\E i \in 1..Len(q) : q[i] = r)
      BY <1>6
    <3> QED BY <1>3, <1>5, <2>1, <3>1 DEF InLane
  <2>2. CASE LaneOf[r] # k
    <3>1. LaneOf[r] \in Lanes
      BY SendsAssumption
    <3> QED BY <1>5, <2>2, <3>1 DEF InLane
  <2> QED BY <2>1, <2>2
<1>12. \A l \in Lanes : Charged(l)' = Charged(l)
  <2>1. ASSUME NEW l \in Lanes, NEW r \in Sends
        PROVE  r \in Charged(l)' <=> r \in Charged(l)
    <3>1. r \in Charged(l)' <=> LaneOf[r] = l /\ (pc'[r] \in Held \/ (wpc' = "release" /\ frame' = r) \/ InLane(r)')
      BY DEF Charged, InLane, Held
    <3>2. r \in Charged(l) <=> LaneOf[r] = l /\ (pc[r] \in Held \/ (wpc = "release" /\ frame = r) \/ InLane(r))
      BY ChargedFrames
    <3>3. CASE r = s
      BY <1>7, <1>10, <3>1, <3>2, <3>3
    <3>4. CASE r # s
      BY <1>8, <1>11, <3>1, <3>2, <3>4
    <3> QED BY <3>3, <3>4
  <2>2. \A l \in Lanes : Charged(l) \subseteq Sends /\ Charged(l)' \subseteq Sends
    BY DEF Charged
  <2> QED BY <2>1, <2>2
<1>13. OnePlace'
  <2>1. ASSUME NEW l \in Lanes, NEW i \in 1..Len(queue'[l])
        PROVE  LaneOf[queue'[l][i]] = l /\ pc'[queue'[l][i]] \in Past
    <3>1. CASE l = k /\ i = Len(q) + 1
      BY <1>2, <1>5, <1>6, <1>8, <3>1
    <3>2. CASE l = k /\ i # Len(q) + 1
      <4>1. i \in 1..Len(q) /\ queue'[l][i] = q[i]
        BY <1>5, <1>6, <3>2
      <4> QED BY <1>6, <1>8, <1>9, <3>2, <4>1
    <3>3. CASE l # k
      <4>1. queue'[l] = queue[l] /\ queue[l][i] \in Sends
        BY <1>1, <1>5, <3>3
      <4>2. LaneOf[queue[l][i]] = l /\ pc[queue[l][i]] \in Past
        BY <4>1 DEF ChargeInv, OnePlace
      <4> QED BY <1>7, <1>8, <4>1, <4>2
    <3> QED BY <3>1, <3>2, <3>3
  <2>2. ASSUME NEW l \in Lanes, NEW i \in 1..Len(queue'[l]), NEW j \in 1..Len(queue'[l]),
               queue'[l][i] = queue'[l][j]
        PROVE  i = j
    <3>1. CASE l = k
      <4>1. \A m, n \in 1..Len(q) : q[m] = q[n] => m = n
        BY <1>3 DEF ChargeInv, OnePlace
      <4>2. a[i] = a[j] /\ i \in 1..Len(a) /\ j \in 1..Len(a)
        BY <1>5, <2>2, <3>1
      <4> QED BY <1>6, <1>9, <4>1, <4>2
    <3>2. CASE l # k
      BY <1>5, <2>2, <3>2 DEF ChargeInv, OnePlace
    <3> QED BY <3>1, <3>2
  <2>3. ASSUME wpc' = "release" PROVE frame' \in Sends /\ pc'[frame'] \in Past /\ ~InLane(frame)'
    <3>1. PICK f : f = frame /\ f \in Sends /\ pc[f] \in Past /\ ~InLane(f)
      BY <2>3 DEF ChargeInv, OnePlace
    <3>2. f # s
      BY <1>9, <2>3, <3>1
    <3>3. ~InLane(f)' /\ pc'[f] \in Past
      BY <1>8, <1>11, <3>1, <3>2
    <3>4. frame' = f
      BY <3>1
    <3> QED BY <3>1, <3>3, <3>4 DEF InLane
  <2> QED BY <2>1, <2>2, <2>3 DEF OnePlace
<1>14. HandTypes'
  BY DEF ChargeInv, HandTypes
<1> QED BY <1>12, <1>13, <1>14, BooksStay DEF ChargeInv

\* A take moves the charge from the lane to the actor's hands.
LEMMA TakeKeepsCharges ==
  ASSUME WInv, ChargeInv, NEW k \in Lanes, queue[k] # << >>, wpc # "release",
         frame' = Head(queue[k]), queue' = [queue EXCEPT ![k] = Tail(@)], wpc' = "release",
         UNCHANGED <<pc, bytes, fired, written>>
  PROVE  ChargeInv'
<1>1. pc \in [Sends -> SendPc] /\ queue \in [Lanes -> Seq(Sends)]
  BY DEF WInv, Shape
<1>2. PICK q \in Seq(Sends) : q = queue[k]
  BY <1>1
<1>3. PICK t : t = Tail(q)
  OBVIOUS
<1>4. PICK s : s = Head(q)
  OBVIOUS
<1>5. queue'[k] = t /\ frame' = s /\ \A l \in Lanes \ {k} : queue'[l] = queue[l]
  BY <1>1, <1>2, <1>3, <1>4
<1>6. /\ Len(q) \in Nat \ {0} /\ Len(t) = Len(q) - 1 /\ s = q[1] /\ s \in Sends
      /\ \A i \in 1..Len(t) : i + 1 \in 1..Len(q) /\ t[i] = q[i + 1]
      /\ \A i \in 1..Len(q) : i # 1 => i - 1 \in 1..Len(t) /\ t[i - 1] = q[i]
      /\ \A i \in 1..Len(q) : q[i] \in Sends
      /\ 1 \in 1..Len(q)
  BY <1>2, <1>3, <1>4
<1>7. /\ \A i \in 1..Len(q) : LaneOf[q[i]] = k /\ pc[q[i]] \in Past
      /\ \A i, j \in 1..Len(q) : q[i] = q[j] => i = j
  BY <1>2 DEF ChargeInv, OnePlace
<1>8. LaneOf[s] = k /\ pc[s] \in Past
  BY <1>6, <1>7
<1>9. InLane(s) /\ ~InLane(s)'
  <2>1. InLane(s)
    BY <1>2, <1>6, <1>8 DEF InLane
  <2>2. \A i \in 1..Len(t) : t[i] # s
    <3>1. ASSUME NEW i \in 1..Len(t), t[i] = s PROVE FALSE
      <4>1. i + 1 \in 1..Len(q) /\ q[i + 1] = q[1] /\ i + 1 # 1
        BY <1>6, <3>1
      <4> QED BY <1>6, <1>7, <4>1
    <3> QED BY <3>1
  <2> QED BY <1>5, <1>8, <2>1, <2>2 DEF InLane
<1>10. ASSUME NEW r \in Sends \ {s} PROVE InLane(r)' <=> InLane(r)
  <2>1. CASE LaneOf[r] = k
    <3>1. (\E i \in 1..Len(t) : t[i] = r) => (\E i \in 1..Len(q) : q[i] = r)
      <4>1. ASSUME NEW i \in 1..Len(t), t[i] = r
            PROVE  \E j \in 1..Len(q) : q[j] = r
        <5>1. i + 1 \in 1..Len(q) /\ q[i + 1] = r
          BY <1>6, <4>1
        <5> QED BY <5>1
      <4> QED BY <4>1
    <3>2. (\E i \in 1..Len(q) : q[i] = r) => (\E i \in 1..Len(t) : t[i] = r)
      BY <1>6, Zenon
    <3> QED BY <1>2, <1>5, <2>1, <3>1, <3>2 DEF InLane
  <2>2. CASE LaneOf[r] # k
    <3>1. LaneOf[r] \in Lanes
      BY SendsAssumption
    <3> QED BY <1>5, <2>2, <3>1 DEF InLane
  <2> QED BY <2>1, <2>2
<1>11. \A l \in Lanes : Charged(l)' = Charged(l)
  <2>1. ASSUME NEW l \in Lanes, NEW r \in Sends
        PROVE  r \in Charged(l)' <=> r \in Charged(l)
    <3>1. r \in Charged(l)' <=> LaneOf[r] = l /\ (pc'[r] \in Held \/ (wpc' = "release" /\ frame' = r) \/ InLane(r)')
      BY DEF Charged, InLane, Held
    <3>2. r \in Charged(l) <=> LaneOf[r] = l /\ (pc[r] \in Held \/ (wpc = "release" /\ frame = r) \/ InLane(r))
      BY ChargedFrames
    <3>3. CASE r = s
      BY <1>5, <1>9, <3>1, <3>2, <3>3
    <3>4. CASE r # s
      BY <1>5, <1>10, <3>1, <3>2, <3>4
    <3> QED BY <3>3, <3>4
  <2>2. \A l \in Lanes : Charged(l) \subseteq Sends /\ Charged(l)' \subseteq Sends
    BY DEF Charged
  <2> QED BY <2>1, <2>2
<1>12. OnePlace'
  <2>1. ASSUME NEW l \in Lanes, NEW i \in 1..Len(queue'[l])
        PROVE  LaneOf[queue'[l][i]] = l /\ pc'[queue'[l][i]] \in Past
    <3>1. CASE l = k
      <4>1. i + 1 \in 1..Len(q) /\ queue'[l][i] = q[i + 1]
        BY <1>5, <1>6, <3>1
      <4> QED BY <1>7, <3>1, <4>1
    <3>2. CASE l # k
      BY <1>5, <3>2 DEF ChargeInv, OnePlace
    <3> QED BY <3>1, <3>2
  <2>2. ASSUME NEW l \in Lanes, NEW i \in 1..Len(queue'[l]), NEW j \in 1..Len(queue'[l]),
               queue'[l][i] = queue'[l][j]
        PROVE  i = j
    <3>1. CASE l = k
      <4>1. /\ i + 1 \in 1..Len(q) /\ queue'[l][i] = q[i + 1]
            /\ j + 1 \in 1..Len(q) /\ queue'[l][j] = q[j + 1]
        BY <1>5, <1>6, <3>1
      <4>2. i + 1 = j + 1
        BY <1>7, <2>2, <4>1
      <4> QED BY <4>2
    <3>2. CASE l # k
      BY <1>5, <2>2, <3>2 DEF ChargeInv, OnePlace
    <3> QED BY <3>1, <3>2
  <2>3. frame' \in Sends /\ pc'[frame'] \in Past /\ ~InLane(frame)'
    BY <1>5, <1>6, <1>8, <1>9 DEF InLane
  <2> QED BY <2>1, <2>2, <2>3 DEF OnePlace
<1>13. HandTypes'
  BY <1>5, <1>6 DEF ChargeInv, HandTypes
<1> QED BY <1>11, <1>12, <1>13, BooksStay DEF ChargeInv

\* The release gives back the bytes of the frame in hand, which is nowhere else.
LEMMA ReleaseKeepsCharges ==
  ASSUME WInv, ChargeInv, Release
  PROVE  ChargeInv'
<1>1. PICK s \in Sends : s = frame /\ pc[s] \in Past /\ ~InLane(s)
  BY DEF Release, ChargeInv, OnePlace
<1>2. /\ bytes' = [bytes EXCEPT ![LaneOf[s]] = @ - Size[s]] /\ wpc = "release" /\ wpc' = "write"
      /\ UNCHANGED <<pc, queue, frame, fired, written>>
  BY <1>1 DEF Release, Released
<1>3. LaneOf[s] \in Lanes /\ pc[s] \notin Held
  BY <1>1, SendsAssumption DEF Past, Held
<1>4. s \in Charged(LaneOf[s])
  BY <1>1, <1>2, <1>3, ChargedFrames
<1>5. \A r \in Sends : InLane(r)' <=> InLane(r)
  BY <1>2 DEF InLane
<1>6. ASSUME NEW l \in Lanes, NEW r \in Sends
      PROVE  r \in Charged(l)' <=> r \in Charged(l) /\ r # s
  <2>1. r \in Charged(l)' <=> LaneOf[r] = l /\ (pc'[r] \in Held \/ (wpc' = "release" /\ frame' = r) \/ InLane(r)')
    BY DEF Charged, InLane, Held
  <2>2. r \in Charged(l) <=> LaneOf[r] = l /\ (pc[r] \in Held \/ (wpc = "release" /\ frame = r) \/ InLane(r))
    BY ChargedFrames
  <2> QED BY <1>1, <1>2, <1>3, <1>5, <2>1, <2>2
<1>7. /\ Charged(LaneOf[s])' = Charged(LaneOf[s]) \ {s}
      /\ \A l \in Lanes \ {LaneOf[s]} : Charged(l)' = Charged(l)
  <2>1. \A l \in Lanes : Charged(l) \subseteq Sends /\ Charged(l)' \subseteq Sends
    BY DEF Charged
  <2>2. \A l \in Lanes \ {LaneOf[s]} : s \notin Charged(l)
    BY ChargedFrames
  <2> QED BY <1>3, <1>6, <2>1, <2>2
<1>8. OnePlace'
  BY <1>2 DEF ChargeInv, OnePlace
<1>9. HandTypes'
  BY <1>1, <1>2 DEF ChargeInv, HandTypes
<1> QED BY <1>2, <1>4, <1>7, <1>8, <1>9, BooksGiveBack DEF ChargeInv

\* Every step keeps the books.
LEMMA StepKeepsCharges ==
  ASSUME WInv, ChargeInv, [Next]_vars
  PROVE  ChargeInv'
<1>0. pc \in [Sends -> SendPc] /\ wpc \in WriterPc
  BY DEF WInv, Shape
<1>1. ASSUME NEW s \in Sends, Check(s) \/ Notify(s) \/ SendFailClosed(s) PROVE ChargeInv'
  <2>1. /\ queue' = queue /\ bytes' = bytes /\ UNCHANGED <<frame, fired, written>>
        /\ wpc' \in {wpc, "woken"} /\ (wpc' # wpc => wpc = "waiting")
    BY <1>1 DEF Check, Notify, SendFailClosed, Bump, wvars
  <2>2. \A r \in Sends : (pc'[r] \in Held <=> pc[r] \in Held) /\ (pc[r] \in Past => pc'[r] \in Past)
    BY <1>0, <1>1 DEF Check, Notify, SendFailClosed, Pending, Goto, Held, Past
  <2>3. HandTypes'
    BY <2>1 DEF ChargeInv, HandTypes
  <2> QED BY <2>1, <2>2, <2>3, QuietKeepsCharges
<1>2. ASSUME NEW s \in Sends, Reserve(s) PROVE ChargeInv'
  <2>1. CASE OverBudget(s)
    <3>1. /\ queue' = queue /\ bytes' = bytes /\ UNCHANGED <<frame, fired, written, wpc>>
          /\ \A r \in Sends : (pc'[r] \in Held <=> pc[r] \in Held) /\ (pc[r] \in Past => pc'[r] \in Past)
      BY <1>0, <1>2, <2>1 DEF Reserve, Goto, Held, Past, wvars
    <3>2. HandTypes'
      BY <3>1 DEF ChargeInv, HandTypes
    <3> QED BY <3>1, <3>2, QuietKeepsCharges
  <2>2. CASE ~OverBudget(s)
    BY <1>2, <2>2, ReserveKeepsCharges
  <2> QED BY <2>1, <2>2
<1>3. ASSUME NEW s \in Sends, Recheck(s) PROVE ChargeInv'
  <2>0. pc[s] \in Held /\ UNCHANGED <<queue, wpc, frame, fired, written>>
    BY <1>3 DEF Recheck, Held, wvars
  <2>1. CASE Closed
    <3>1. GiveBack(s) /\ Goto(s, "done")
      BY <1>3, <2>1 DEF Recheck
    <3> QED BY <2>0, <3>1, GiveBackKeepsCharges
  <2>2. CASE ~Closed
    <3>1. /\ bytes' = bytes
          /\ \A r \in Sends : (pc'[r] \in Held <=> pc[r] \in Held) /\ (pc[r] \in Past => pc'[r] \in Past)
      BY <1>0, <1>3, <2>2 DEF Recheck, Goto, Held, Past
    <3>2. HandTypes'
      BY <2>0 DEF ChargeInv, HandTypes
    <3> QED BY <2>0, <3>1, <3>2, QuietKeepsCharges
  <2> QED BY <2>1, <2>2
<1>4. ASSUME NEW s \in Sends, Push(s) PROVE ChargeInv'
  <2>0. pc[s] = "push" /\ pc[s] \in Held /\ UNCHANGED <<wpc, frame, fired, written>>
    BY <1>4 DEF Push, Held, wvars
  <2>1. CASE wpc # "exit" /\ Len(queue[LaneOf[s]]) < Capacity[LaneOf[s]]
    <3>1. queue' = [queue EXCEPT ![LaneOf[s]] = Append(@, s)] /\ Goto(s, "notify") /\ bytes' = bytes
      BY <1>4, <2>1 DEF Push
    <3> QED BY <2>0, <3>1, PushKeepsCharges
  <2>2. CASE ~(wpc # "exit" /\ Len(queue[LaneOf[s]]) < Capacity[LaneOf[s]])
    <3>1. PICK label \in {"done", "failclosed"} : Goto(s, label) /\ GiveBack(s) /\ queue' = queue
      BY <1>4, <2>2 DEF Push
    <3> QED BY <2>0, <3>1, GiveBackKeepsCharges
  <2> QED BY <2>1, <2>2
<1>5. ASSUME NEW k \in Lanes, NEW b, NEW p, NEW other, other # "release", other # "write",
             TryRecv(k, b, p, other), wpc # "release"
      PROVE  ChargeInv'
  <2>1. CASE queue[k] # << >>
    <3>1. /\ frame' = Head(queue[k]) /\ queue' = [queue EXCEPT ![k] = Tail(@)] /\ wpc' = "release"
          /\ UNCHANGED <<pc, bytes, fired, written>>
      BY <1>5, <2>1 DEF TryRecv
    <3> QED BY <1>5, <2>1, <3>1, TakeKeepsCharges
  <2>2. CASE queue[k] = << >>
    <3>1. wpc' = other /\ UNCHANGED <<pc, queue, bytes, frame, fired, written>>
      BY <1>5, <2>2 DEF TryRecv
    <3>2. HandTypes'
      BY <1>5, <3>1 DEF ChargeInv, HandTypes
    <3> QED BY <1>5, <3>1, <3>2, QuietKeepsCharges
  <2> QED BY <2>1, <2>2
<1>6. CASE TakeDataFirst \/ TakeControl \/ TakeData
  <2>1. "data" \in Lanes /\ "control" \in Lanes
    BY DEF Lanes
  <2>2. CASE TakeDataFirst
    BY <1>5, <2>1, <2>2 DEF TakeDataFirst
  <2>3. CASE TakeControl
    BY <1>5, <2>1, <2>3 DEF TakeControl
  <2>4. CASE TakeData
    BY <1>5, <2>1, <2>4 DEF TakeData
  <2> QED BY <1>6, <2>2, <2>3, <2>4
<1>7. CASE Release
  BY <1>7, ReleaseKeepsCharges
<1>8. CASE \/ CloseElsewhere \/ CloseWriter \/ WatchdogFailClosed \/ WriterStart \/ WriterLoop \/ Park
           \/ Resume("woken") \/ Resume("waiting") \/ AfterWrite \/ WriterFailClosed \/ WriteOk \/ WriteFails
           \/ Watchdog \/ UNCHANGED vars
  <2>1. pc' = pc /\ queue' = queue /\ bytes' = bytes
    BY <1>8 DEF CloseElsewhere, CloseWriter, WatchdogFailClosed, WriterStart, WriterLoop, Park, Resume,
                AfterWrite, WriterFailClosed, WriteOk, WriteFails, Watchdog, vars
  <2>2. /\ wpc = "release" <=> wpc' = "release"
        /\ wpc' = "write" => wpc = "write" /\ frame' = frame
        /\ wpc = "release" => frame' = frame
        /\ frame' \in {frame, NoFrame} /\ fired' \in {fired, TRUE}
        /\ written' = written \/ (wpc = "write" /\ written' = written \cup {frame})
    BY <1>8 DEF CloseElsewhere, CloseWriter, WatchdogFailClosed, WriterStart, WriterLoop, Park, Resume,
                AfterWrite, WriterFailClosed, WriteOk, WriteFails, Watchdog, vars, wvars, Bump
  <2>3. HandTypes'
    BY <2>2 DEF ChargeInv, HandTypes
  <2> QED BY <2>1, <2>2, <2>3, QuietKeepsCharges
<1> QED BY <1>1, <1>2, <1>3, <1>4, <1>6, <1>7, <1>8 DEF Next, SendStep, WriterStep

\* Both invariants hold in every reachable state.
LEMMA ChargesHold == Spec => [](WInv /\ ChargeInv)
<1>1. ASSUME Init PROVE ChargeInv
  <2>1. \A l \in Lanes : queue[l] = << >> /\ Len(queue[l]) = 0 /\ bytes[l] = 0
    BY <1>1 DEF Init
  <2>2. \A l \in Lanes : Charged(l) = {}
    <3>1. wpc # "release" /\ \A s \in Sends : pc[s] = "idle"
      BY <1>1 DEF Init
    <3> QED BY <2>1, <3>1 DEF Charged
  <2>3. IsFiniteSet({}) /\ Total({}) = 0
    BY FS_EmptySet, TotalChanges
  <2>4. bytes \in [Lanes -> Nat]
    BY <1>1 DEF Init
  <2>5. \A l \in Lanes : bytes[l] <= MaxBytes[l]
    BY <2>1, LanesAssumption
  <2>6. Books
    BY <2>1, <2>2, <2>3, <2>4, <2>5 DEF Books
  <2>7. OnePlace
    <3>1. \A l \in Lanes : 1..Len(queue[l]) = {}
      BY <2>1
    <3>2. wpc # "release"
      BY <1>1 DEF Init
    <3> QED BY <3>1, <3>2, Zenon DEF OnePlace
  <2>8. HandTypes
    BY <1>1 DEF Init, HandTypes
  <2> QED BY <2>6, <2>7, <2>8 DEF ChargeInv
<1>2. WInv /\ ChargeInv /\ [Next]_vars => ChargeInv'
  BY StepKeepsCharges
<1> QED BY <1>1, <1>2, WriterInvariance, PTL DEF Spec

\* However sends, refusals and the actor interleave, a lane's byte counter is exactly
\* the frames it is charged for, and never leaves its budget: no failed send leaks
\* budget, none gives back twice (reserve_bytes, send, release).
THEOREM LanesAlwaysAgree == Spec => []LanesAgree
<1>1. WInv /\ ChargeInv => LanesAgree
  <2> SUFFICES ASSUME WInv, ChargeInv PROVE LanesAgree
    OBVIOUS
  <2>1. \A l \in Lanes : bytes[l] \in 0..MaxBytes[l]
    <3>1. \A l \in Lanes : bytes[l] \in Nat /\ MaxBytes[l] \in Nat /\ bytes[l] <= MaxBytes[l]
      BY LanesAssumption DEF ChargeInv, Books
    <3> QED BY <3>1
  <2>2. DOMAIN bytes = Lanes
    BY DEF ChargeInv, Books
  <2>3. TypeOK
    BY <2>1, <2>2 DEF TypeOK, WInv, Shape, ChargeInv, HandTypes
  <2>4. BytesAgree
    BY DEF BytesAgree, ChargeInv, Books, Total
  <2> QED BY <2>3, <2>4 DEF LanesAgree
<1> QED BY <1>1, ChargesHold, PTL
=============================================================================
