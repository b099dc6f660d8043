--------------------------- MODULE SessionProofs ---------------------------
(***************************************************************************)
(* The parts around one sidecar session, for every number of threads,       *)
(* references, servers, faults and frames: the writer's join handle, the    *)
(* promotion to ready, the end of the process tree, and the secrets.        *)
(***************************************************************************)
EXTENDS SessionHandle, Handshake, ProcessTree, Secrets, TLAPS

(* The join handle.                                                        *)

Joining == {"look", "wait", "sleep"}

\* A thread inside close_until or drop owns a clone, and the one that waits for the
\* writer is the one that took the handle.
HandleInv ==
  /\ HandleTypeOK /\ HandleNotLost
  /\ \A h \in Holders : pc[h] # "idle" => h \in owners
  /\ \A h \in Holders : pc[h] \in Joining => handle = h

\* The join handle is in nobody's hands but a thread's.
LEMMA HoldersAreThreads ==
  ASSUME NEW h \in Holders PROVE h # InState /\ h # Joined /\ h # Nowhere
BY HoldersAssumption

\* A session starts with the handle in its slot.
LEMMA HandleInvInit == HandleInit => HandleInv
BY HoldersAssumption DEF HandleInit, HandleInv, HandleTypeOK, HandleNotLost, Joining

\* The steps of the clones, of close_until and of drop.
LEMMA HandleInvThread ==
  ASSUME HandleInv, NEW h \in Holders,
         \/ \E g \in Holders : Clone(h, g)
         \/ Close(h) \/ DropClone(h) \/ Release(h) \/ Take(h) \/ Look(h) \/ Wait(h) \/ TimeOut(h)
  PROVE  HandleInv'
<1> USE DEF HandleInv, Goto, Joining
<1>1. CASE \E g \in Holders : Clone(h, g)
  <2>1. HandleTypeOK'
    BY <1>1 DEF Clone, HandleTypeOK
  <2>2. HandleNotLost'
    BY <1>1 DEF Clone, HandleNotLost, WriterDone
  <2> QED
    BY <1>1, <2>1, <2>2 DEF Clone
<1>2. CASE Close(h)
  <2>1. HandleTypeOK'
    BY <1>2 DEF Close, HandleTypeOK
  <2>2. handle # h
    BY <1>2, HoldersAreThreads DEF Close, HandleNotLost
  <2>3. HandleNotLost'
    BY <1>2, <2>2 DEF Close, HandleNotLost, HandleTypeOK, WriterDone
  <2> QED
    BY <1>2, <2>1, <2>3 DEF Close, HandleTypeOK
<1>3. CASE DropClone(h)
  <2>1. HandleTypeOK'
    BY <1>3 DEF DropClone, Counted, HandleTypeOK
  <2>2. handle # h
    BY <1>3, HoldersAreThreads DEF DropClone, HandleNotLost
  <2>3. HandleNotLost'
    BY <1>3, <2>2 DEF DropClone, Counted, HandleNotLost, HandleTypeOK, WriterDone
  <2> QED
    BY <1>3, <2>1, <2>3 DEF DropClone, Counted, HandleTypeOK
<1>4. CASE Release(h)
  <2>1. HandleTypeOK'
    BY <1>4 DEF Release, HandleTypeOK
  <2>2. h \in owners
    BY <1>4 DEF Release
  <2>3. handle # h
    BY <1>4, <2>2, HoldersAreThreads DEF Release, HandleNotLost
  <2>4. HandleNotLost'
    <3> SUFFICES ASSUME owners' # {} PROVE HandleNotLost'
      BY DEF HandleNotLost
    <3>1. owners # {h} /\ handle' = handle
      BY <1>4 DEF Release
    <3> QED
      BY <1>4, <2>2, <2>3, <3>1 DEF Release, HandleNotLost, HandleTypeOK, WriterDone
  <2>5. \A g \in Holders : pc'[g] # "idle" => g \in owners'
    BY <1>4 DEF Release, HandleTypeOK
  <2>6. \A g \in Holders : pc'[g] \in Joining => handle' = g
    BY <1>4, HoldersAreThreads DEF Release, HandleTypeOK
  <2> QED
    BY <2>1, <2>4, <2>5, <2>6
<1>5. CASE Take(h)
  <2>0. h \in owners
    BY <1>5 DEF Take
  <2>1. HandleTypeOK'
    BY <1>5 DEF Take, Finish, HandleTypeOK
  <2>2. handle # h
    BY <1>5, <2>0, HoldersAreThreads DEF Take, HandleNotLost
  <2>3. HandleNotLost'
    BY <1>5, <2>0, <2>2 DEF Take, Finish, HandleNotLost, HandleTypeOK, WriterDone
  <2>4. \A g \in Holders : pc'[g] # "idle" => g \in owners'
    BY <1>5, <2>0 DEF Take, Finish, HandleTypeOK
  <2>5. \A g \in Holders : pc'[g] \in Joining => handle' = g
    BY <1>5, HoldersAreThreads DEF Take, Finish, HandleTypeOK
  <2> QED
    BY <2>1, <2>3, <2>4, <2>5
<1>6. CASE Look(h)
  <2>0. h \in owners /\ handle = h
    BY <1>6 DEF Look
  <2>1. HandleTypeOK'
    BY <1>6 DEF Look, Finish, HandleTypeOK
  <2>2. HandleNotLost'
    BY <1>6, <2>0 DEF Look, Finish, HandleNotLost, HandleTypeOK, WriterDone
  <2>3. \A g \in Holders : pc'[g] # "idle" => g \in owners'
    BY <1>6, <2>0 DEF Look, Finish, HandleTypeOK
  <2>4. \A g \in Holders : pc'[g] \in Joining => handle' = g
    BY <1>6, <2>0 DEF Look, Finish, HandleTypeOK
  <2> QED
    BY <2>1, <2>2, <2>3, <2>4
<1>7. CASE Wait(h)
  <2>1. HandleTypeOK'
    BY <1>7 DEF Wait, HandleTypeOK
  <2>2. HandleNotLost'
    BY <1>7 DEF Wait, HandleNotLost, HandleTypeOK, WriterDone
  <2> QED
    BY <1>7, <2>1, <2>2 DEF Wait, HandleTypeOK
<1>8. CASE TimeOut(h)
  <2>0. h \in owners /\ handle = h
    BY <1>8 DEF TimeOut
  <2>1. HandleTypeOK'
    BY <1>8 DEF TimeOut, PutBack, Finish, HandleTypeOK
  <2>2. HandleNotLost'
    BY <1>8, <2>0 DEF TimeOut, PutBack, Finish, HandleNotLost, HandleTypeOK, WriterDone
  <2>3. \A g \in Holders : pc'[g] # "idle" => g \in owners'
    BY <1>8, <2>0 DEF TimeOut, Finish, HandleTypeOK
  <2>4. \A g \in Holders : pc'[g] \in Joining => handle' = g
    BY <1>8, <2>0 DEF TimeOut, Finish, HandleTypeOK
  <2> QED
    BY <2>1, <2>2, <2>3, <2>4
<1> QED
  BY <1>1, <1>2, <1>3, <1>4, <1>5, <1>6, <1>7, <1>8

\* The close from elsewhere, and the writer's own two steps.
LEMMA HandleInvWriter ==
  ASSUME HandleInv, CloseElsewhere \/ WriterReturns \/ NotifyAll \/ UNCHANGED handleVars
  PROVE  HandleInv'
<1> USE DEF HandleInv, Joining
<1>1. CASE CloseElsewhere \/ WriterReturns \/ UNCHANGED handleVars
  BY <1>1 DEF CloseElsewhere, WriterReturns, handleVars, HandleTypeOK, HandleNotLost, WriterDone
<1>2. CASE NotifyAll
  <2>1. HandleTypeOK'
    BY <1>2 DEF NotifyAll, HandleTypeOK
  <2>2. HandleNotLost'
    BY <1>2 DEF NotifyAll, HandleNotLost, HandleTypeOK, WriterDone
  <2> QED
    BY <1>2, <2>1, <2>2 DEF NotifyAll, HandleTypeOK
<1> QED
  BY <1>1, <1>2

\* HandleIsKept: however clones are made, closed and dropped, and whenever their
\* deadlines pass, a running writer can still be joined while a clone is left
\* (join_writer_state_until puts the handle back).
THEOREM HandleStaysKept == HandleSpec => []HandleIsKept
<1>1. HandleInv /\ [HandleNext]_handleVars => HandleInv'
  BY HandleInvThread, HandleInvWriter DEF HandleNext
<1>2. HandleInv => HandleIsKept
  BY DEF HandleInv, HandleIsKept
<1> QED
  BY HandleInvInit, <1>1, <1>2, PTL DEF HandleSpec

-----------------------------------------------------------------------------
(* The promotion to ready.                                                 *)

StarterAts == {"request", "waiting", "notify", "pump", "gate", "checking", "marking",
               "ready", "failing", "failed"}

StarterStates == [at : StarterAts, life : {"starting", "ready", "faulted", "incompatible"},
                  verdict : {"faulted", "incompatible"}]
OnceStates == [sent : BOOLEAN, claimed : BOOLEAN, consumed : BOOLEAN]
PenStates == [at : {"idle", "writing", "joining", "failing", "dead"}, ok : BOOLEAN, queued : BOOLEAN]
SidecarStates == [alive : BOOLEAN, heard : BOOLEAN, asked : BOOLEAN, sent : Nat]

HandshakeTypes ==
  /\ starter \in StarterStates /\ once \in OnceStates /\ pen \in PenStates /\ sidecar \in SidecarStates
  /\ barrier \in {"NotSent", "Sending", "Confirmed", "Failed"}
  /\ gate \in {"free", "starter"}
  /\ hsClosed \in BOOLEAN
  /\ dog \in {"off", "armed", "fired", "done"}

\* The gate is the promotion's from its first check to its mark, and no fault closes the
\* session in between.
GateIsHeld ==
  /\ gate = "starter" <=> starter.at \in {"checking", "marking"}
  /\ starter.at \in {"checking", "marking"} => ~hsClosed

\* A confirmed barrier is final: the frame was heard, and the watchdog was put away.
ConfirmedIsFinal ==
  /\ BarrierHeld => barrier = "Sending"
  /\ pen.ok => sidecar.heard
  /\ barrier = "Confirmed" => sidecar.heard /\ dog = "off"

\* What the promotion found, it still has when it marks.
MarkingIsBacked == starter.at = "marking" => barrier = "Confirmed" /\ once.consumed

HandshakeInv == HandshakeTypes /\ GateIsHeld /\ ConfirmedIsFinal /\ MarkingIsBacked

\* check_initialize_result never promotes by itself.
LEMMA VerdictType == ASSUME NEW f PROVE ReplyVerdict(f) \in {"incompatible", "faulted", "accepted"}
BY DEF ReplyVerdict

\* What a promotion has found when it marks the lifecycle ready.
Genuine ==
  starter'.life = "ready" /\ starter.life # "ready" =>
    ~hsClosed /\ barrier = "Confirmed" /\ sidecar.heard /\ once.consumed /\ dog # "fired"

\* A start begins unready.
LEMMA HandshakeInvInit == HandshakeInit => HandshakeInv
<1> SUFFICES ASSUME HandshakeInit PROVE HandshakeInv
  OBVIOUS
<1>1. starter \in StarterStates
  BY DEF HandshakeInit, StarterStates, StarterAts
<1>2. once \in OnceStates
  BY DEF HandshakeInit, OnceStates
<1>3. pen \in PenStates
  BY DEF HandshakeInit, PenStates
<1>4. sidecar \in SidecarStates
  BY DEF HandshakeInit, SidecarStates
<1>5. HandshakeTypes
  BY <1>1, <1>2, <1>3, <1>4 DEF HandshakeInit, HandshakeTypes
<1>6. GateIsHeld /\ ConfirmedIsFinal /\ MarkingIsBacked
  BY DEF HandshakeInit, GateIsHeld, ConfirmedIsFinal, MarkingIsBacked, BarrierHeld
<1> QED
  BY <1>5, <1>6 DEF HandshakeInv

\* The supervisor's thread outside the promotion.
LEMMA HandshakeInvStarter ==
  ASSUME HandshakeInv,
         StarterAsks \/ StarterJudges \/ StarterNotifies \/ StarterPumps \/ StarterExpires
  PROVE  HandshakeInv' /\ (starter'.life = "ready" => starter.life = "ready")
<1> USE DEF HandshakeInv
<1>1. CASE StarterAsks
  <2>1. starter' \in StarterStates
    BY <1>1 DEF StarterAsks, HandshakeTypes, StarterStates, StarterAts, Moves, Fails,
       SessionKeeps, WriterKeeps
  <2>2. sidecar' \in SidecarStates
    BY <1>1 DEF StarterAsks, HandshakeTypes, SidecarStates, Moves, Fails, SessionKeeps,
       WriterKeeps
  <2>3. HandshakeTypes'
    BY <1>1, <2>1, <2>2 DEF StarterAsks, HandshakeTypes, Moves, Fails, SessionKeeps, WriterKeeps
  <2>4. GateIsHeld'
    BY <1>1 DEF StarterAsks, HandshakeTypes, StarterStates, StarterAts, SidecarStates,
       GateIsHeld, Moves, Fails, SessionKeeps, WriterKeeps
  <2>5. ConfirmedIsFinal'
    BY <1>1 DEF StarterAsks, HandshakeTypes, StarterStates, StarterAts, SidecarStates,
       ConfirmedIsFinal, BarrierHeld, Moves, Fails, SessionKeeps, WriterKeeps
  <2>6. MarkingIsBacked'
    BY <1>1 DEF StarterAsks, HandshakeTypes, StarterStates, StarterAts, SidecarStates,
       MarkingIsBacked, ConfirmedIsFinal, BarrierHeld, Moves, Fails, SessionKeeps, WriterKeeps
  <2>7. starter'.life = "ready" => starter.life = "ready"
    BY <1>1 DEF StarterAsks, HandshakeTypes, StarterStates, StarterAts, Moves, Fails,
       SessionKeeps, WriterKeeps
  <2> QED
    BY <2>3, <2>4, <2>5, <2>6, <2>7
<1>2. CASE StarterJudges
  <2>1. starter' \in StarterStates
    BY <1>2, VerdictType DEF StarterJudges, HandshakeTypes, StarterStates, StarterAts, Moves,
       Fails, SessionKeeps, WriterKeeps
  <2>2. HandshakeTypes'
    BY <1>2, <2>1 DEF StarterJudges, HandshakeTypes, Moves, Fails, SessionKeeps, WriterKeeps
  <2>3. GateIsHeld'
    BY <1>2 DEF StarterJudges, HandshakeTypes, StarterStates, StarterAts, GateIsHeld, Moves,
       Fails, SessionKeeps, WriterKeeps
  <2>4. ConfirmedIsFinal'
    BY <1>2 DEF StarterJudges, HandshakeTypes, StarterStates, StarterAts, ConfirmedIsFinal,
       BarrierHeld, Moves, Fails, SessionKeeps, WriterKeeps
  <2>5. MarkingIsBacked'
    BY <1>2 DEF StarterJudges, HandshakeTypes, StarterStates, StarterAts, MarkingIsBacked,
       ConfirmedIsFinal, BarrierHeld, Moves, Fails, SessionKeeps, WriterKeeps
  <2>6. starter'.life = "ready" => starter.life = "ready"
    BY <1>2, VerdictType DEF StarterJudges, HandshakeTypes, StarterStates, StarterAts, Moves,
       Fails, SessionKeeps, WriterKeeps
  <2> QED
    BY <2>2, <2>3, <2>4, <2>5, <2>6
<1>3. CASE StarterNotifies
  <2>1. starter' \in StarterStates
    BY <1>3 DEF StarterNotifies, HandshakeTypes, StarterStates, StarterAts, Moves, Fails,
       SessionKeeps, WriterKeeps
  <2>2. once' \in OnceStates
    BY <1>3 DEF StarterNotifies, HandshakeTypes, OnceStates, Moves, Fails, SessionKeeps,
       WriterKeeps
  <2>3. pen' \in PenStates
    BY <1>3 DEF StarterNotifies, HandshakeTypes, PenStates, Moves, Fails, SessionKeeps,
       WriterKeeps
  <2>4. HandshakeTypes'
    BY <1>3, <2>1, <2>2, <2>3 DEF StarterNotifies, HandshakeTypes, Moves, Fails, SessionKeeps,
       WriterKeeps
  <2>5. GateIsHeld'
    BY <1>3 DEF StarterNotifies, HandshakeTypes, StarterStates, StarterAts, OnceStates,
       PenStates, GateIsHeld, Moves, Fails, SessionKeeps, WriterKeeps
  <2>6. ConfirmedIsFinal'
    BY <1>3 DEF StarterNotifies, HandshakeTypes, StarterStates, StarterAts, OnceStates,
       PenStates, ConfirmedIsFinal, BarrierHeld, Moves, Fails, SessionKeeps, WriterKeeps
  <2>7. MarkingIsBacked'
    BY <1>3 DEF StarterNotifies, HandshakeTypes, StarterStates, StarterAts, OnceStates,
       PenStates, MarkingIsBacked, ConfirmedIsFinal, BarrierHeld, Moves, Fails, SessionKeeps,
    WriterKeeps
  <2>8. starter'.life = "ready" => starter.life = "ready"
    BY <1>3 DEF StarterNotifies, HandshakeTypes, StarterStates, StarterAts, Moves, Fails,
       SessionKeeps, WriterKeeps
  <2> QED
    BY <2>4, <2>5, <2>6, <2>7, <2>8
<1>4. CASE StarterPumps
  <2>1. starter' \in StarterStates
    BY <1>4 DEF StarterPumps, HandshakeTypes, StarterStates, StarterAts, Moves, Fails,
       SessionKeeps, WriterKeeps
  <2>2. HandshakeTypes'
    BY <1>4, <2>1 DEF StarterPumps, HandshakeTypes, Moves, Fails, SessionKeeps, WriterKeeps
  <2>3. GateIsHeld'
    BY <1>4 DEF StarterPumps, HandshakeTypes, StarterStates, StarterAts, GateIsHeld, Moves,
       Fails, SessionKeeps, WriterKeeps
  <2>4. ConfirmedIsFinal'
    BY <1>4 DEF StarterPumps, HandshakeTypes, StarterStates, StarterAts, ConfirmedIsFinal,
       BarrierHeld, Moves, Fails, SessionKeeps, WriterKeeps
  <2>5. MarkingIsBacked'
    BY <1>4 DEF StarterPumps, HandshakeTypes, StarterStates, StarterAts, MarkingIsBacked,
       ConfirmedIsFinal, BarrierHeld, Moves, Fails, SessionKeeps, WriterKeeps
  <2>6. starter'.life = "ready" => starter.life = "ready"
    BY <1>4 DEF StarterPumps, HandshakeTypes, StarterStates, StarterAts, Moves, Fails,
       SessionKeeps, WriterKeeps
  <2> QED
    BY <2>2, <2>3, <2>4, <2>5, <2>6
<1>5. CASE StarterExpires
  <2>1. starter' \in StarterStates
    BY <1>5 DEF StarterExpires, HandshakeTypes, StarterStates, StarterAts, Moves, Fails,
       SessionKeeps, WriterKeeps
  <2>2. HandshakeTypes'
    BY <1>5, <2>1 DEF StarterExpires, HandshakeTypes, Moves, Fails, SessionKeeps, WriterKeeps
  <2>3. GateIsHeld'
    BY <1>5 DEF StarterExpires, HandshakeTypes, StarterStates, StarterAts, GateIsHeld, Moves,
       Fails, SessionKeeps, WriterKeeps
  <2>4. ConfirmedIsFinal'
    BY <1>5 DEF StarterExpires, HandshakeTypes, StarterStates, StarterAts, ConfirmedIsFinal,
       BarrierHeld, Moves, Fails, SessionKeeps, WriterKeeps
  <2>5. MarkingIsBacked'
    BY <1>5 DEF StarterExpires, HandshakeTypes, StarterStates, StarterAts, MarkingIsBacked,
       ConfirmedIsFinal, BarrierHeld, Moves, Fails, SessionKeeps, WriterKeeps
  <2>6. starter'.life = "ready" => starter.life = "ready"
    BY <1>5 DEF StarterExpires, HandshakeTypes, StarterStates, StarterAts, Moves, Fails,
       SessionKeeps, WriterKeeps
  <2> QED
    BY <2>2, <2>3, <2>4, <2>5, <2>6
<1> QED
  BY <1>1, <1>2, <1>3, <1>4, <1>5

\* The promotion: the gate keeps every fault out from its first check to its mark.
LEMMA HandshakeInvPromotion ==
  ASSUME HandshakeInv, PromotionEnters \/ PromotionChecks \/ PromotionMarks \/ StarterFails
  PROVE  HandshakeInv' /\ Genuine
<1> USE DEF HandshakeInv
<1>1. CASE PromotionEnters
  <2>1. starter' \in StarterStates
    BY <1>1 DEF PromotionEnters, HandshakeTypes, StarterStates, StarterAts, Moves, Fails,
       SessionKeeps, WriterKeeps
  <2>2. HandshakeTypes'
    BY <1>1, <2>1 DEF PromotionEnters, HandshakeTypes, Moves, Fails, SessionKeeps, WriterKeeps
  <2>3. GateIsHeld'
    BY <1>1 DEF PromotionEnters, HandshakeTypes, StarterStates, StarterAts, GateIsHeld, Moves,
       Fails, SessionKeeps, WriterKeeps
  <2>4. ConfirmedIsFinal'
    BY <1>1 DEF PromotionEnters, HandshakeTypes, StarterStates, StarterAts, ConfirmedIsFinal,
       BarrierHeld, Moves, Fails, SessionKeeps, WriterKeeps
  <2>5. MarkingIsBacked'
    BY <1>1 DEF PromotionEnters, HandshakeTypes, StarterStates, StarterAts, MarkingIsBacked,
       ConfirmedIsFinal, BarrierHeld, Moves, Fails, SessionKeeps, WriterKeeps
  <2>6. Genuine
    BY <1>1 DEF PromotionEnters, Genuine, GateIsHeld, ConfirmedIsFinal, MarkingIsBacked,
       HandshakeTypes, StarterStates, StarterAts, Moves, Fails, SessionKeeps, WriterKeeps
  <2> QED
    BY <2>2, <2>3, <2>4, <2>5, <2>6
<1>2. CASE PromotionChecks
  <2>1. starter' \in StarterStates
    BY <1>2 DEF PromotionChecks, HandshakeTypes, StarterStates, StarterAts, Moves, Fails,
       SessionKeeps, WriterKeeps
  <2>2. once' \in OnceStates
    BY <1>2 DEF PromotionChecks, HandshakeTypes, OnceStates, Moves, Fails, SessionKeeps,
       WriterKeeps
  <2>3. HandshakeTypes'
    BY <1>2, <2>1, <2>2 DEF PromotionChecks, HandshakeTypes, Moves, Fails, SessionKeeps,
       WriterKeeps
  <2>4. GateIsHeld'
    BY <1>2 DEF PromotionChecks, HandshakeTypes, StarterStates, StarterAts, OnceStates,
       GateIsHeld, Moves, Fails, SessionKeeps, WriterKeeps
  <2>5. ConfirmedIsFinal'
    BY <1>2 DEF PromotionChecks, HandshakeTypes, StarterStates, StarterAts, OnceStates,
       ConfirmedIsFinal, BarrierHeld, Moves, Fails, SessionKeeps, WriterKeeps
  <2>6. MarkingIsBacked'
    BY <1>2 DEF PromotionChecks, HandshakeTypes, StarterStates, StarterAts, OnceStates,
       MarkingIsBacked, ConfirmedIsFinal, BarrierHeld, Moves, Fails, SessionKeeps, WriterKeeps
  <2>7. Genuine
    BY <1>2 DEF PromotionChecks, Genuine, GateIsHeld, ConfirmedIsFinal, MarkingIsBacked,
       HandshakeTypes, StarterStates, StarterAts, Moves, Fails, SessionKeeps, WriterKeeps
  <2> QED
    BY <2>3, <2>4, <2>5, <2>6, <2>7
<1>3. CASE PromotionMarks
  <2>1. starter' \in StarterStates
    BY <1>3 DEF PromotionMarks, HandshakeTypes, StarterStates, StarterAts, Moves, Fails,
       SessionKeeps, WriterKeeps
  <2>2. HandshakeTypes'
    BY <1>3, <2>1 DEF PromotionMarks, HandshakeTypes, Moves, Fails, SessionKeeps, WriterKeeps
  <2>3. GateIsHeld'
    BY <1>3 DEF PromotionMarks, HandshakeTypes, StarterStates, StarterAts, GateIsHeld, Moves,
       Fails, SessionKeeps, WriterKeeps
  <2>4. ConfirmedIsFinal'
    BY <1>3 DEF PromotionMarks, HandshakeTypes, StarterStates, StarterAts, ConfirmedIsFinal,
       BarrierHeld, Moves, Fails, SessionKeeps, WriterKeeps
  <2>5. MarkingIsBacked'
    BY <1>3 DEF PromotionMarks, HandshakeTypes, StarterStates, StarterAts, MarkingIsBacked,
       ConfirmedIsFinal, BarrierHeld, Moves, Fails, SessionKeeps, WriterKeeps
  <2>6. Genuine
    BY <1>3 DEF PromotionMarks, Genuine, GateIsHeld, ConfirmedIsFinal, MarkingIsBacked,
       HandshakeTypes, StarterStates, StarterAts, Moves, Fails, SessionKeeps, WriterKeeps
  <2> QED
    BY <2>2, <2>3, <2>4, <2>5, <2>6
<1>4. CASE StarterFails
  <2>1. starter' \in StarterStates
    BY <1>4 DEF StarterFails, HandshakeTypes, StarterStates, StarterAts, Moves, Fails,
       SessionKeeps, WriterKeeps, FailClosed
  <2>2. sidecar' \in SidecarStates
    BY <1>4 DEF StarterFails, HandshakeTypes, SidecarStates, Moves, Fails, SessionKeeps,
       WriterKeeps, FailClosed
  <2>3. HandshakeTypes'
    BY <1>4, <2>1, <2>2 DEF StarterFails, HandshakeTypes, Moves, Fails, SessionKeeps,
       WriterKeeps, FailClosed
  <2>4. GateIsHeld'
    BY <1>4 DEF StarterFails, HandshakeTypes, StarterStates, StarterAts, SidecarStates,
       GateIsHeld, Moves, Fails, SessionKeeps, WriterKeeps, FailClosed
  <2>5. ConfirmedIsFinal'
    BY <1>4 DEF StarterFails, HandshakeTypes, StarterStates, StarterAts, SidecarStates,
       ConfirmedIsFinal, BarrierHeld, Moves, Fails, SessionKeeps, WriterKeeps, FailClosed
  <2>6. MarkingIsBacked'
    BY <1>4 DEF StarterFails, HandshakeTypes, StarterStates, StarterAts, SidecarStates,
       MarkingIsBacked, ConfirmedIsFinal, BarrierHeld, Moves, Fails, SessionKeeps, WriterKeeps,
    FailClosed
  <2>7. Genuine
    BY <1>4 DEF StarterFails, Genuine, GateIsHeld, ConfirmedIsFinal, MarkingIsBacked,
       HandshakeTypes, StarterStates, StarterAts, Moves, Fails, SessionKeeps, WriterKeeps,
    FailClosed
  <2> QED
    BY <2>3, <2>4, <2>5, <2>6, <2>7
<1> QED
  BY <1>1, <1>2, <1>3, <1>4

\* The writer confirms a frame that was heard in time; nobody takes that back.
LEMMA HandshakeInvPen ==
  ASSUME HandshakeInv, PenNext \/ DogNext
  PROVE  HandshakeInv' /\ starter' = starter
<1> USE DEF HandshakeInv
<1>1. CASE PenBegins
  <2>1. pen' \in PenStates
    BY <1>1 DEF PenBegins, HandshakeTypes, PenStates, StarterKeeps, SessionKeeps
  <2>2. HandshakeTypes'
    BY <1>1, <2>1 DEF PenBegins, HandshakeTypes, StarterKeeps, SessionKeeps
  <2>3. GateIsHeld'
    BY <1>1 DEF PenBegins, HandshakeTypes, PenStates, GateIsHeld, StarterKeeps, SessionKeeps
  <2>4. ConfirmedIsFinal'
    BY <1>1 DEF PenBegins, HandshakeTypes, PenStates, ConfirmedIsFinal, BarrierHeld,
       StarterKeeps, SessionKeeps
  <2>5. MarkingIsBacked'
    BY <1>1 DEF PenBegins, HandshakeTypes, PenStates, MarkingIsBacked, ConfirmedIsFinal,
       BarrierHeld, StarterKeeps, SessionKeeps
  <2>6. starter' = starter
    BY <1>1 DEF PenBegins, StarterKeeps, SessionKeeps
  <2> QED
    BY <2>2, <2>3, <2>4, <2>5, <2>6
<1>2. CASE PenReturns
  <2>0. sidecar.heard \in BOOLEAN
    BY DEF HandshakeTypes, SidecarStates
  <2>1. pen' \in PenStates
    BY <1>2, <2>0 DEF PenReturns, HandshakeTypes, PenStates
  <2>2. HandshakeTypes'
    BY <1>2, <2>1 DEF PenReturns, HandshakeTypes, StarterKeeps, SessionKeeps
  <2>3. GateIsHeld'
    BY <1>2 DEF PenReturns, HandshakeTypes, PenStates, GateIsHeld, StarterKeeps, SessionKeeps
  <2>4. ConfirmedIsFinal'
    BY <1>2 DEF PenReturns, HandshakeTypes, PenStates, ConfirmedIsFinal, BarrierHeld,
       StarterKeeps, SessionKeeps
  <2>5. MarkingIsBacked'
    BY <1>2 DEF PenReturns, HandshakeTypes, PenStates, MarkingIsBacked, ConfirmedIsFinal,
       BarrierHeld, StarterKeeps, SessionKeeps
  <2>6. starter' = starter
    BY <1>2 DEF PenReturns, StarterKeeps, SessionKeeps
  <2> QED
    BY <2>2, <2>3, <2>4, <2>5, <2>6
<1>3. CASE PenCompletes
  <2>1. pen' \in PenStates
    BY <1>3 DEF PenCompletes, HandshakeTypes, PenStates, StarterKeeps, SessionKeeps
  <2>2. HandshakeTypes'
    BY <1>3, <2>1 DEF PenCompletes, HandshakeTypes, StarterKeeps, SessionKeeps
  <2>3. GateIsHeld'
    BY <1>3 DEF PenCompletes, HandshakeTypes, PenStates, GateIsHeld, StarterKeeps, SessionKeeps
  <2>4. ConfirmedIsFinal'
    BY <1>3 DEF PenCompletes, HandshakeTypes, PenStates, ConfirmedIsFinal, BarrierHeld,
       StarterKeeps, SessionKeeps
  <2>5. MarkingIsBacked'
    BY <1>3 DEF PenCompletes, HandshakeTypes, PenStates, MarkingIsBacked, ConfirmedIsFinal,
       BarrierHeld, StarterKeeps, SessionKeeps
  <2>6. starter' = starter
    BY <1>3 DEF PenCompletes, StarterKeeps, SessionKeeps
  <2> QED
    BY <2>2, <2>3, <2>4, <2>5, <2>6
<1>4. CASE PenFails
  <2>1. pen' \in PenStates
    BY <1>4 DEF PenFails, HandshakeTypes, PenStates, StarterKeeps, SessionKeeps, FailClosed
  <2>2. sidecar' \in SidecarStates
    BY <1>4 DEF PenFails, HandshakeTypes, SidecarStates, StarterKeeps, SessionKeeps, FailClosed
  <2>3. HandshakeTypes'
    BY <1>4, <2>1, <2>2 DEF PenFails, HandshakeTypes, StarterKeeps, SessionKeeps, FailClosed
  <2>4. GateIsHeld'
    BY <1>4 DEF PenFails, HandshakeTypes, PenStates, SidecarStates, GateIsHeld, StarterKeeps,
       SessionKeeps, FailClosed
  <2>5. ConfirmedIsFinal'
    BY <1>4 DEF PenFails, HandshakeTypes, PenStates, SidecarStates, ConfirmedIsFinal,
       BarrierHeld, StarterKeeps, SessionKeeps, FailClosed
  <2>6. MarkingIsBacked'
    BY <1>4 DEF PenFails, HandshakeTypes, PenStates, SidecarStates, MarkingIsBacked,
       ConfirmedIsFinal, BarrierHeld, StarterKeeps, SessionKeeps, FailClosed
  <2>7. starter' = starter
    BY <1>4 DEF PenFails, StarterKeeps, SessionKeeps, FailClosed
  <2> QED
    BY <2>3, <2>4, <2>5, <2>6, <2>7
<1>5. CASE DogFires
  <2>1. HandshakeTypes'
    BY <1>5 DEF DogFires, HandshakeTypes, StarterKeeps, SessionKeeps
  <2>2. GateIsHeld'
    BY <1>5 DEF DogFires, HandshakeTypes, GateIsHeld, StarterKeeps, SessionKeeps
  <2>3. ConfirmedIsFinal'
    BY <1>5 DEF DogFires, HandshakeTypes, ConfirmedIsFinal, BarrierHeld, StarterKeeps,
       SessionKeeps
  <2>4. MarkingIsBacked'
    BY <1>5 DEF DogFires, HandshakeTypes, MarkingIsBacked, ConfirmedIsFinal, BarrierHeld,
       StarterKeeps, SessionKeeps
  <2>5. starter' = starter
    BY <1>5 DEF DogFires, StarterKeeps, SessionKeeps
  <2> QED
    BY <2>1, <2>2, <2>3, <2>4, <2>5
<1>6. CASE DogCloses
  <2>1. sidecar' \in SidecarStates
    BY <1>6 DEF DogCloses, HandshakeTypes, SidecarStates, StarterKeeps, SessionKeeps, FailClosed
  <2>2. HandshakeTypes'
    BY <1>6, <2>1 DEF DogCloses, HandshakeTypes, StarterKeeps, SessionKeeps, FailClosed
  <2>3. GateIsHeld'
    BY <1>6 DEF DogCloses, HandshakeTypes, SidecarStates, GateIsHeld, StarterKeeps, SessionKeeps,
       FailClosed
  <2>4. ConfirmedIsFinal'
    BY <1>6 DEF DogCloses, HandshakeTypes, SidecarStates, ConfirmedIsFinal, BarrierHeld,
       StarterKeeps, SessionKeeps, FailClosed
  <2>5. MarkingIsBacked'
    BY <1>6 DEF DogCloses, HandshakeTypes, SidecarStates, MarkingIsBacked, ConfirmedIsFinal,
       BarrierHeld, StarterKeeps, SessionKeeps, FailClosed
  <2>6. starter' = starter
    BY <1>6 DEF DogCloses, StarterKeeps, SessionKeeps, FailClosed
  <2> QED
    BY <2>2, <2>3, <2>4, <2>5, <2>6
<1> QED
  BY <1>1, <1>2, <1>3, <1>4, <1>5, <1>6 DEF PenNext, DogNext

\* The reader, the exit monitor and the sidecar close the session only through the gate.
LEMMA HandshakeInvRest ==
  ASSUME HandshakeInv,
         \/ EarsNext \/ MonitorCloses \/ SidecarHears \/ SidecarDies
         \/ \E f \in SidecarFrames : SidecarSends(f)
         \/ UNCHANGED hsVars
  PROVE  HandshakeInv' /\ starter' = starter
<1> USE DEF HandshakeInv
<1>1. CASE EarsRead \/ EarsEof \/ UNCHANGED hsVars
  <2>1. UNCHANGED <<starter, sidecar, barrier, gate, hsClosed, once, pen, dog>>
    BY <1>1 DEF EarsRead, EarsEof, hsVars, StarterKeeps, SessionKeeps, WriterKeeps
  <2> QED
    BY <2>1 DEF HandshakeTypes, GateIsHeld, ConfirmedIsFinal, MarkingIsBacked, BarrierHeld
<1>2. CASE EarsClaim
  <2>1. once' \in OnceStates
    BY <1>2 DEF EarsClaim, HandshakeTypes, OnceStates, StarterKeeps, SessionKeeps, WriterKeeps
  <2>2. HandshakeTypes'
    BY <1>2, <2>1 DEF EarsClaim, HandshakeTypes, StarterKeeps, SessionKeeps, WriterKeeps
  <2>3. GateIsHeld'
    BY <1>2 DEF EarsClaim, HandshakeTypes, OnceStates, GateIsHeld, StarterKeeps, SessionKeeps,
       WriterKeeps
  <2>4. ConfirmedIsFinal'
    BY <1>2 DEF EarsClaim, HandshakeTypes, OnceStates, ConfirmedIsFinal, BarrierHeld,
       StarterKeeps, SessionKeeps, WriterKeeps
  <2>5. MarkingIsBacked'
    BY <1>2 DEF EarsClaim, HandshakeTypes, OnceStates, MarkingIsBacked, ConfirmedIsFinal,
       BarrierHeld, StarterKeeps, SessionKeeps, WriterKeeps
  <2>6. starter' = starter
    BY <1>2 DEF EarsClaim, StarterKeeps, SessionKeeps, WriterKeeps
  <2> QED
    BY <2>2, <2>3, <2>4, <2>5, <2>6
<1>3. CASE EarsFail
  <2>1. sidecar' \in SidecarStates
    BY <1>3 DEF EarsFail, HandshakeTypes, SidecarStates, StarterKeeps, SessionKeeps, WriterKeeps,
       FailClosed
  <2>2. HandshakeTypes'
    BY <1>3, <2>1 DEF EarsFail, HandshakeTypes, StarterKeeps, SessionKeeps, WriterKeeps,
       FailClosed
  <2>3. GateIsHeld'
    BY <1>3 DEF EarsFail, HandshakeTypes, SidecarStates, GateIsHeld, StarterKeeps, SessionKeeps,
       WriterKeeps, FailClosed
  <2>4. ConfirmedIsFinal'
    BY <1>3 DEF EarsFail, HandshakeTypes, SidecarStates, ConfirmedIsFinal, BarrierHeld,
       StarterKeeps, SessionKeeps, WriterKeeps, FailClosed
  <2>5. MarkingIsBacked'
    BY <1>3 DEF EarsFail, HandshakeTypes, SidecarStates, MarkingIsBacked, ConfirmedIsFinal,
       BarrierHeld, StarterKeeps, SessionKeeps, WriterKeeps, FailClosed
  <2>6. starter' = starter
    BY <1>3 DEF EarsFail, StarterKeeps, SessionKeeps, WriterKeeps, FailClosed
  <2> QED
    BY <2>2, <2>3, <2>4, <2>5, <2>6
<1>4. CASE MonitorCloses
  <2>1. sidecar' \in SidecarStates
    BY <1>4 DEF MonitorCloses, HandshakeTypes, SidecarStates, StarterKeeps, SessionKeeps,
       WriterKeeps, FailClosed
  <2>2. HandshakeTypes'
    BY <1>4, <2>1 DEF MonitorCloses, HandshakeTypes, StarterKeeps, SessionKeeps, WriterKeeps,
       FailClosed
  <2>3. GateIsHeld'
    BY <1>4 DEF MonitorCloses, HandshakeTypes, SidecarStates, GateIsHeld, StarterKeeps,
       SessionKeeps, WriterKeeps, FailClosed
  <2>4. ConfirmedIsFinal'
    BY <1>4 DEF MonitorCloses, HandshakeTypes, SidecarStates, ConfirmedIsFinal, BarrierHeld,
       StarterKeeps, SessionKeeps, WriterKeeps, FailClosed
  <2>5. MarkingIsBacked'
    BY <1>4 DEF MonitorCloses, HandshakeTypes, SidecarStates, MarkingIsBacked, ConfirmedIsFinal,
       BarrierHeld, StarterKeeps, SessionKeeps, WriterKeeps, FailClosed
  <2>6. starter' = starter
    BY <1>4 DEF MonitorCloses, StarterKeeps, SessionKeeps, WriterKeeps, FailClosed
  <2> QED
    BY <2>2, <2>3, <2>4, <2>5, <2>6
<1>5. CASE SidecarHears \/ SidecarDies
  <2>1. sidecar' \in SidecarStates
    BY <1>5 DEF SidecarHears, SidecarDies, HandshakeTypes, SidecarStates, StarterKeeps,
       SessionKeeps, WriterKeeps
  <2>2. HandshakeTypes'
    BY <1>5, <2>1 DEF SidecarHears, SidecarDies, HandshakeTypes, StarterKeeps, SessionKeeps,
       WriterKeeps
  <2>3. GateIsHeld'
    BY <1>5 DEF SidecarHears, SidecarDies, HandshakeTypes, SidecarStates, GateIsHeld,
       StarterKeeps, SessionKeeps, WriterKeeps
  <2>4. ConfirmedIsFinal'
    BY <1>5 DEF SidecarHears, SidecarDies, HandshakeTypes, SidecarStates, ConfirmedIsFinal,
       BarrierHeld, StarterKeeps, SessionKeeps, WriterKeeps
  <2>5. MarkingIsBacked'
    BY <1>5 DEF SidecarHears, SidecarDies, HandshakeTypes, SidecarStates, MarkingIsBacked,
       ConfirmedIsFinal, BarrierHeld, StarterKeeps, SessionKeeps, WriterKeeps
  <2>6. starter' = starter
    BY <1>5 DEF SidecarHears, SidecarDies, StarterKeeps, SessionKeeps, WriterKeeps
  <2> QED
    BY <2>2, <2>3, <2>4, <2>5, <2>6
<1>6. CASE \E f \in SidecarFrames : SidecarSends(f)
  <2>1. sidecar' \in SidecarStates
    BY <1>6 DEF SidecarSends, HandshakeTypes, SidecarStates, StarterKeeps, SessionKeeps,
       WriterKeeps
  <2>2. HandshakeTypes'
    BY <1>6, <2>1 DEF SidecarSends, HandshakeTypes, StarterKeeps, SessionKeeps, WriterKeeps
  <2>3. GateIsHeld'
    BY <1>6 DEF SidecarSends, HandshakeTypes, SidecarStates, GateIsHeld, StarterKeeps,
       SessionKeeps, WriterKeeps
  <2>4. ConfirmedIsFinal'
    BY <1>6 DEF SidecarSends, HandshakeTypes, SidecarStates, ConfirmedIsFinal, BarrierHeld,
       StarterKeeps, SessionKeeps, WriterKeeps
  <2>5. MarkingIsBacked'
    BY <1>6 DEF SidecarSends, HandshakeTypes, SidecarStates, MarkingIsBacked, ConfirmedIsFinal,
       BarrierHeld, StarterKeeps, SessionKeeps, WriterKeeps
  <2>6. starter' = starter
    BY <1>6 DEF SidecarSends, StarterKeeps, SessionKeeps, WriterKeeps
  <2> QED
    BY <2>2, <2>3, <2>4, <2>5, <2>6
<1> QED
  BY <1>1, <1>2, <1>3, <1>4, <1>5, <1>6 DEF EarsNext

\* ReadyIsGenuine: a generation is marked ready only over an open session whose
\* initialized frame was heard and flushed in time, with the challenge consumed
\* (with_ready_promotion, InitializedBarrier).
THEOREM ReadyStaysGenuine == HandshakeSpec => ReadyIsGenuine
<1>1. HandshakeInv /\ [HandshakeNext]_hsVars => HandshakeInv' /\ Genuine
  BY HandshakeInvStarter, HandshakeInvPromotion, HandshakeInvPen, HandshakeInvRest
     DEF HandshakeNext, StarterNext, Genuine
<1>2. HandshakeInv /\ [HandshakeNext]_hsVars => [Genuine]_hsVars
  BY <1>1
<1>3. ReadyIsGenuine <=> [][Genuine]_hsVars
  BY PTL DEF ReadyIsGenuine, Genuine
<1> QED
  BY HandshakeInvInit, <1>1, <1>2, <1>3, PTL DEF HandshakeSpec

-----------------------------------------------------------------------------
(* The end of the process tree.                                            *)

EndingAts == {"idle", "claim", "signal", "reap", "publish", "done"}

SpawnStates == [at : {"new", "checked", "spawned", "assigned", "up", "abort", "over"},
                config : SidecarConfigs, result : {"none", "invalid", "spawn", "tree"}]
GuardStates == [host : {"linux", "macos", "windows"}, alive : BOOLEAN, failed : BOOLEAN,
                identified : BOOLEAN, job : {"open", "closed"}]
EnderStates == [at : EndingAts, tree : {"none", "ok", "failed"}, result : {"none", "ok", "failed"}]

TreeTypes ==
  /\ spawning \in SpawnStates /\ treeGuard \in GuardStates
  /\ top \in {"none", "suspended", "running", "zombie", "reaped"}
  /\ kin \in {"none", "running"}
  /\ ender \in [Enders -> EnderStates]

\* Nobody ends a tree before it is up, and by then its identity is recorded.
EndAfterUp ==
  /\ spawning.at # "up" =>
       \A t \in Enders : ender[t].at = "idle" /\ ender[t].tree = "none" /\ ender[t].result = "none"
  /\ spawning.at \in {"new", "checked", "spawned", "assigned"} =>
       treeGuard.alive /\ ~treeGuard.failed
  /\ spawning.at \in {"assigned", "up"} => treeGuard.identified

\* terminate's claim is won once.
OneSignaller ==
  /\ \A t \in Enders : ender[t].at = "signal" => ~treeGuard.alive /\ ~treeGuard.failed
  /\ \A t, u \in Enders : ender[t].at = "signal" /\ ender[u].at = "signal" => t = u
  /\ \A t \in Enders : ender[t].tree # "none" \/ ender[t].result # "none" => ~treeGuard.alive
  /\ treeGuard.failed => ~treeGuard.alive

\* A failed guard has told somebody, and tells whoever asks again.
FailureIsTold ==
  /\ treeGuard.failed => \E t \in Enders : ender[t].tree = "failed"
  /\ \A t \in Enders :
       ender[t].tree = "failed" /\ ender[t].at # "reap" => ender[t].result = "failed"
  /\ \A t \in Enders : ender[t].at = "reap" => ender[t].tree # "none"
  /\ \A t \in Enders : ender[t].tree = "failed" => treeGuard.failed

\* Once the winner has signalled, the tree is gone or the guard has failed.
SignalWorked ==
  spawning.at = "up" /\ ~treeGuard.alive /\ ~treeGuard.failed
  /\ (\A t \in Enders : ender[t].at # "signal")
    => kin = "none" /\ top \in {"none", "zombie", "reaped"}

\* A success is returned by a thread that has reaped the leader.
OkIsReaped == \A t \in Enders : ender[t].result = "ok" => top = "reaped"

TreeInv ==
  /\ TreeTypes /\ EndAfterUp /\ OneSignaller /\ FailureIsTold /\ SignalWorked /\ OkIsReaped

\* Nothing is spawned at first.
LEMMA TreeInvInit == TreeInit => TreeInv
<1> SUFFICES ASSUME TreeInit PROVE TreeInv
  OBVIOUS
<1>1. spawning \in SpawnStates
  BY DEF TreeInit, SpawnStates, SidecarConfigs
<1>2. treeGuard \in GuardStates
  BY TreeAssumption DEF TreeInit, GuardStates
<1>3. ender \in [Enders -> EnderStates]
  BY DEF TreeInit, EnderStates, EndingAts
<1>4. TreeTypes
  BY <1>1, <1>2, <1>3 DEF TreeInit, TreeTypes
<1>5. EndAfterUp /\ OneSignaller /\ FailureIsTold /\ SignalWorked /\ OkIsReaped
  BY DEF TreeInit, EndAfterUp, OneSignaller, FailureIsTold, SignalWorked, OkIsReaped
<1> QED
  BY <1>4, <1>5 DEF TreeInv

\* The start: nobody ends a tree that is not up.
LEMMA TreeInvSpawn ==
  ASSUME TreeInv,
         \/ \E c \in SidecarConfigs : SpawnChecks(c)
         \/ SpawnChild \/ SpawnAssign \/ SpawnConnects \/ SpawnAborts
  PROVE  TreeInv'
<1> USE DEF TreeInv
<1>1. /\ spawning.at # "up"
      /\ ender' = ender
      /\ spawning' \in SpawnStates
      /\ spawning'.at = "up" => spawning.at = "assigned" /\ treeGuard' = treeGuard
  BY DEF SpawnChecks, SpawnChild, SpawnAssign, SpawnConnects, SpawnAborts, EndersKeep,
         TreeTypes, SpawnStates
<1>2. /\ treeGuard' \in GuardStates
      /\ treeGuard' = treeGuard \/ treeGuard' = [treeGuard EXCEPT !.identified = TRUE]
         \/ treeGuard' = [treeGuard EXCEPT !.alive = FALSE, !.job = "closed"]
  BY DEF SpawnChecks, SpawnChild, SpawnAssign, SpawnConnects, SpawnAborts, TreeTypes, GuardStates
<1>3. TreeTypes'
  BY <1>1, <1>2 DEF SpawnChecks, SpawnChild, SpawnAssign, SpawnConnects, SpawnAborts,
         ProcessesStay, TreeTypes
<1>4. EndAfterUp'
  BY <1>1, <1>2, ZenonT(60) DEF SpawnChecks, SpawnChild, SpawnAssign, SpawnConnects, SpawnAborts,
         EndAfterUp, TreeTypes, SpawnStates, GuardStates
<1>5. \A t \in Enders :
        ender'[t].at = "idle" /\ ender'[t].tree = "none" /\ ender'[t].result = "none"
  BY <1>1 DEF EndAfterUp
<1>6. treeGuard'.failed = treeGuard.failed /\ (treeGuard.failed => ~treeGuard'.alive)
  BY <1>2 DEF TreeTypes, GuardStates, OneSignaller
<1>7. OneSignaller' /\ OkIsReaped'
  BY <1>5, <1>6 DEF OneSignaller, OkIsReaped
<1>8. ~treeGuard.failed
  BY <1>1 DEF EndAfterUp, FailureIsTold
<1>9. FailureIsTold'
  BY <1>5, <1>6, <1>8 DEF FailureIsTold
<1>10. SignalWorked'
  BY <1>1 DEF SignalWorked, EndAfterUp
<1> QED
  BY <1>3, <1>4, <1>7, <1>9, <1>10

\* The processes themselves, and the publication of the exit.
LEMMA TreeInvProcess ==
  ASSUME TreeInv, KinForks \/ SidecarExits \/ ExitPublished \/ UNCHANGED treeVars
  PROVE  TreeInv'
<1> USE DEF TreeInv
<1>1. CASE KinForks \/ SidecarExits \/ UNCHANGED treeVars
  <2>1. TreeTypes'
    BY <1>1 DEF KinForks, SidecarExits, EndersKeep, treeVars, TreeTypes
  <2>2. EndAfterUp' /\ OneSignaller' /\ FailureIsTold'
    BY <1>1 DEF KinForks, SidecarExits, EndersKeep, treeVars, EndAfterUp, OneSignaller,
       FailureIsTold
  <2>3. SignalWorked' /\ OkIsReaped'
    BY <1>1 DEF KinForks, SidecarExits, EndersKeep, treeVars, SignalWorked, OkIsReaped
  <2> QED
    BY <2>1, <2>2, <2>3
<1>2. CASE ExitPublished
  <2>1. /\ UNCHANGED <<spawning, treeGuard, top, kin>>
        /\ ender["monitor"].at = "publish"
        /\ ender' = [ender EXCEPT !["monitor"].at = "done"]
    BY <1>2 DEF ExitPublished, EnderAt
  <2>2. /\ ender' \in [Enders -> EnderStates]
        /\ \A t \in Enders : /\ ender'[t].tree = ender[t].tree /\ ender'[t].result = ender[t].result
                             /\ \/ ender'[t].at = ender[t].at
                                \/ ender[t].at = "publish" /\ ender'[t].at = "done"
    BY <2>1 DEF TreeTypes, EnderStates, EndingAts
  <2>3. TreeTypes'
    BY <2>1, <2>2 DEF TreeTypes
  <2>4. EndAfterUp'
    BY <2>1, <2>2 DEF EndAfterUp
  <2>5. OneSignaller'
    BY <2>1, <2>2 DEF OneSignaller
  <2>6. FailureIsTold'
    BY <2>1, <2>2 DEF FailureIsTold
  <2>7. SignalWorked' /\ OkIsReaped'
    BY <2>1, <2>2 DEF SignalWorked, OkIsReaped
  <2> QED
    BY <2>3, <2>4, <2>5, <2>6, <2>7
<1> QED
  BY <1>1, <1>2

\* A thread enters terminate.
LEMMA TreeInvBegins ==
  ASSUME TreeInv, NEW t \in Enders, EndBegins(t)
  PROVE  TreeInv'
<1> USE DEF TreeInv
<1>1. /\ UNCHANGED <<spawning, treeGuard, kin>>
      /\ spawning.at = "up" /\ ender[t].at = "idle"
      /\ top' = top \/ (top \in {"zombie", "reaped"} /\ top' = "reaped")
      /\ ender' = [ender EXCEPT ![t].at = "claim"]
  BY DEF EndBegins, EnderAt
<1>2. /\ ender' \in [Enders -> EnderStates]
      /\ \A u \in Enders : /\ ender'[u].tree = ender[u].tree /\ ender'[u].result = ender[u].result
                           /\ \/ ender'[u].at = ender[u].at
                              \/ ender[u].at = "idle" /\ ender'[u].at = "claim"
  BY <1>1 DEF TreeTypes, EnderStates, EndingAts
<1>3. TreeTypes'
  BY <1>1, <1>2 DEF TreeTypes
<1>4. EndAfterUp'
  BY <1>1, <1>2 DEF EndAfterUp
<1>5. OneSignaller'
  BY <1>1, <1>2 DEF OneSignaller
<1>6. FailureIsTold'
  BY <1>1, <1>2 DEF FailureIsTold
<1>7. SignalWorked' /\ OkIsReaped'
  BY <1>1, <1>2 DEF SignalWorked, OkIsReaped
<1> QED
  BY <1>3, <1>4, <1>5, <1>6, <1>7

\* The claim: a failed guard fails every later caller, and only one caller signals.
LEMMA TreeInvClaims ==
  ASSUME TreeInv, NEW t \in Enders, EndClaims(t)
  PROVE  TreeInv'
<1> USE DEF TreeInv
<1>1. /\ spawning' = spawning /\ spawning.at = "up" /\ ender[t].at = "claim"
  BY DEF EndClaims, EndAfterUp
<1>2. CASE treeGuard.failed
  <2>1. /\ treeGuard' = treeGuard \/ treeGuard' = [treeGuard EXCEPT !.job = "closed"]
        /\ ender' = [ender EXCEPT ![t] = [@ EXCEPT !.at = "reap", !.tree = "failed"]]
        /\ top' = top \/ (top' = "zombie" /\ top \in {"suspended", "running"})
        /\ kin' \in {kin, "none"}
    BY <1>2 DEF EndClaims, LeaderDies
  <2>2. /\ ender' \in [Enders -> EnderStates]
        /\ \A u \in Enders : u # t => ender'[u] = ender[u]
        /\ ender'[t].at = "reap" /\ ender'[t].tree = "failed" /\ ender'[t].result = ender[t].result
    BY <2>1, ZenonT(60) DEF TreeTypes, EnderStates, EndingAts
  <2>3. /\ treeGuard' \in GuardStates /\ treeGuard'.alive = treeGuard.alive
        /\ treeGuard'.failed = treeGuard.failed /\ treeGuard'.identified = treeGuard.identified
    BY <2>1 DEF TreeTypes, GuardStates
  <2>4. TreeTypes'
    BY <1>1, <2>1, <2>2, <2>3 DEF TreeTypes
  <2>5. EndAfterUp'
    BY <1>1, <2>3 DEF EndAfterUp
  <2>6. OneSignaller'
    BY <1>2, <2>2, <2>3 DEF OneSignaller
  <2>7. FailureIsTold'
    BY <1>2, <2>2, <2>3 DEF FailureIsTold
  <2>8. SignalWorked' /\ OkIsReaped'
    BY <1>2, <2>1, <2>2, <2>3 DEF SignalWorked, OkIsReaped
  <2> QED
    BY <2>4, <2>5, <2>6, <2>7, <2>8
<1>3. CASE ~treeGuard.failed
  <2>1. /\ treeGuard' = [treeGuard EXCEPT !.alive = FALSE]
        /\ ender' = [ender EXCEPT ![t] = IF treeGuard.alive THEN [@ EXCEPT !.at = "signal"]
                                         ELSE [@ EXCEPT !.at = "reap", !.tree = "ok"]]
        /\ UNCHANGED <<top, kin>>
    BY <1>3 DEF EndClaims, ProcessesStay
  <2>2. /\ ender' \in [Enders -> EnderStates]
        /\ \A u \in Enders : u # t => ender'[u] = ender[u]
        /\ ender'[t].result = ender[t].result
        /\ IF treeGuard.alive THEN ender'[t].at = "signal" /\ ender'[t].tree = ender[t].tree
                              ELSE ender'[t].at = "reap" /\ ender'[t].tree = "ok"
    BY <2>1 DEF TreeTypes, EnderStates, EndingAts
  <2>3. /\ treeGuard' \in GuardStates /\ ~treeGuard'.alive
        /\ treeGuard'.failed = treeGuard.failed /\ treeGuard'.identified = treeGuard.identified
    BY <2>1 DEF TreeTypes, GuardStates
  <2>4. TreeTypes'
    BY <1>1, <2>1, <2>2, <2>3 DEF TreeTypes
  <2>5. EndAfterUp'
    BY <1>1, <2>3 DEF EndAfterUp
  <2>6. OneSignaller'
    BY <1>3, <2>2, <2>3 DEF OneSignaller
  <2>7. FailureIsTold'
    BY <1>3, <2>2, <2>3 DEF FailureIsTold
  <2>8. SignalWorked' /\ OkIsReaped'
    BY <1>1, <1>3, <2>1, <2>2, <2>3 DEF SignalWorked, OkIsReaped
  <2> QED
    BY <2>4, <2>5, <2>6, <2>7, <2>8
<1> QED
  BY <1>2, <1>3

\* The signal: the tree is gone afterwards, or the guard has failed for good.
LEMMA TreeInvSignals ==
  ASSUME TreeInv, NEW t \in Enders, EndSignalsGroup(t) \/ EndSignalsJob(t)
  PROVE  TreeInv'
<1> USE DEF TreeInv
<1>1. /\ spawning' = spawning /\ spawning.at = "up" /\ ender[t].at = "signal"
      /\ treeGuard.identified
  BY DEF EndSignalsGroup, EndSignalsJob, EndAfterUp
<1>2. ~treeGuard.alive /\ ~treeGuard.failed /\ \A u \in Enders : ender[u].at = "signal" => u = t
  BY <1>1 DEF OneSignaller
<1>3. CASE /\ treeGuard' = treeGuard \/ treeGuard' = [treeGuard EXCEPT !.job = "closed"]
           /\ ender' = [ender EXCEPT ![t] = [@ EXCEPT !.at = "reap", !.tree = "ok"]]
           /\ kin' = "none" /\ top' \in {"none", "zombie", "reaped"}
           /\ top = "reaped" => top' = top
  <2>1. /\ ender' \in [Enders -> EnderStates]
        /\ \A u \in Enders : u # t => ender'[u] = ender[u]
        /\ ender'[t].at = "reap" /\ ender'[t].tree = "ok" /\ ender'[t].result = ender[t].result
    BY <1>3 DEF TreeTypes, EnderStates, EndingAts
  <2>2. /\ treeGuard' \in GuardStates /\ treeGuard'.alive = treeGuard.alive
        /\ treeGuard'.failed = treeGuard.failed /\ treeGuard'.identified = treeGuard.identified
    BY <1>3 DEF TreeTypes, GuardStates
  <2>3. TreeTypes'
    BY <1>1, <1>3, <2>1, <2>2 DEF TreeTypes
  <2>4. EndAfterUp'
    BY <1>1, <2>2 DEF EndAfterUp
  <2>5. OneSignaller'
    BY <1>2, <2>1, <2>2 DEF OneSignaller
  <2>6. FailureIsTold'
    BY <1>2, <2>1, <2>2 DEF FailureIsTold
  <2>7. SignalWorked' /\ OkIsReaped'
    BY <1>3, <2>1 DEF SignalWorked, OkIsReaped
  <2> QED
    BY <2>3, <2>4, <2>5, <2>6, <2>7
<1>4. CASE /\ \/ treeGuard' = [treeGuard EXCEPT !.failed = TRUE]
              \/ treeGuard' = [treeGuard EXCEPT !.failed = TRUE, !.job = "closed"]
           /\ ender' = [ender EXCEPT ![t] = [@ EXCEPT !.at = "reap", !.tree = "failed"]]
           /\ kin' \in {kin, "none"} /\ top' \in {top, "zombie"} /\ (top = "reaped" => top' = top)
  <2>1. /\ ender' \in [Enders -> EnderStates]
        /\ \A u \in Enders : u # t => ender'[u] = ender[u]
        /\ ender'[t].at = "reap" /\ ender'[t].tree = "failed" /\ ender'[t].result = ender[t].result
    BY <1>4, ZenonT(60) DEF TreeTypes, EnderStates, EndingAts
  <2>2. /\ treeGuard' \in GuardStates /\ treeGuard'.alive = treeGuard.alive
        /\ treeGuard'.failed /\ treeGuard'.identified = treeGuard.identified
    BY <1>4 DEF TreeTypes, GuardStates
  <2>3. TreeTypes'
    BY <1>1, <1>4, <2>1, <2>2 DEF TreeTypes
  <2>4. EndAfterUp'
    BY <1>1, <2>2 DEF EndAfterUp
  <2>5. OneSignaller'
    BY <1>2, <2>1, <2>2 DEF OneSignaller
  <2>6. FailureIsTold'
    BY <2>1, <2>2 DEF FailureIsTold
  <2>7. SignalWorked' /\ OkIsReaped'
    BY <1>4, <2>1, <2>2 DEF SignalWorked, OkIsReaped
  <2> QED
    BY <2>3, <2>4, <2>5, <2>6, <2>7
<1>5. CASE EndSignalsGroup(t)
  BY <1>1, <1>3, <1>4, <1>5 DEF EndSignalsGroup, OwnsGroup, GroupDies, ProcessesStay, TreeTypes
<1>6. CASE EndSignalsJob(t)
  BY <1>3, <1>4, <1>6 DEF EndSignalsJob, GroupDies, LeaderDies, TreeTypes
<1> QED
  BY <1>5, <1>6

\* The leader is reaped, or the caller is told that it was not.
LEMMA TreeInvReaps ==
  ASSUME TreeInv, NEW t \in Enders, EndReaps(t)
  PROVE  TreeInv'
<1> USE DEF TreeInv
<1>1. /\ UNCHANGED <<spawning, kin, treeGuard>> /\ spawning.at = "up" /\ ender[t].at = "reap"
  BY DEF EndReaps, EndAfterUp
<1>2. PICK at \in {"publish", "idle"}, result \in {ender[t].tree, "failed"} :
         /\ ender' = [ender EXCEPT ![t] = [@ EXCEPT !.at = at, !.result = result]]
         /\ top' = "reaped" \/ (top' = top /\ result = "failed")
  BY DEF EndReaps
<1>3. /\ ender' \in [Enders -> EnderStates]
      /\ \A u \in Enders : u # t => ender'[u] = ender[u]
      /\ ender'[t].at = at /\ ender'[t].tree = ender[t].tree /\ ender'[t].result = result
  BY <1>2 DEF TreeTypes, EnderStates, EndingAts
<1>4. ender[t].tree # "none" /\ ~treeGuard.alive
  BY <1>1 DEF FailureIsTold, OneSignaller
<1>5. TreeTypes'
  BY <1>1, <1>2, <1>3 DEF TreeTypes
<1>6. EndAfterUp'
  BY <1>1 DEF EndAfterUp
<1>7. OneSignaller'
  BY <1>1, <1>3, <1>4 DEF OneSignaller
<1>8. FailureIsTold'
  BY <1>1, <1>2, <1>3 DEF FailureIsTold
<1>9. SignalWorked' /\ OkIsReaped'
  BY <1>1, <1>2, <1>3 DEF SignalWorked, OkIsReaped
<1> QED
  BY <1>5, <1>6, <1>7, <1>8, <1>9

\* SurvivorIsReported: whichever of the terminal callback, the exit monitor and the
\* supervisor's cleanup claims the end of the tree, and whichever system calls fail, a
\* tree that is not gone has been reported by one of them (ProcessTreeGuard::terminate).
THEOREM SurvivorsAreReported == TreeSpec => []SurvivorIsReported
<1>1. TreeInv /\ [TreeNext]_treeVars => TreeInv'
  BY TreeInvSpawn, TreeInvProcess, TreeInvBegins, TreeInvClaims, TreeInvSignals, TreeInvReaps
     DEF TreeNext
<1>2. TreeInv => SurvivorIsReported
  <2> SUFFICES ASSUME TreeInv, NobodyEnds, \E t \in Enders : ender[t].result # "none",
                      \A t \in Enders : ender[t].result # "failed"
               PROVE  kin = "none" /\ top = "reaped"
    BY DEF SurvivorIsReported
  <2> USE DEF TreeInv
  <2>1. PICK t \in Enders : ender[t].result = "ok"
    BY DEF TreeTypes, EnderStates
  <2>2. top = "reaped" /\ ~treeGuard.alive /\ spawning.at = "up"
    BY <2>1 DEF OkIsReaped, OneSignaller, EndAfterUp
  <2>3. ~treeGuard.failed /\ \A u \in Enders : ender[u].at # "signal"
    BY DEF NobodyEnds, FailureIsTold
  <2> QED
    BY <2>2, <2>3 DEF SignalWorked
<1> QED
  BY TreeInvInit, <1>1, <1>2, PTL DEF TreeSpec

-----------------------------------------------------------------------------
(* The secrets.                                                            *)

\* What the replay makes of a snapshot.
Retold(f) ==
  [f EXCEPT !.mcp = [i \in DOMAIN f.mcp |-> [rev |-> f.mcp[i].rev, ref |-> ToldCredential(f.mcp[i])]]]

\* An account holds its own secret, a snapshot holds servers that were valid settings, and
\* the sidecar was told of the snapshot the bridge still has.
SecretsInv ==
  /\ keyring \in [Accounts -> Accounts \cup {NoSecret}]
  /\ \A a \in Accounts : keyring[a] \in {a, NoSecret}
  /\ draft \in Documents
  /\ \A i \in DOMAIN frozen.mcp : frozen.mcp[i] \in ServerSettings
  /\ frozen = NoSnapshot \/ DOMAIN frozen = {"profile", "model", "mcp"}
  /\ told = NoSnapshot \/ (frozen # NoSnapshot /\ told = Retold(frozen))

\* No secret is stored or handed out at first.
LEMMA SecretsInvInit == SecretsInit => SecretsInv
<1> SUFFICES ASSUME SecretsInit PROVE SecretsInv
  OBVIOUS
<1>1. draft \in Documents
  BY DEF SecretsInit
<1>2. \A i \in DOMAIN frozen.mcp : frozen.mcp[i] \in ServerSettings
  BY DEF SecretsInit, NoSnapshot
<1> QED
  BY <1>1, <1>2 DEF SecretsInit, SecretsInv

\* Every write of a credential, every edit and every new snapshot keeps them so.
LEMMA SecretsInvStep == SecretsInv /\ [SecretsNext]_secretsVars => SecretsInv'
<1> SUFFICES ASSUME SecretsInv, [SecretsNext]_secretsVars PROVE SecretsInv'
  OBVIOUS
<1> USE DEF SecretsInv
<1>1. ASSUME NEW p \in Purposes, NEW r \in Refs, SetCredential(p, r) \/ DeleteCredential(p, r)
      PROVE  SecretsInv'
  BY <1>1 DEF SetCredential, DeleteCredential, AccountName, Accounts
<1>2. CASE EditSettings
  BY <1>2 DEF EditSettings
<1>3. CASE Freeze
  <2> DEFINE S == Selected(draft)
  <2>1. /\ frozen' = [profile |-> draft.active, model |-> draft.model[draft.active],
                      mcp |-> [i \in S |-> draft.mcp[i]]]
        /\ told' = NoSnapshot /\ UNCHANGED <<keyring, draft>>
    BY <1>3 DEF Freeze
  <2>2. \A i \in S : draft.mcp[i] \in ServerSettings
    <3>1. draft.mcp \in Seq(ServerSettings)
      BY SecretsAssumption
    <3>2. \A i \in S : i \in DOMAIN draft.mcp
      BY DEF Selected, Enabled
    <3> QED
      BY <3>1, <3>2
  <2> HIDE DEF S
  <2>3. \A i \in DOMAIN frozen'.mcp : frozen'.mcp[i] \in ServerSettings
    BY <2>1, <2>2
  <2>4. DOMAIN frozen' = {"profile", "model", "mcp"}
    BY <2>1
  <2> QED
    BY <2>1, <2>3, <2>4
<1>4. CASE Replay
  BY <1>4 DEF Replay, Retold
<1>5. ASSUME NEW q \in Requests, AskSecret(q)
      PROVE  SecretsInv'
  BY <1>5 DEF AskSecret
<1>6. CASE UNCHANGED secretsVars
  BY <1>6 DEF secretsVars
<1> QED
  BY <1>1, <1>2, <1>3, <1>4, <1>5, <1>6 DEF SecretsNext

\* What leaves the keyring with one answer.
Owned ==
  handed' # handed /\ handed' # NotHanded =>
    /\ handed'.secret = <<handed'.purpose, handed'.ref>>
    /\ handed'.profile = frozen.profile
    /\ handed'.purpose = "model" => handed'.server = "none" /\ handed'.ref = frozen.model
    /\ handed'.purpose = "mcp" =>
         \E i \in DOMAIN frozen.mcp :
           /\ frozen.mcp[i].rev = handed'.server
           /\ handed'.ref \in {frozen.mcp[i].auth, frozen.mcp[i].alias}

\* A secret that is handed out belongs to the profile or server that asked.
LEMMA AnswersAreOwned == SecretsInv /\ [SecretsNext]_secretsVars => Owned
<1> SUFFICES ASSUME SecretsInv, [SecretsNext]_secretsVars, handed' # handed, handed' # NotHanded
             PROVE  Owned
  BY DEF Owned
<1>1. PICK q \in Requests : AskSecret(q)
  BY DEF SecretsNext, SetCredential, DeleteCredential, EditSettings, Freeze, Replay, secretsVars
<1>2. PICK secret \in Deliveries(keyring[AccountName(q.purpose, q.ref)]) :
         Owns(q) /\ secret # NoSecret /\ handed' = Answer(q, secret)
  BY <1>1 DEF AskSecret
<1>3. q.purpose \in Purposes /\ q.ref \in Refs
  BY DEF Requests
<1>4. secret = <<q.purpose, q.ref>>
  <2>1. <<q.purpose, q.ref>> \in Accounts
    BY <1>3 DEF Accounts
  <2> QED
    BY <1>2, <2>1 DEF Deliveries, AccountName, SecretsInv
<1>5. /\ handed'.secret = secret /\ handed'.purpose = q.purpose /\ handed'.ref = q.ref
      /\ handed'.server = q.server /\ handed'.profile = q.profile
  BY <1>2 DEF Answer
<1>6. q.profile = frozen.profile
  BY <1>2 DEF Owns
<1>7. q.purpose = "model" => q.server = "none" /\ q.ref = frozen.model
  BY <1>2 DEF Owns
<1>8. ASSUME q.purpose = "mcp"
      PROVE  \E i \in DOMAIN frozen.mcp :
               frozen.mcp[i].rev = q.server /\ q.ref \in {frozen.mcp[i].auth, frozen.mcp[i].alias}
  BY <1>2, <1>8 DEF Owns, Finds, Credential
<1> QED
  BY <1>4, <1>5, <1>6, <1>7, <1>8 DEF Owned

\* What profile_params and mcp_params tell is what resolve_secret grants: the profile's
\* reference, and that of the first server of each revision.
LEMMA RetoldIsGranted == SecretsInv => ToldIsGranted
<1> SUFFICES ASSUME SecretsInv PROVE ToldIsGranted
  OBVIOUS
<1>1. CASE told = NoSnapshot
  BY <1>1 DEF NoSnapshot, ToldIsGranted
<1>2. CASE told # NoSnapshot
  <2>1. frozen # NoSnapshot /\ told = Retold(frozen) /\ DOMAIN frozen = {"profile", "model", "mcp"}
    BY <1>2 DEF SecretsInv
  <2>2. /\ told.profile = frozen.profile /\ told.model = frozen.model
        /\ told.mcp = [i \in DOMAIN frozen.mcp |->
                         [rev |-> frozen.mcp[i].rev, ref |-> ToldCredential(frozen.mcp[i])]]
    BY <2>1 DEF Retold
  <2>3. Owns([purpose |-> "model", ref |-> told.model, profile |-> told.profile, server |-> "none"])
    BY <2>1, <2>2 DEF Owns
  <2>4. ASSUME NEW i \in DOMAIN told.mcp,
               \A j \in DOMAIN told.mcp : told.mcp[j].rev = told.mcp[i].rev => i <= j
        PROVE  Owns([purpose |-> "mcp", ref |-> told.mcp[i].ref, profile |-> told.profile,
                     server |-> told.mcp[i].rev])
    <3>1. DOMAIN told.mcp = DOMAIN frozen.mcp
          /\ \A j \in DOMAIN frozen.mcp : told.mcp[j].rev = frozen.mcp[j].rev
      BY <2>2
    <3>2. told.mcp[i].ref = ToldCredential(frozen.mcp[i])
      BY <2>2, <3>1
    <3>3. Finds(frozen.mcp, told.mcp[i].rev, i)
      BY <2>4, <3>1 DEF Finds
    <3>4. frozen.mcp[i] \in ServerSettings
      BY <3>1 DEF SecretsInv
    <3>5. told.mcp[i].ref = Credential(frozen.mcp[i])
      BY <3>2, <3>4 DEF ToldCredential, Credential, ServerSettings
    <3> QED
      BY <2>1, <2>2, <3>1, <3>3, <3>5 DEF Owns
  <2> QED
    BY <2>3, <2>4 DEF ToldIsGranted
<1> QED
  BY <1>1, <1>2

\* SecretsGoToTheirOwners: a secret is handed out only to the very purpose, profile and MCP
\* revision the running snapshot gives it to, and the sidecar is granted whatever it was told
\* of, the first server of each revision, across every edit, deletion and replay, also of
\* documents that repeat a revision (bridge.rs, resolve_secret; config.rs, mcp_params).
THEOREM SecretsStayWithOwners == SecretsSpec => SecretsGoToTheirOwners
<1>1. SecretsInv /\ [SecretsNext]_secretsVars => [Owned]_secretsVars
  BY AnswersAreOwned
<1>2. SecretStaysWithOwner <=> [][Owned]_secretsVars
  BY PTL DEF SecretStaysWithOwner, Owned
<1> QED
  BY SecretsInvInit, SecretsInvStep, RetoldIsGranted, <1>1, <1>2, PTL
     DEF SecretsSpec, SecretsGoToTheirOwners

=============================================================================
