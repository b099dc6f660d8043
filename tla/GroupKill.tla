----------------------------- MODULE GroupKill -----------------------------
(***************************************************************************)
(* The end of a captured process group in the marker clean-up of the macOS   *)
(* sandbox spike: every signal follows a fresh look at the identity, a group *)
(* that may not be signalled is ended member by member, and success is only  *)
(* what the kernel's probes of the pid and of the group say.  Meanwhile      *)
(* processes exit, fork, are reaped late, and their numbers are used again.  *)
(***************************************************************************)
EXTENDS FiniteSets

CONSTANT Peers   \* the members that markers name, besides the target "t"

Pids == {"t", "m", "u"}     \* the target leads the group; "u" stands for unknown members
Known == {"t"} \cup Peers

ASSUME PeersAssumption == Peers \subseteq Pids \ {"t", "u"}

VARIABLES
  pidSlot,      \* pid -> free, captured (alive in the group), zombie, stranger
  lead,      \* a stranger with the target's number leads a group of that number
  killer,    \* the cleaning thread: where it is, what it has seen, whom it has left
  outcome,   \* its answer
  hooked,    \* a supervisor holds the target's zombie until the hook is called
  recent,    \* ghost: numbers used again since the killer's last step
  wronged    \* ghost: a stranger was hit that was there at the killer's last step

killVars == <<pidSlot, lead, killer, outcome, hooked, recent, wronged>>

GroupKillInit ==
  /\ pidSlot \in {f \in [Pids -> {"captured", "free"}] : f["t"] = "captured"}
  /\ hooked \in BOOLEAN /\ lead = FALSE /\ outcome = "none"
  /\ killer = [at |-> "check", heard |-> "none", direct |-> "none", released |-> FALSE,
               left |-> {}, allEmpty |-> TRUE, fallback |-> FALSE]
  /\ recent = {} /\ wronged = FALSE

AliveMembers == {p \in Pids : pidSlot[p] = "captured"}
Zombies == {p \in Pids : pidSlot[p] = "zombie"}

(* What the kernel and ps answer. *)

\* pid_state: a zombie may or may not be seen, a stranger may be out of reach.
PidStates(p) ==
  CASE pidSlot[p] = "captured" -> {"present"}
    [] pidSlot[p] = "zombie" -> {"present", "empty"}
    [] pidSlot[p] = "stranger" -> {"present", "eperm"}
    [] OTHER -> {"empty"}

\* group_state: a group of zombies may look empty, and strangers out of reach.
GroupStates ==
  IF AliveMembers \ {"u"} # {} THEN {"present"}
  ELSE IF AliveMembers # {} \/ lead THEN {"present", "eperm"}
  ELSE IF Zombies # {} THEN {"present", "empty", "eperm"} ELSE {"empty"}

\* validate_captured_identity: uid, group, command and start time of the captured process.
Identified(p) ==
  CASE pidSlot[p] = "captured" -> {TRUE} [] pidSlot[p] = "zombie" -> BOOLEAN [] OTHER -> {FALSE}

(* The other processes. *)

Others == UNCHANGED <<killer, outcome, hooked, wronged>>

MemberExits(p) ==
  /\ pidSlot[p] = "captured" /\ pidSlot' = [pidSlot EXCEPT ![p] = "zombie"]
  /\ UNCHANGED <<lead, recent>> /\ Others

MemberForks ==
  /\ pidSlot["u"] = "free" /\ AliveMembers # {} /\ pidSlot' = [pidSlot EXCEPT !["u"] = "captured"]
  /\ UNCHANGED <<lead, recent>> /\ Others

MemberReaped(p) ==
  /\ pidSlot[p] = "zombie" /\ (p = "t" /\ hooked => killer.released)
  /\ pidSlot' = [pidSlot EXCEPT ![p] = "free"]
  /\ UNCHANGED <<lead, recent>> /\ Others

\* A number is used again; that of a group only once the group is gone.
NumberReused(p) ==
  /\ pidSlot[p] = "free" /\ (p = "t" => AliveMembers \cup Zombies = {})
  /\ pidSlot' = [pidSlot EXCEPT ![p] = "stranger"]
  /\ lead' \in {lead, p = "t" \/ lead}
  /\ recent' = recent \cup {p} /\ Others

(* The cleaning thread. *)

KillerStep(next) == outcome = "none" /\ killer' = next /\ recent' = {}
KillerEnds(answer) == outcome = "none" /\ outcome' = answer /\ recent' = {} /\ UNCHANGED killer
Looks == UNCHANGED <<pidSlot, lead, hooked, wronged>>
Goto(at) == [killer EXCEPT !.at = at]

\* Signals to the members in hit, and to the strangers in struck.
Kills(hit, struck) ==
  /\ pidSlot' = [p \in Pids |-> IF p \in hit /\ pidSlot[p] = "captured" THEN "zombie" ELSE pidSlot[p]]
  /\ wronged' = (wronged \/ struck \ recent # {})
  /\ UNCHANGED <<lead, hooked>>

\* terminate_group_with_identity_fallback: an EPERM of the group way leads to the
\* members, one of the member way is the answer.
Denied ==
  IF killer.fallback THEN KillerEnds("eperm") /\ UNCHANGED <<pidSlot, lead, hooked, wronged>>
  ELSE /\ KillerStep([killer EXCEPT !.at = "members", !.left = Known, !.fallback = TRUE])
       /\ UNCHANGED <<pidSlot, lead, hooked, wronged, outcome>>

\* terminate_group_with_hook and signal_group_captured: two looks before the signal.
KillChecks(at, next) ==
  /\ killer.at = at
  /\ \E same \in Identified("t") :
       IF same THEN KillerStep(Goto(next)) /\ UNCHANGED outcome ELSE KillerEnds("lost")
  /\ Looks

\* signal_group
GroupSignalled ==
  /\ killer.at = "signal"
  /\ \/ /\ \E heard \in GroupStates \ {"eperm"} :
             KillerStep([killer EXCEPT !.at = "hook", !.heard = heard])
        /\ Kills(AliveMembers, IF lead THEN {"t"} ELSE {}) /\ UNCHANGED outcome
     \/ \* EPERM, after some members were hit
        /\ "eperm" \in GroupStates \/ "u" \in AliveMembers
        /\ \E hit \in SUBSET AliveMembers : Kills(hit, {})
        /\ KillerStep([killer EXCEPT !.at = "members", !.left = Known, !.fallback = TRUE]) /\ UNCHANGED outcome

\* The hook lets the supervisor reap; with a Reaped answer for this very identity the
\* killer only waits, without one it looks on.
HookReturns ==
  /\ killer.at = "hook"
  /\ LET next == IF killer.fallback THEN "sweep" ELSE IF killer.heard = "empty" THEN "wait" ELSE "states"
     IN \/ KillerStep([killer EXCEPT !.at = next, !.released = TRUE, !.left = Known]) /\ UNCHANGED pidSlot
        \/ /\ hooked /\ pidSlot["t"] \in {"zombie", "free"}
           /\ pidSlot' = [pidSlot EXCEPT !["t"] = "free"]
           /\ KillerStep([killer EXCEPT !.at = IF killer.fallback THEN "sweep" ELSE "acknowledged",
                                  !.released = TRUE, !.left = Known])
  /\ UNCHANGED <<lead, hooked, wronged, outcome>>

\* The direct probe comes first, the group's after it.
DirectProbed ==
  /\ killer.at \in {"states", "wait", "acknowledged", "final"} /\ killer.direct = "none"
  /\ \E d \in PidStates("t") : KillerStep([killer EXCEPT !.direct = d])
  /\ Looks /\ UNCHANGED outcome

\* classify_post_group_state, and the answers before and after the direct signal.
GroupProbed ==
  /\ killer.at \in {"states", "wait", "acknowledged", "final"} /\ killer.direct # "none"
  /\ \E g \in GroupStates :
       LET saw == <<killer.direct, g>>
           on(at) == [killer EXCEPT !.at = at, !.direct = "none"]
       IN CASE "eperm" \in {killer.direct, g} -> Denied
            [] saw = <<"empty", "empty">> -> KillerEnds("ok") /\ Looks
            [] saw = <<"present", "present">> /\ killer.at = "states" ->
                 KillerStep(on("recheck direct")) /\ Looks /\ UNCHANGED outcome
            [] saw = <<"present", "empty">> /\ killer.at = "wait" ->
                 KillerStep(on("same")) /\ Looks /\ UNCHANGED outcome
            [] OTHER -> KillerStep(on(IF killer.at = "states" THEN "wait" ELSE killer.at))
                        /\ Looks /\ UNCHANGED outcome

\* wait_after_group_signal_backend: a pid that outlives its group is the same process or lost.
WaitRevalidates ==
  /\ killer.at = "same"
  /\ \E same \in Identified("t") :
       IF same THEN KillerStep(Goto("wait")) /\ UNCHANGED outcome ELSE KillerEnds("lost")
  /\ Looks

\* Both are there: the direct signal needs the identity once more, else the killer waits.
DirectChecked ==
  /\ killer.at = "recheck direct"
  /\ \E same \in Identified("t") : KillerStep(Goto(IF same THEN "signal direct" ELSE "wait"))
  /\ Looks /\ UNCHANGED outcome

DirectSignalled ==
  /\ killer.at = "signal direct" /\ KillerStep(Goto("final"))
  /\ Kills({"t"}, {"t"} \cap {p \in Pids : pidSlot[p] = "stranger"}) /\ UNCHANGED outcome

(* The member way. *)

\* terminate_group_after_eperm: each member is probed, ...
MemberProbed(p) ==
  /\ killer.at = "members" /\ p \in killer.left
  /\ \E s \in PidStates(p) :
       CASE s = "eperm" -> KillerEnds("eperm")
         [] s = "empty" -> KillerStep([killer EXCEPT !.left = @ \ {p}]) /\ UNCHANGED outcome
         [] OTHER -> KillerStep([killer EXCEPT !.at = "member", !.left = @ \ {p}, !.heard = p]) /\ UNCHANGED outcome
  /\ Looks

\* ... identified ...
MemberChecked ==
  /\ killer.at = "member"
  /\ \E same \in Identified(killer.heard) :
       IF same THEN KillerStep(Goto("signal member")) /\ UNCHANGED outcome ELSE KillerEnds("lost")
  /\ Looks

\* ... and signalled.
MemberSignalled ==
  /\ killer.at = "signal member" /\ KillerStep(Goto("members"))
  /\ Kills({killer.heard}, {killer.heard} \cap {p \in Pids : pidSlot[p] = "stranger"})
  /\ UNCHANGED outcome

MembersDone ==
  /\ killer.at = "members" /\ killer.left = {}
  /\ KillerStep([killer EXCEPT !.at = "hook", !.heard = "present"])
  /\ Looks /\ UNCHANGED outcome

\* wait_after_identity_group: every known member, ...
SweepProbes(p) ==
  /\ killer.at = "sweep" /\ p \in killer.left
  /\ \E s \in PidStates(p) :
       IF s = "eperm" THEN KillerEnds("eperm")
       ELSE KillerStep([killer EXCEPT !.left = @ \ {p}, !.allEmpty = @ /\ s = "empty"]) /\ UNCHANGED outcome
  /\ Looks

\* Mutant: the known members are enough.
SweepEndsEarly ==
  /\ killer.at = "sweep" /\ killer.left = {}
  /\ IF killer.allEmpty THEN KillerEnds("ok")
     ELSE KillerStep([killer EXCEPT !.left = Known, !.allEmpty = TRUE]) /\ UNCHANGED outcome
  /\ Looks

\* ... and then the group, for the members nobody named.
SweepEnds ==
  /\ killer.at = "sweep" /\ killer.left = {}
  /\ \E g \in GroupStates :
       CASE g = "eperm" -> KillerEnds("eperm")
         [] g = "empty" -> KillerEnds(IF killer.allEmpty THEN "ok" ELSE "lost")
         [] OTHER -> KillerStep([killer EXCEPT !.left = Known, !.allEmpty = TRUE]) /\ UNCHANGED outcome
  /\ Looks

\* The shared deadline, a failed query, probe or signal, or a hook that fails.
KillerGivesUp == KillerEnds("failed") /\ Looks

GroupKillNext ==
  \/ \E p \in Pids : MemberExits(p) \/ MemberReaped(p) \/ NumberReused(p)
  \/ MemberForks
  \/ KillChecks("check", "recheck") \/ KillChecks("recheck", "signal")
  \/ GroupSignalled \/ HookReturns \/ DirectProbed \/ GroupProbed \/ WaitRevalidates
  \/ DirectChecked \/ DirectSignalled
  \/ \E p \in Known : MemberProbed(p) \/ SweepProbes(p)
  \/ MemberChecked \/ MemberSignalled \/ MembersDone \/ SweepEnds \/ KillerGivesUp

GroupKillSpec == GroupKillInit /\ [][GroupKillNext]_killVars

-----------------------------------------------------------------------------
(* Properties. *)

\* A group that is reported ended has nobody alive, not even a member no marker named
\* and whatever EPERM, late reaping or reuse the probes met (terminate_group_with_hook,
\* wait_after_identity_group).
EndedGroupIsDead == outcome = "ok" => AliveMembers = {}

\* No signal hits a stranger that already held the number when the killer last looked;
\* only a reuse between that look and the signal is left (validate_captured_identity).
NoKnownStrangerHit == ~wronged

\* A group is ended for good and nobody else with it (terminate_group_with_identity_fallback).
GroupEndIsSafe == EndedGroupIsDead /\ NoKnownStrangerHit
=============================================================================
