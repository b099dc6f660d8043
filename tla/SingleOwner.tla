----------------------------- MODULE SingleOwner -----------------------------
(***************************************************************************)
(* What the sidecar supervisor promises its host: there is never more than *)
(* one live sidecar, a new one is started only when the process of the     *)
(* previous one is known to be gone and its owner released, and after the  *)
(* supervisor has given up it starts none.  Descendants of an ended        *)
(* sidecar may be left behind; they never become a live one again.         *)
(***************************************************************************)
EXTENDS Naturals

VARIABLES live,    \* the generations that run or are owned
          left,    \* ended generations some of whose descendants may still run
          gen,     \* the latest generation
          gaveUp   \* no further generation will be started

ownerVars == <<live, left, gen, gaveUp>>

OwnerInit == live = {} /\ left = {} /\ gen = 0 /\ gaveUp = FALSE

\* A generation is started, and its tree may fail to come up at once.
Launch ==
  /\ live = {}
  /\ ~gaveUp
  /\ gen' = gen + 1
  /\ live' \in {{}, {gen + 1}}
  /\ left' \in SUBSET (left \cup {gen + 1})
  /\ gaveUp' \in BOOLEAN

\* Sidecars go away, perhaps not with everything they started; the supervisor may
\* give up, for good.
Settle ==
  /\ live' \in SUBSET live
  /\ left' \in SUBSET (left \cup (live \ live'))
  /\ gen' = gen
  /\ gaveUp' \in BOOLEAN
  /\ gaveUp => gaveUp'

OwnerNext == Launch \/ Settle
OwnerSpec == OwnerInit /\ [][OwnerNext]_ownerVars
=============================================================================
