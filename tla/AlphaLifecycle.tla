--------------------------- MODULE AlphaLifecycle ---------------------------
(***************************************************************************)
(* What an alpha source promises: the lifecycle of alpha/schemas.py.       *)
(*                                                                         *)
(* A version of an alpha is registered as an idea, climbs the research     *)
(* chain to production and is demoted, disabled or rejected.  The status   *)
(* table allows single steps; the promises are about whole careers, so two *)
(* history variables remember what a version has been through.             *)
(* AlphaRegistry is the code that keeps these statuses in a database; it   *)
(* is checked, and proved, to implement this module.                       *)
(***************************************************************************)
EXTENDS Integers

CONSTANTS Versions   \* the (alpha_id, version) pairs

(* Research states, in the order the research chain visits them.           *)
ResearchStates == {"IDEA", "EXPLORATORY", "VALIDATED", "CONFIRMATORY",
                   "FORWARD_SHADOW"}

ProductionStates == {"CANARY_PRODUCTION", "LIMITED_PRODUCTION",
                     "NORMAL_PRODUCTION"}

(* Health readings of an alpha that is in production.                      *)
HealthStates == {"HEALTHY", "WEAKENING", "DECAYING"}

TerminalStates == {"REJECTED"}

AlphaStatus == ResearchStates \cup ProductionStates \cup HealthStates
                 \cup {"DORMANT", "REJECTED", "DISABLED"}

AllowedTransitions ==
  [IDEA               |-> {"EXPLORATORY", "REJECTED"},
   EXPLORATORY        |-> {"VALIDATED", "REJECTED"},
   VALIDATED          |-> {"CONFIRMATORY", "REJECTED"},
   CONFIRMATORY       |-> {"FORWARD_SHADOW", "REJECTED"},
   FORWARD_SHADOW     |-> {"CANARY_PRODUCTION", "DORMANT", "REJECTED"},
   CANARY_PRODUCTION  |-> {"LIMITED_PRODUCTION", "HEALTHY", "FORWARD_SHADOW"},
   LIMITED_PRODUCTION |-> {"NORMAL_PRODUCTION", "HEALTHY", "CANARY_PRODUCTION"},
   NORMAL_PRODUCTION  |-> {"HEALTHY", "WEAKENING", "LIMITED_PRODUCTION"},
   HEALTHY            |-> {"WEAKENING", "LIMITED_PRODUCTION"},
   WEAKENING          |-> {"HEALTHY", "DECAYING", "LIMITED_PRODUCTION"},
   DECAYING           |-> {"DORMANT", "CANARY_PRODUCTION"},
   DORMANT            |-> {"EXPLORATORY", "REJECTED"},
   REJECTED           |-> {},
   DISABLED           |-> {"DORMANT", "REJECTED"}]

(* Mutant: a stopped alpha may go straight back to production.            *)
StopMayResume(from, to) ==
  \/ from = "DISABLED" /\ to = "CANARY_PRODUCTION"
  \/ IF to = "DISABLED" THEN from \notin TerminalStates
                        ELSE to \in AllowedTransitions[from]

(* Mutant: a good health reading is enough for a full allocation.          *)
HealthyMayScale(from, to) ==
  \/ from = "HEALTHY" /\ to = "NORMAL_PRODUCTION"
  \/ IF to = "DISABLED" THEN from \notin TerminalStates
                        ELSE to \in AllowedTransitions[from]

(* The emergency stop is an edge from every state that is not terminal.    *)
TransitionAllowed(from, to) ==
  IF to = "DISABLED" THEN from \notin TerminalStates
                     ELSE to \in AllowedTransitions[from]

(* The statuses whose row is refused unless the hypothesis was frozen.     *)
NeedsFreeze == {"CONFIRMATORY", "FORWARD_SHADOW"} \cup ProductionStates

VARIABLES
  status,   \* status of each version, or "none" before it is registered
  frozen,   \* frozen_at is set: decided when the version is registered
  passed,   \* history: research states entered since it last began
  rung      \* history: the rung of the production ladder it holds (0: none)

vars == <<status, frozen, passed, rung>>

Rungs == [FORWARD_SHADOW |-> 1, CANARY_PRODUCTION |-> 2,
          LIMITED_PRODUCTION |-> 3, NORMAL_PRODUCTION |-> 4]

(* What a version has passed, and the rung it holds, once it enters s.     *)
PassedIn(p, s) == IF s = "EXPLORATORY" THEN {s}
                  ELSE IF s \in ResearchStates THEN p \cup {s} ELSE p

RungIn(r, s) == IF s \in DOMAIN Rungs THEN Rungs[s]
                ELSE IF s \in ResearchStates \cup {"DORMANT"} THEN 0 ELSE r

TypeOK ==
  /\ status \in [Versions -> AlphaStatus \cup {"none"}]
  /\ frozen \in [Versions -> BOOLEAN]
  /\ passed \in [Versions -> SUBSET ResearchStates]
  /\ rung \in [Versions -> 0..4]

Init ==
  /\ status = [v \in Versions |-> "none"]
  /\ frozen = [v \in Versions |-> FALSE]
  /\ passed = [v \in Versions |-> {}]
  /\ rung = [v \in Versions |-> 0]

Enter(v, s) ==
  /\ status' = [status EXCEPT ![v] = s]
  /\ passed' = [passed EXCEPT ![v] = PassedIn(@, s)]
  /\ rung' = [rung EXCEPT ![v] = RungIn(@, s)]

(* A version starts as an idea and decides then whether it is frozen.      *)
Register(v, f) ==
  /\ status[v] = "none"
  /\ Enter(v, "IDEA")
  /\ frozen' = [frozen EXCEPT ![v] = f]

Move(v, s) ==
  /\ status[v] # "none"
  /\ s # status[v]
  /\ TransitionAllowed(status[v], s)
  /\ s \in NeedsFreeze => frozen[v]
  /\ Enter(v, s)
  /\ UNCHANGED frozen

Next ==
  \E v \in Versions :
    \/ \E f \in BOOLEAN : Register(v, f)
    \/ \E s \in AlphaStatus : Move(v, s)

Spec == Init /\ [][Next]_vars

-----------------------------------------------------------------------------
(* Properties.                                                             *)

(* A version that earns, in production or under a health reading, is       *)
(* frozen and has been validated, confirmed and shadowed since its last    *)
(* (re)start as exploratory, however often it was demoted, disabled,       *)
(* retested and promoted in between (schemas.py: "an alpha cannot skip     *)
(* confirmation").                                                         *)
ProductionWasConfirmed ==
  \A v \in Versions :
    status[v] \in ProductionStates \cup HealthStates =>
      /\ frozen[v]
      /\ {"VALIDATED", "CONFIRMATORY", "FORWARD_SHADOW"} \subseteq passed[v]

(* Allocation is earned one rung at a time: no path through the health     *)
(* readings, a demotion or a stop raises a version more than one rung      *)
(* above the last one it held (schemas.py: "starts at CANARY with a small  *)
(* allocation and earns its way up").                                      *)
PromotionIsEarned == [][\A v \in Versions : rung'[v] =< rung[v] + 1]_vars

=============================================================================
