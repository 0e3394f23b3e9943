------------------------ MODULE AlphaLifecycle_proofs ------------------------
(***************************************************************************)
(* The lifecycle's promises, for any number of versions.  The invariant    *)
(* that carries both says, for every status, which rung a version in that  *)
(* status can hold and what it must have passed: the health readings have  *)
(* no rung of their own, so their predecessors' has to be remembered.      *)
(***************************************************************************)
EXTENDS AlphaLifecycle, TLAPS

(* The rung that goes with a status.                                       *)
RungFits(s, r) ==
  /\ r \in 0..4
  /\ s \in DOMAIN Rungs => r = Rungs[s]
  /\ s \in {"none", "IDEA", "EXPLORATORY", "VALIDATED", "CONFIRMATORY",
            "DORMANT"} => r = 0
  /\ s \in HealthStates => r >= 2

(* What a version in a status has passed.                                  *)
PassedFits(s, f, p) ==
  /\ s \in {"VALIDATED", "CONFIRMATORY", "FORWARD_SHADOW"}
             \cup ProductionStates \cup HealthStates => "VALIDATED" \in p
  /\ s \in {"CONFIRMATORY", "FORWARD_SHADOW"} \cup ProductionStates
             \cup HealthStates => f /\ "CONFIRMATORY" \in p
  /\ s \in {"FORWARD_SHADOW"} \cup ProductionStates
             \cup HealthStates => "FORWARD_SHADOW" \in p

IInv ==
  /\ TypeOK
  /\ \A v \in Versions : RungFits(status[v], rung[v])
  /\ \A v \in Versions : PassedFits(status[v], frozen[v], passed[v])

-----------------------------------------------------------------------------
(* Facts about one edge of the lifecycle.                                  *)

LEMMA EntryTypes ==
  ASSUME NEW s \in AlphaStatus, NEW p \in SUBSET ResearchStates, NEW r \in 0..4
  PROVE  PassedIn(p, s) \in SUBSET ResearchStates /\ RungIn(r, s) \in 0..4
BY DEF AlphaStatus, PassedIn, RungIn, Rungs, ResearchStates

(* An edge keeps the rung fitting, and raises it by one at most.           *)
LEMMA EdgeKeepsRung ==
  ASSUME NEW from \in AlphaStatus, NEW to \in AlphaStatus, NEW r,
         RungFits(from, r), TransitionAllowed(from, to)
  PROVE  RungFits(to, RungIn(r, to)) /\ RungIn(r, to) =< r + 1
<1>1. CASE to \in {"DISABLED", "REJECTED"}
  BY <1>1 DEF RungFits, RungIn, Rungs, ResearchStates, HealthStates
<1>2. CASE to \in ResearchStates \cup {"DORMANT"}
  <2>1. to = "FORWARD_SHADOW" => from \in {"CONFIRMATORY", "CANARY_PRODUCTION"}
    BY DEF TransitionAllowed, AllowedTransitions, AlphaStatus, ResearchStates,
           ProductionStates, HealthStates
  <2>2. QED BY <1>2, <2>1 DEF RungFits, RungIn, Rungs, ResearchStates, HealthStates
<1>3. CASE to \in ProductionStates
  <2>1. /\ to = "CANARY_PRODUCTION" =>
             from \in {"FORWARD_SHADOW", "LIMITED_PRODUCTION", "DECAYING"}
        /\ to = "LIMITED_PRODUCTION" =>
             from \in {"CANARY_PRODUCTION", "NORMAL_PRODUCTION", "HEALTHY", "WEAKENING"}
        /\ to = "NORMAL_PRODUCTION" => from = "LIMITED_PRODUCTION"
    BY DEF TransitionAllowed, AllowedTransitions, AlphaStatus, ResearchStates,
           ProductionStates, HealthStates
  <2>2. QED BY <1>3, <2>1 DEF RungFits, RungIn, Rungs, HealthStates, ProductionStates
<1>4. CASE to \in HealthStates
  <2>1. from \in ProductionStates \cup HealthStates
    BY <1>4 DEF TransitionAllowed, AllowedTransitions, AlphaStatus, ResearchStates,
           ProductionStates, HealthStates
  <2>2. QED
    BY <1>4, <2>1 DEF RungFits, RungIn, Rungs, HealthStates, ProductionStates, ResearchStates
<1>5. QED BY <1>1, <1>2, <1>3, <1>4 DEF AlphaStatus

(* An edge keeps what the new status requires passed.                      *)
LEMMA EdgeKeepsPassed ==
  ASSUME NEW from \in AlphaStatus, NEW to \in AlphaStatus, NEW f, NEW p,
         PassedFits(from, f, p), TransitionAllowed(from, to),
         to \in NeedsFreeze => f
  PROVE  PassedFits(to, f, PassedIn(p, to))
<1>1. CASE to \in {"DISABLED", "REJECTED", "DORMANT", "IDEA", "EXPLORATORY"}
  BY <1>1 DEF PassedFits, ProductionStates, HealthStates
<1>2. CASE to \in {"VALIDATED", "CONFIRMATORY"}
  <2>1. to = "CONFIRMATORY" => from = "VALIDATED"
    BY DEF TransitionAllowed, AllowedTransitions, AlphaStatus, ResearchStates,
           ProductionStates, HealthStates
  <2>2. QED
    BY <1>2, <2>1 DEF PassedFits, PassedIn, NeedsFreeze, ResearchStates,
                      ProductionStates, HealthStates
<1>3. CASE to \in {"FORWARD_SHADOW"} \cup ProductionStates \cup HealthStates
  <2>1. \/ from \in {"FORWARD_SHADOW"} \cup ProductionStates \cup HealthStates
        \/ from = "CONFIRMATORY" /\ to = "FORWARD_SHADOW"
    BY <1>3 DEF TransitionAllowed, AllowedTransitions, AlphaStatus, ResearchStates,
                ProductionStates, HealthStates
  <2>2. QED
    BY <1>3, <2>1 DEF PassedFits, PassedIn, ResearchStates, ProductionStates, HealthStates
<1>4. QED BY <1>1, <1>2, <1>3 DEF AlphaStatus, ResearchStates

-----------------------------------------------------------------------------
LEMMA InitIInv == Init => IInv
BY DEF Init, IInv, TypeOK, RungFits, PassedFits, Rungs, ProductionStates, HealthStates

LEMMA RegisterPreserves ==
  ASSUME IInv, NEW v \in Versions, NEW f \in BOOLEAN, Register(v, f)
  PROVE  IInv' /\ \A w \in Versions : rung'[w] =< rung[w] + 1
<1>1. /\ status' = [status EXCEPT ![v] = "IDEA"]
      /\ frozen' = [frozen EXCEPT ![v] = f]
      /\ passed' = [passed EXCEPT ![v] = PassedIn(@, "IDEA")]
      /\ rung' = [rung EXCEPT ![v] = RungIn(@, "IDEA")]
  BY DEF Register, Enter
<1>2. "IDEA" \in AlphaStatus BY DEF AlphaStatus, ResearchStates
<1>3. TypeOK' BY <1>1, <1>2, EntryTypes DEF IInv, TypeOK
<1>4. RungIn(rung[v], "IDEA") = 0 BY DEF RungIn, Rungs, ResearchStates
<1>5. \A w \in Versions : RungFits(status'[w], rung'[w])
  BY <1>1, <1>4 DEF IInv, TypeOK, RungFits, Rungs, HealthStates
<1>6. \A w \in Versions : PassedFits(status'[w], frozen'[w], passed'[w])
  BY <1>1 DEF IInv, TypeOK, PassedFits, ProductionStates, HealthStates
<1>7. \A w \in Versions : rung'[w] =< rung[w] + 1
  BY <1>1, <1>4 DEF IInv, TypeOK
<1>8. QED BY <1>3, <1>5, <1>6, <1>7 DEF IInv

LEMMA MovePreserves ==
  ASSUME IInv, NEW v \in Versions, NEW s \in AlphaStatus, Move(v, s)
  PROVE  IInv' /\ \A w \in Versions : rung'[w] =< rung[w] + 1
<1>1. /\ status' = [status EXCEPT ![v] = s]
      /\ frozen' = frozen
      /\ passed' = [passed EXCEPT ![v] = PassedIn(@, s)]
      /\ rung' = [rung EXCEPT ![v] = RungIn(@, s)]
  BY DEF Move, Enter
<1>2. /\ status[v] \in AlphaStatus
      /\ TransitionAllowed(status[v], s)
      /\ s \in NeedsFreeze => frozen[v]
  BY DEF Move, IInv, TypeOK
<1>3. TypeOK' BY <1>1, EntryTypes DEF IInv, TypeOK
<1>4. RungFits(s, RungIn(rung[v], s)) /\ RungIn(rung[v], s) =< rung[v] + 1
  BY <1>2, EdgeKeepsRung DEF IInv
<1>5. PassedFits(s, frozen[v], PassedIn(passed[v], s))
  BY <1>2, EdgeKeepsPassed DEF IInv
<1>6. \A w \in Versions : RungFits(status'[w], rung'[w])
  BY <1>1, <1>4 DEF IInv, TypeOK
<1>7. \A w \in Versions : PassedFits(status'[w], frozen'[w], passed'[w])
  BY <1>1, <1>5 DEF IInv, TypeOK
<1>8. \A w \in Versions : rung'[w] =< rung[w] + 1
  BY <1>1, <1>4 DEF IInv, TypeOK
<1>9. QED BY <1>3, <1>6, <1>7, <1>8 DEF IInv

LEMMA NextPreserves ==
  ASSUME IInv, [Next]_vars
  PROVE  IInv' /\ [\A w \in Versions : rung'[w] =< rung[w] + 1]_vars
<1>1. CASE UNCHANGED vars
  BY <1>1 DEF vars, IInv, TypeOK
<1>2. CASE Next
  BY <1>2, RegisterPreserves, MovePreserves DEF Next
<1>3. QED BY <1>1, <1>2

(* The strengthened invariant holds in every state.                        *)
THEOREM Inductive == Spec => []IInv
BY InitIInv, NextPreserves, PTL DEF Spec

(* Statuses, flags and history variables keep their types.                 *)
THEOREM TypeCorrect == Spec => []TypeOK
<1>1. IInv => TypeOK BY DEF IInv
<1>2. QED BY <1>1, Inductive, PTL

(* Whatever path its career takes, a version that earns is frozen and was  *)
(* validated, confirmed and shadowed since it last began.                  *)
THEOREM ProductionIsConfirmed == Spec => []ProductionWasConfirmed
<1>1. IInv => ProductionWasConfirmed
  BY DEF IInv, PassedFits, ProductionWasConfirmed
<1>2. QED BY <1>1, Inductive, PTL

(* No step of any career gains more than one rung of allocation.           *)
THEOREM PromotionEarned == Spec => PromotionIsEarned
<1>1. IInv /\ [Next]_vars => [\A v \in Versions : rung'[v] =< rung[v] + 1]_vars
  BY NextPreserves
<1>2. QED BY <1>1, Inductive, PTL DEF Spec, PromotionIsEarned

=============================================================================
