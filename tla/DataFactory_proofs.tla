-------------------------- MODULE DataFactory_proofs --------------------------
(***************************************************************************)
(* The data factory for any series, catalogue, outcomes, policies and      *)
(* interruptions: it does to the queue only what the queue promises, no    *)
(* trigger is lost or earned twice, and what stands in the queue is        *)
(* approved, tried and backed by data.                                     *)
(***************************************************************************)
EXTENDS DataFactory, TLAPS

-----------------------------------------------------------------------------
(* The queue alone.                                                        *)

(* A question nobody approved has no approver: what makes the first        *)
(* approval the only one.                                                  *)
QueueIInv ==
  /\ QueueTypeOK
  /\ TrialDiscipline
  /\ \A q \in Questions : status[q] \in {"none", "PROPOSED"} => approver[q] = Nobody

LEMMA Moves ==
  ASSUME NEW from \in ResearchStatus
  PROVE  /\ AllowedTransitions[from] \subseteq ResearchStatus \ {"PROPOSED"}
         /\ "PROMOTED" \in AllowedTransitions[from] => from = "MEASURED"
         /\ "MEASURED" \in AllowedTransitions[from] => from = "RUNNING"
  BY DEF ResearchStatus, AllowedTransitions

LEMMA QueueStep ==
  ASSUME QueueIInv, [QueueNext]_queueVars
  PROVE  QueueIInv'
<1> USE DEF QueueIInv, QueueTypeOK, TrialDiscipline, ResearchStatus
<1>1. ASSUME NEW q \in Questions, Propose(q) PROVE QueueIInv'
  BY <1>1 DEF Propose
<1>2. ASSUME NEW q \in Questions, NEW who \in People, NEW withTrial \in BOOLEAN,
             Approve(q, who, withTrial)
      PROVE QueueIInv'
  <2>1. (status \in [Questions -> ResearchStatus \cup {"none"}])'
        /\ (approver \in [Questions -> People \cup {Nobody}])'
    BY <1>2 DEF Approve
  <2>2. (trial \in [Questions -> BOOLEAN])'
    BY <1>2 DEF Approve
  <2>3. TrialDiscipline' /\ QueueIInv!3'
    BY <1>2, QueueAssumption DEF Approve
  <2> QED BY <2>1, <2>2, <2>3
<1>3. ASSUME NEW q \in Questions, NEW to \in ResearchStatus, MoveOn(q, to)
      PROVE QueueIInv'
  <2>1. status[q] \in ResearchStatus /\ to # "PROPOSED"
    BY <1>3, Moves DEF MoveOn
  <2>2. to \in {"MEASURED", "PROMOTED"} => status[q] \in {"RUNNING", "MEASURED"}
    BY <1>3, <2>1, Moves DEF MoveOn
  <2>3. QueueTypeOK'
    BY <1>3 DEF MoveOn
  <2>4. TrialDiscipline' /\ QueueIInv!3'
    BY <1>3, <2>1, <2>2 DEF MoveOn
  <2> QED BY <2>3, <2>4
<1>4. CASE UNCHANGED queueVars
  BY <1>4 DEF queueVars
<1> QED BY <1>1, <1>2, <1>3, <1>4 DEF QueueNext

LEMMA QueueInvariant == QueueSpec => []QueueIInv
<1>1. QueueInit => QueueIInv
  BY DEF QueueInit, QueueIInv, QueueTypeOK, TrialDiscipline
<1> QED BY <1>1, QueueStep, PTL DEF QueueSpec

(* For any people and questions: nobody's question runs without a trial.   *)
THEOREM QueueKeepsTrials == QueueSpec => []TrialDiscipline
<1>1. QueueIInv => TrialDiscipline
  BY DEF QueueIInv
<1> QED BY <1>1, QueueInvariant, PTL

(* And no later call replaces the first approval.                          *)
THEOREM QueueKeepsApprovals == QueueSpec => ApprovalIsForGood
<1> DEFINE Kept == \A q \in Questions :
                     approver[q] # Nobody => /\ approver'[q] = approver[q]
                                             /\ trial'[q] = trial[q]
<1>1. ASSUME QueueIInv, [QueueNext]_queueVars PROVE [Kept]_queueVars
  <2> USE DEF QueueIInv, QueueTypeOK
  <2>1. ASSUME NEW q \in Questions, Propose(q) PROVE Kept
    BY <1>1, <2>1 DEF Propose
  <2>2. ASSUME NEW q \in Questions, NEW who \in People, NEW withTrial \in BOOLEAN,
               Approve(q, who, withTrial)
        PROVE  Kept
    BY <1>1, <2>2 DEF Approve
  <2>3. ASSUME NEW q \in Questions, NEW to \in ResearchStatus, MoveOn(q, to)
        PROVE  Kept
    BY <1>1, <2>3 DEF MoveOn
  <2> QED BY <1>1, <2>1, <2>2, <2>3 DEF QueueNext
<1> QED BY <1>1, QueueInvariant, PTL DEF QueueSpec, ApprovalIsForGood

-----------------------------------------------------------------------------
(* The inductive invariant of the factory.                                 *)

(* What a command knows of the outcome it applies.                         *)
ApplyFits ==
  /\ phase = "apply" => subject \in DOMAIN Outcomes
  /\ path \in Seq(ResearchStatus)

(* Triggers about to be stored are new, and those before them are stored   *)
(* or about to be.                                                         *)
EarnedFits ==
  /\ earned \cap triggers = {}
  /\ \A k \in earned, m \in Milestones :
       m < k.milestone => [k EXCEPT !.milestone = m] \in triggers \cup earned

(* What a run proposed is proposed.                                        *)
InsertedIsAsked == \A k \in inserted : status[Asks(k)] # "none"

IInv ==
  /\ QueueIInv
  /\ TypeOK
  /\ ApplyFits
  /\ EarnedFits
  /\ InsertedIsAsked
  /\ HandoffIsSound

LEMMA AsksAQuestion ==
  /\ \A k \in Triggers : Asks(k) \in Questions /\ Asks(k) \notin Catalog
  /\ DOMAIN Outcomes \subseteq Questions
  BY FactoryAssumption DEF Triggers, Asks

LEMMA LevelType == \A state \in Verdicts : Level[state] \in Int
<1> SUFFICES ASSUME NEW e \in Evidence PROVE Level[Readiness(e)] \in Int
  BY DEF Verdicts
<1> QED BY DEF Readiness, Level

LEMMA EarlierIsATrigger ==
  ASSUME NEW k \in Triggers, NEW m \in Milestones
  PROVE  [k EXCEPT !.milestone = m] \in Triggers
  BY DEF Triggers

(* Every way an outcome may take is a sequence of statuses.                *)
LEMMA PathsAreSequences ==
  ASSUME NEW from \in ResearchStatus, NEW q \in DOMAIN Outcomes,
         NEW p \in MeasuredOutcomePaths(from, Outcomes[q])
  PROVE  p \in Seq(ResearchStatus)
<1>1. Outcomes[q].status \in ResearchStatus
  BY FactoryAssumption
<1>2. CASE Outcomes[q].trial /\ from = "PROPOSED"
  BY <1>1, <1>2 DEF MeasuredOutcomePaths, ResearchStatus
<1>3. CASE ~(Outcomes[q].trial /\ from = "PROPOSED")
  <2>1. p \in Ways(from, Outcomes[q].status)
    BY <1>1, <1>3 DEF MeasuredOutcomePaths, WaysTable
  <2>2. PICK n \in 1..4 : p \in [1..n -> ResearchStatus]
    BY <2>1 DEF Ways
  <2> QED BY <2>2
<1> QED BY <1>2, <1>3

(* A question that was proposed stays proposed or beyond.                  *)
LEMMA AskedStaysAsked ==
  ASSUME QueueIInv, [QueueNext]_queueVars, NEW q \in Questions, status[q] # "none"
  PROVE  status'[q] # "none"
<1> USE DEF QueueIInv, QueueTypeOK, ResearchStatus
<1>1. ASSUME NEW r \in Questions, Propose(r) PROVE status'[q] # "none"
  BY <1>1 DEF Propose
<1>2. ASSUME NEW r \in Questions, NEW who \in People, NEW withTrial \in BOOLEAN,
             Approve(r, who, withTrial)
      PROVE  status'[q] # "none"
  BY <1>2 DEF Approve
<1>3. ASSUME NEW r \in Questions, NEW to \in ResearchStatus, MoveOn(r, to)
      PROVE  status'[q] # "none"
  BY <1>3 DEF MoveOn
<1> QED BY <1>1, <1>2, <1>3 DEF QueueNext, queueVars

-----------------------------------------------------------------------------
(* The factory drives the queue: each of its steps is one step of the      *)
(* queue, or leaves it alone.                                              *)
LEMMA StepOfTheQueue ==
  ASSUME TypeOK, ApplyFits, [Next]_vars
  PROVE  [QueueNext]_queueVars
<1>1. CASE StartIngest
  BY <1>1 DEF StartIngest
<1>2. ASSUME NEW s \in Series, NEW state \in Verdicts, IngestOne(s, state)
      PROVE  UNCHANGED queueVars
  BY <1>2 DEF IngestOne
<1>3. ASSUME NEW k \in Triggers, StoreTrigger(k) PROVE UNCHANGED queueVars
  BY <1>3 DEF StoreTrigger
<1>4. ASSUME NEW k \in Triggers, SeedFromDataReadiness(k)
      PROVE  [QueueNext]_queueVars
  BY <1>4, AsksAQuestion DEF SeedFromDataReadiness, QueueNext
<1>5. ASSUME NEW k \in Triggers, MarkHandedOff(k) PROVE UNCHANGED queueVars
  BY <1>5 DEF MarkHandedOff
<1>6. CASE EndRun
  BY <1>6 DEF EndRun
<1>7. CASE ChangePolicy
  BY <1>7 DEF ChangePolicy
<1>8. ASSUME NEW q \in Questions, SeedFromCatalog(q) PROVE QueueNext
  BY <1>8 DEF SeedFromCatalog, QueueNext
<1>9. ASSUME NEW q \in Questions, HumanMove(q) PROVE QueueNext
  BY <1>9 DEF HumanMove, QueueNext
<1>10. ASSUME NEW q \in Questions, ApplyOutcome(q) PROVE UNCHANGED queueVars
  BY <1>10 DEF ApplyOutcome
<1>11. CASE ApplyMove
  <2>1. subject \in Questions /\ Outcomes[subject].by \in People
        /\ Outcomes[subject].trial \in BOOLEAN
    BY <1>11, AsksAQuestion, FactoryAssumption DEF ApplyMove, ApplyFits
  <2>2. Head(path) \in ResearchStatus
    BY <1>11 DEF ApplyMove, ApplyFits
  <2> QED BY <1>11, <2>1, <2>2 DEF ApplyMove, QueueNext
<1>12. CASE EndApply
  BY <1>12 DEF EndApply
<1>13. CASE Crash
  BY <1>13 DEF Crash
<1>14. CASE UNCHANGED vars
  BY <1>14 DEF vars
<1> QED BY <1>1, <1>2, <1>3, <1>4, <1>5, <1>6, <1>7, <1>8, <1>9, <1>10, <1>11,
           <1>12, <1>13, <1>14 DEF Next, IngestStep

-----------------------------------------------------------------------------
(* Every step keeps the invariant: apart from the queue, a step disturbs   *)
(* only the ingest run, the hand-off, or the outcome that is applied.      *)
LEMMA FactoryInit == Init => IInv
<1> SUFFICES ASSUME Init PROVE IInv
  OBVIOUS
<1>1. QueueIInv
  BY DEF Init, QueueInit, QueueIInv, QueueTypeOK, TrialDiscipline
<1>2. TypeOK
  BY <1>1, FactoryAssumption DEF Init, TypeOK, QueueIInv, Phases
<1>3. ApplyFits /\ EarnedFits /\ InsertedIsAsked
  BY DEF Init, ApplyFits, EarnedFits, InsertedIsAsked
<1>4. HandoffIsSound
  BY DEF Init, QueueInit, HandoffIsSound, MilestonesInOrder, QuestionsAreBacked,
         UnproposedIsACrash
<1> QED BY <1>1, <1>2, <1>3, <1>4 DEF IInv

LEMMA FactoryStep ==
  ASSUME IInv, [Next]_vars
  PROVE  IInv'
<1> USE DEF IInv
<1>1. QueueIInv' /\ QueueTypeOK'
  BY StepOfTheQueue, QueueStep DEF QueueIInv
<1>2. \A q \in Questions : status[q] # "none" => status'[q] # "none"
  BY StepOfTheQueue, AskedStaysAsked
<1>3. \A k \in triggers \cup fresh \cup inserted \cup earned \cup handedOff :
        k \in Triggers /\ Asks(k) \in Questions
  BY AsksAQuestion DEF TypeOK
<1>4. CASE StartIngest
  <2>1. TypeOK' /\ ApplyFits'
    BY <1>1, <1>4 DEF StartIngest, TypeOK, Phases, ApplyFits, applyVars, factoryVars
  <2>2. EarnedFits' /\ InsertedIsAsked' /\ HandoffIsSound'
    BY <1>4 DEF StartIngest, EarnedFits, InsertedIsAsked, HandoffIsSound, queueVars,
       MilestonesInOrder, QuestionsAreBacked, UnproposedIsACrash, factoryVars
  <2> QED BY <1>1, <2>1, <2>2
<1>5. ASSUME NEW s \in Series, NEW state \in Verdicts, IngestOne(s, state)
      PROVE  IInv'
  <2>1. TypeOK' /\ ApplyFits'
    BY <1>1, <1>5 DEF IngestOne, TypeOK, Earns, ApplyFits, applyVars, factoryVars
  <2>2. EarnedFits'
    <3>1. earned' = Earns(s, state) /\ triggers' = triggers
      BY <1>5 DEF IngestOne, factoryVars
    <3>2. ASSUME NEW k \in Earns(s, state), NEW m \in Milestones, m < k.milestone
          PROVE  [k EXCEPT !.milestone = m] \in triggers \cup Earns(s, state)
      <4> DEFINE e == [k EXCEPT !.milestone = m]
      <4>1. k \in Triggers /\ k.series = s /\ k.policy = policy
            /\ k.milestone =< Level[state]
        BY DEF Earns
      <4>2. e \in Triggers /\ e.series = s /\ e.policy = policy /\ e.milestone = m
        BY <4>1, EarlierIsATrigger DEF Triggers
      <4>3. m =< Level[state]
        BY <3>2, <4>1, LevelType, FactoryAssumption DEF Triggers, Milestones
      <4> QED BY <4>2, <4>3 DEF Earns
    <3> QED BY <3>1, <3>2 DEF EarnedFits, Earns
  <2>3. InsertedIsAsked' /\ HandoffIsSound'
    BY <1>5 DEF IngestOne, InsertedIsAsked, HandoffIsSound, queueVars,
       MilestonesInOrder, QuestionsAreBacked, UnproposedIsACrash, factoryVars
  <2> QED BY <1>1, <2>1, <2>2, <2>3
<1>6. ASSUME NEW k \in Triggers, StoreTrigger(k)
      PROVE  IInv'
  <2>0. UNCHANGED <<status, approver, trial, policy, phase, waiting, inserted,
                    subject, path, moves, crashes>>
        /\ earned' = earned \ {k} /\ triggers' = triggers \cup {k}
        /\ handedOff' = handedOff \ {k} /\ fresh' = fresh \cup {k}
        /\ k \in earned /\ IsNext(k)
    BY <1>6 DEF StoreTrigger, queueVars, applyVars
  <2>1. TypeOK' /\ ApplyFits'
    BY <1>1, <2>0 DEF TypeOK, ApplyFits
  <2>2. MilestonesInOrder' /\ EarnedFits'
    <3>1. ASSUME NEW m \in Milestones, m < k.milestone
          PROVE  [k EXCEPT !.milestone = m] \in triggers
      <4>1. [k EXCEPT !.milestone = m] \in triggers \cup earned
        BY <2>0, <3>1 DEF EarnedFits
      <4>2. [k EXCEPT !.milestone = m].milestone = m /\ m \in Int /\ k.milestone \in Int
        BY FactoryAssumption DEF Triggers, Milestones
      <4>3. [k EXCEPT !.milestone = m] \in earned => k.milestone =< m
        BY <2>0, <4>2 DEF IsNext
      <4> QED BY <3>1, <4>1, <4>2, <4>3
    <3>2. MilestonesInOrder'
      BY <2>0, <3>1 DEF HandoffIsSound, MilestonesInOrder
    <3>3. EarnedFits'
      BY <2>0 DEF EarnedFits
    <3> QED BY <3>2, <3>3
  <2>3. InsertedIsAsked' /\ QuestionsAreBacked' /\ UnproposedIsACrash'
    BY <2>0 DEF InsertedIsAsked, HandoffIsSound, QuestionsAreBacked,
       UnproposedIsACrash, Asks
  <2> QED BY <1>1, <2>1, <2>2, <2>3 DEF HandoffIsSound
<1>7. ASSUME NEW k \in Triggers, SeedFromDataReadiness(k)
      PROVE  IInv'
  <2>0. UNCHANGED <<triggers, handedOff, policy, phase, waiting, earned, subject,
                    path, moves, crashes>>
        /\ fresh' = fresh \ {k} /\ k \in fresh
    BY <1>7 DEF SeedFromDataReadiness, factoryVars, applyVars
  <2>1. k.milestone = Exploratory => status'[Asks(k)] # "none"
    <3>1. ASSUME Propose(Asks(k)) PROVE status'[Asks(k)] = "PROPOSED"
      BY <3>1, <1>3, <2>0 DEF Propose, QueueIInv, QueueTypeOK
    <3> QED BY <1>2, <1>3, <1>7, <2>0, <3>1 DEF SeedFromDataReadiness
  <2>2. inserted' = inserted \/ (inserted' = inserted \cup {k} /\ k.milestone = Exploratory)
    BY <1>7 DEF SeedFromDataReadiness
  <2>3. TypeOK' /\ ApplyFits'
    BY <1>1, <2>0, <2>2 DEF TypeOK, ApplyFits
  <2>4. EarnedFits' /\ MilestonesInOrder'
    BY <2>0 DEF EarnedFits, HandoffIsSound, MilestonesInOrder
  <2>5. InsertedIsAsked'
    BY <1>2, <1>3, <2>1, <2>2 DEF InsertedIsAsked
  <2>6. QuestionsAreBacked'
    <3>1. \A q \in Questions : status'[q] = status[q] \/ q = Asks(k)
      BY <1>7 DEF SeedFromDataReadiness, Propose, queueVars, QueueIInv, QueueTypeOK
    <3>2. k \in triggers
      BY <2>0 DEF TypeOK
    <3> QED BY <1>2, <1>3, <2>0, <3>1, <3>2 DEF HandoffIsSound, QuestionsAreBacked
  <2>7. UnproposedIsACrash'
    BY <1>2, <1>3, <2>0, <2>1 DEF HandoffIsSound, UnproposedIsACrash
  <2> QED BY <1>1, <2>3, <2>4, <2>5, <2>6, <2>7 DEF HandoffIsSound
<1>8. ASSUME NEW k \in Triggers, MarkHandedOff(k)
      PROVE  IInv'
  <2>0. UNCHANGED <<status, approver, trial, triggers, policy, phase, waiting,
                    earned, fresh, subject, path, moves, crashes>>
        /\ inserted' = inserted \ {k} /\ handedOff' = handedOff \cup {k}
        /\ k \in inserted
    BY <1>8 DEF MarkHandedOff, queueVars, applyVars
  <2>1. TypeOK' /\ ApplyFits'
    BY <1>1, <2>0 DEF TypeOK, ApplyFits
  <2>2. EarnedFits' /\ InsertedIsAsked' /\ HandoffIsSound'
    BY <2>0 DEF EarnedFits, InsertedIsAsked, HandoffIsSound, MilestonesInOrder,
       QuestionsAreBacked, UnproposedIsACrash
  <2> QED BY <1>1, <2>1, <2>2
<1>9. CASE EndRun \/ ChangePolicy
  <2>0. UNCHANGED <<status, approver, trial, triggers, handedOff, waiting, earned,
                    fresh, inserted, subject, path, moves, crashes>>
        /\ phase' \in Phases /\ policy' \in 1..MaxPolicy
        /\ (phase' = "apply" => phase = "apply")
    BY <1>9, FactoryAssumption DEF EndRun, ChangePolicy, queueVars, applyVars,
       runVars, factoryVars, TypeOK, Phases
  <2>1. TypeOK' /\ ApplyFits'
    BY <1>1, <2>0 DEF TypeOK, ApplyFits
  <2>2. EarnedFits' /\ InsertedIsAsked' /\ HandoffIsSound'
    BY <2>0 DEF EarnedFits, InsertedIsAsked, HandoffIsSound, MilestonesInOrder,
       QuestionsAreBacked, UnproposedIsACrash
  <2> QED BY <1>1, <2>1, <2>2
<1>10. CASE (\E q \in Questions : SeedFromCatalog(q) \/ HumanMove(q)) \/ ApplyMove
  <2>0. UNCHANGED <<triggers, handedOff, policy, phase, waiting, earned, fresh,
                    inserted, subject, crashes>>
        /\ moves' \in 0..MaxMoves /\ path' \in Seq(ResearchStatus)
    <3>1. ApplyMove => path' \in Seq(ResearchStatus)
      BY DEF ApplyMove, ApplyFits
    <3> QED BY <1>10, <3>1, FactoryAssumption DEF SeedFromCatalog, HumanMove,
               ApplyMove, applyVars, runVars, factoryVars, TypeOK, ApplyFits
  <2>1. TypeOK' /\ ApplyFits'
    BY <1>1, <2>0 DEF TypeOK, ApplyFits
  <2>2. EarnedFits' /\ InsertedIsAsked' /\ MilestonesInOrder' /\ UnproposedIsACrash'
    BY <1>2, <1>3, <2>0 DEF EarnedFits, InsertedIsAsked, HandoffIsSound,
       MilestonesInOrder, UnproposedIsACrash
  <2> DEFINE NoneIsNew == \A q \in Questions \ Catalog :
                           status'[q] # "none" => status[q] # "none"
  <2>3. NoneIsNew
    <3>1. ASSUME NEW q \in Questions, SeedFromCatalog(q) PROVE NoneIsNew
      BY <3>1 DEF SeedFromCatalog, Propose, QueueIInv, QueueTypeOK
    <3>2. ASSUME NEW q \in Questions, HumanMove(q) PROVE NoneIsNew
      BY <3>2 DEF HumanMove, Approve, MoveOn, QueueIInv, QueueTypeOK
    <3>3. ASSUME ApplyMove PROVE NoneIsNew
      BY <3>3 DEF ApplyMove, Approve, MoveOn, QueueIInv, QueueTypeOK
    <3> QED BY <1>10, <3>1, <3>2, <3>3
  <2>4. QuestionsAreBacked'
    BY <1>2, <1>3, <2>0, <2>3 DEF HandoffIsSound, QuestionsAreBacked
  <2> QED BY <1>1, <2>1, <2>2, <2>4 DEF HandoffIsSound
<1>11. CASE (\E q \in Questions : ApplyOutcome(q)) \/ EndApply
  <2>0. UNCHANGED <<status, approver, trial, triggers, handedOff, policy, waiting,
                    earned, fresh, inserted, moves, crashes>>
    BY <1>11 DEF ApplyOutcome, EndApply, queueVars, factoryVars, runVars
  <2> DEFINE Fits == /\ phase' \in Phases /\ subject' \in Catalog \cup {Nobody}
                     /\ path' \in Seq(ResearchStatus)
                     /\ phase' = "apply" => subject' \in DOMAIN Outcomes
  <2>1. Fits
    <3>1. ASSUME NEW q \in Questions, ApplyOutcome(q) PROVE Fits
      <4>1. status[q] \in ResearchStatus /\ q \in DOMAIN Outcomes
        BY <3>1 DEF ApplyOutcome, QueueIInv, QueueTypeOK
      <4>2. path' \in Seq(ResearchStatus)
        BY <3>1, <4>1, PathsAreSequences DEF ApplyOutcome
      <4> QED BY <3>1, <4>1, <4>2, FactoryAssumption DEF ApplyOutcome, Phases
    <3>2. ASSUME EndApply PROVE Fits
      BY <3>2 DEF EndApply, Phases
    <3> QED BY <1>11, <3>1, <3>2
  <2>2. TypeOK' /\ ApplyFits'
    BY <1>1, <2>0, <2>1 DEF TypeOK, ApplyFits
  <2>3. EarnedFits' /\ InsertedIsAsked' /\ HandoffIsSound'
    BY <2>0 DEF EarnedFits, InsertedIsAsked, HandoffIsSound, MilestonesInOrder,
       QuestionsAreBacked, UnproposedIsACrash
  <2> QED BY <1>1, <2>2, <2>3
<1>12. CASE Crash
  <2>0. UNCHANGED <<status, approver, trial, triggers, handedOff, policy, moves>>
        /\ waiting' = {} /\ earned' = {} /\ fresh' = {} /\ inserted' = {}
        /\ phase' = "idle" /\ subject' = Nobody /\ path' = <<>>
        /\ crashes' \in 0..MaxCrashes /\ crashes' > 0
    BY <1>12, FactoryAssumption DEF Crash, queueVars, factoryVars, TypeOK
  <2>1. TypeOK' /\ ApplyFits'
    BY <1>1, <2>0 DEF TypeOK, ApplyFits, Phases
  <2>2. EarnedFits' /\ InsertedIsAsked' /\ HandoffIsSound'
    BY <2>0 DEF EarnedFits, InsertedIsAsked, HandoffIsSound, MilestonesInOrder,
       QuestionsAreBacked, UnproposedIsACrash
  <2> QED BY <1>1, <2>1, <2>2
<1>13. CASE UNCHANGED vars
  <2>0. UNCHANGED <<status, approver, trial, triggers, handedOff, policy, phase,
                    waiting, earned, fresh, inserted, subject, path, moves, crashes>>
    BY <1>13 DEF vars, queueVars, factoryVars, runVars, applyVars
  <2>1. TypeOK' /\ ApplyFits'
    BY <1>1, <2>0 DEF TypeOK, ApplyFits
  <2>2. EarnedFits' /\ InsertedIsAsked' /\ HandoffIsSound'
    BY <2>0 DEF EarnedFits, InsertedIsAsked, HandoffIsSound, MilestonesInOrder,
       QuestionsAreBacked, UnproposedIsACrash
  <2> QED BY <1>1, <2>1, <2>2
<1> QED BY <1>4, <1>5, <1>6, <1>7, <1>8, <1>9, <1>10, <1>11, <1>12, <1>13
         DEF Next, IngestStep

LEMMA FactoryInvariant == Spec => []IInv
  BY FactoryInit, FactoryStep, PTL DEF Spec

-----------------------------------------------------------------------------
(* For any number of series, milestones, policies and interruptions: the   *)
(* tables, the run and the queue keep their types.                         *)
THEOREM TypeCorrect == Spec => []TypeOK
<1>1. IInv => TypeOK
  BY DEF IInv
<1> QED BY <1>1, FactoryInvariant, PTL

(* Milestones are recorded in order, questions about data are backed by    *)
(* triggers, and only an interrupted run leaves a ready series unasked.    *)
THEOREM HandoffSound == Spec => []HandoffIsSound
<1>1. IInv => HandoffIsSound
  BY DEF IInv
<1> QED BY <1>1, FactoryInvariant, PTL

(* No later evaluation, policy, command or crash takes back a trigger or   *)
(* the mark that it was handed off.                                        *)
THEOREM HandoffFinal == Spec => HandoffIsFinal
<1> DEFINE Final == triggers \subseteq triggers' /\ handedOff \subseteq handedOff'
<1>1. ASSUME IInv, [Next]_vars PROVE [Final]_vars
  <2>1. ASSUME NEW k \in Triggers, StoreTrigger(k) PROVE Final
    BY <1>1, <2>1 DEF StoreTrigger, IInv, EarnedFits, TypeOK
  <2>2. ASSUME NEW k \in Triggers, MarkHandedOff(k) PROVE Final
    BY <2>2 DEF MarkHandedOff
  <2>3. ASSUME UNCHANGED factoryVars PROVE Final
    BY <2>3 DEF factoryVars
  <2> QED BY <1>1, <2>1, <2>2, <2>3
          DEF Next, IngestStep, StartIngest, IngestOne, SeedFromDataReadiness,
              EndRun, ChangePolicy, SeedFromCatalog, HumanMove, ApplyOutcome,
              ApplyMove, EndApply, Crash
<1> QED BY <1>1, FactoryInvariant, PTL DEF Spec, HandoffIsFinal

(* The factory and the people implement the queue: no run, repetition or   *)
(* crash moves a question but by the queue's own rules.                    *)
THEOREM FactoryImplementsQueue == Spec => ImplementsQueue
<1>1. Init => QueueInit
  BY DEF Init
<1>2. ASSUME IInv, [Next]_vars PROVE [QueueNext]_queueVars
  BY <1>2, StepOfTheQueue DEF IInv
<1> QED BY <1>1, <1>2, FactoryInvariant, PTL DEF Spec, ImplementsQueue, QueueSpec

(* What the queue promises therefore holds of the whole system.            *)
THEOREM TrialsAreKept == Spec => []TrialDiscipline
  BY FactoryImplementsQueue, QueueKeepsTrials, PTL DEF ImplementsQueue

(* One approval for good, through every run and every applied outcome.     *)
THEOREM ApprovalsAreKept == Spec => ApprovalIsForGood
  BY FactoryImplementsQueue, QueueKeepsApprovals, PTL DEF ImplementsQueue

=============================================================================
