------------------------- MODULE ResearchStep_proofs -------------------------
(***************************************************************************)
(* The research loop for any queue, cap, number of attempts and schedule:  *)
(* what is decided can be run, answers and support are respected, and only *)
(* a crash separates a screen from its trial row.                          *)
(***************************************************************************)
EXTENDS ResearchStep, FiniteSetTheorems, WellFoundedInduction, TLAPS

LEMMA MinIsMember ==
  ASSUME NEW S \in SUBSET Nat, S # {}
  PROVE  Min(S) \in S
<1> DEFINE R == OpToRel(<, Nat)
<1>1. IsWellFoundedOn(R, Nat)
  BY NatLessThanWellFounded
<1>2. \A x, y \in Nat : x < y => <<x, y>> \in R
  BY DEF OpToRel
<1>3. \E x \in S : \A y \in S : ~(<<y, x>> \in R)
  <2> HIDE DEF R
  <2> QED BY <1>1, WFMin
<1>4. \E x \in S : \A y \in S : x =< y
  <2> HIDE DEF R
  <2>1. PICK x \in S : \A y \in S : ~(<<y, x>> \in R)
    BY <1>3
  <2>2. \A y \in S : ~(y < x)
    BY <1>2, <2>1
  <2>3. \A y \in S : x =< y
    BY <2>2
  <2> QED BY <2>3
<1> QED BY <1>4 DEF Min

LEMMA CardinalityWithout ==
  ASSUME NEW S, IsFiniteSet(S), NEW x, NEW n \in Nat, Cardinality(S \ {x}) =< n
  PROVE  Cardinality(S) =< n + 1
<1>1. Cardinality(S) \in Nat /\ Cardinality(S \ {x}) \in Nat
  BY FS_CardinalityType, FS_RemoveElement
<1>2. Cardinality(S \ {x}) = IF x \in S THEN Cardinality(S) - 1 ELSE Cardinality(S)
  BY FS_RemoveElement
<1>3. Cardinality(S) =< Cardinality(S \ {x}) + 1
  BY <1>1, <1>2
<1> QED BY <1>1, <1>3

-----------------------------------------------------------------------------
(* The inductive invariant.                                                *)

(* A row without a status is none, and one without a harness has version 0.*)
RowsFit ==
  \A s \in Screens : /\ row[s].status = "none" => row[s] = NoRow
                     /\ row[s].status = "no_harness" => s[2] = 0

(* The screen a run is at work on.                                         *)
Working == Current(action.question)

NoSupport ==
  \A q \in Admissible, v \in Versions : row[<<q, v>>].status # "supported"

(* What the run's control knows of the rows.                               *)
RunFits ==
  /\ phase = "idle" => action = NoAction
  /\ phase = "decide" => action.kind # "AWAIT_CONFIRMATION_APPROVAL"
  /\ phase \in {"execute", "unharnessed", "claimed", "running", "notify"} =>
       action.kind = "START_EXPLORATORY"
  /\ action.kind = "START_EXPLORATORY" => action.question \in Questions
  /\ phase \in {"execute", "claimed"} => NoSupport
  /\ phase = "execute" => action.question \in Pending
  /\ phase \in {"claimed", "running"} => row[Working].status = "running"

(* What a decision about to be recorded rests on.                          *)
ActionIsBacked ==
  /\ action.kind = "START_EXPLORATORY" /\ phase \in {"decide", "running", "notify", "record"}
       => Working \in mirrored
  /\ action.kind = "AWAIT_CONFIRMATION_APPROVAL" =>
       \E v \in Versions : row[<<action.question, v>>].status = "supported"

Unmirrored == {s \in Screens : row[s] # NoRow /\ s \notin mirrored}

(* While the run is about to mirror a screen, that one is not a crash's.   *)
CrashesCovered ==
  /\ IsFiniteSet(Unmirrored)
  /\ phase \in {"claimed", "unharnessed"} => Cardinality(Unmirrored \ {Working}) =< crashes
  /\ phase \notin {"claimed", "unharnessed"} => Cardinality(Unmirrored) =< crashes

IInv == /\ TypeOK /\ RowsFit /\ RunFits
        /\ ActionIsBacked /\ DecisionsAreBacked /\ CrashesCovered

-----------------------------------------------------------------------------
(* Consequences of the definitions.                                        *)

LEMMA PendingIsOpen ==
  ASSUME TypeOK, RowsFit, NEW q \in Pending
  PROVE  q \in Questions /\ Current(q) \in Screens /\ Open(Current(q))
<1>1. q \in Questions /\ q \notin Screened /\ row[<<q, 0>>].status # "no_harness"
  BY DEF Pending, Admissible
<1>2. Current(q) = <<q, version[q]>> /\ Current(q) \in Screens /\ version[q] \in Versions
  BY <1>1 DEF Current, Screens, TypeOK
<1>3. row[Current(q)].status \in Statuses
  BY <1>2 DEF TypeOK
<1>4. row[Current(q)].status # "no_harness"
  BY <1>1, <1>2 DEF RowsFit
<1>5. row[Current(q)].status \in Executed => Retryable(Current(q))
  BY <1>1 DEF Screened
<1>6. row[Current(q)].status = "none" \/ Retryable(Current(q))
  BY <1>3, <1>4, <1>5 DEF Statuses
<1>7. Open(Current(q))
  BY <1>2, <1>6 DEF Open, RowsFit
<1> QED BY <1>1, <1>2, <1>7

LEMMA DecisionFits ==
  ASSUME TypeOK
  PROVE  /\ Decision \in Actions
         /\ Decision.kind = "START_EXPLORATORY" => NoSupport /\ Decision.question \in Pending
         /\ Decision.kind = "AWAIT_CONFIRMATION_APPROVAL" =>
              \E v \in Versions : row[<<Decision.question, v>>].status = "supported"
<1>1. Questions \subseteq Nat /\ Supported \subseteq Questions /\ Pending \subseteq Questions
  BY StepAssumption DEF Supported, Pending, Admissible
<1>2. CASE Supported # {}
  <2>1. Min(Supported) \in Supported
    BY <1>1, <1>2, MinIsMember
  <2>2. Decision = [kind |-> "AWAIT_CONFIRMATION_APPROVAL", question |-> Min(Supported)]
    BY <1>2 DEF Decision
  <2> QED BY <1>1, <2>1, <2>2 DEF Supported, Actions, Kinds
<1>3. CASE Supported = {} /\ (QuarterIsSpent \/ Pending = {})
  <2>1. Decision = NoAction
    BY <1>3 DEF Decision
  <2> QED BY <2>1 DEF NoAction, Actions, Kinds
<1>4. CASE Supported = {} /\ ~QuarterIsSpent /\ Pending # {} /\ Pending \cap ready # {}
  <2>1. Min(Pending \cap ready) \in Pending
    BY <1>1, <1>4, MinIsMember
  <2>2. Decision = [kind |-> "START_EXPLORATORY", question |-> Min(Pending \cap ready)]
    BY <1>4 DEF Decision
  <2>3. NoSupport
    BY <1>4 DEF Supported, NoSupport
  <2> QED BY <1>1, <2>1, <2>2, <2>3 DEF Actions, Kinds
<1>5. CASE Supported = {} /\ ~QuarterIsSpent /\ Pending # {} /\ Pending \cap ready = {}
  <2>1. Min(Pending) \in Pending
    BY <1>1, <1>5, MinIsMember
  <2>2. Decision = [kind |-> "AWAIT_DATA", question |-> Min(Pending)]
    BY <1>5 DEF Decision
  <2> QED BY <1>1, <2>1, <2>2 DEF Actions, Kinds
<1> QED BY <1>2, <1>3, <1>4, <1>5

-----------------------------------------------------------------------------
(* The steps.  Those between two runs leave the run idle.                  *)

LEMMA InitHolds == Init => IInv
<1> SUFFICES ASSUME Init PROVE IInv
  OBVIOUS
<1>1. NoRow \in [status : Statuses, attempts : 0..MaxAttempts, finished : 0..LastWeek]
  BY StepAssumption DEF NoRow, Statuses
<1>2. NoAction \in Actions
  BY DEF NoAction, Actions, Kinds
<1>3. version \in [Questions -> Versions]
  BY StepAssumption DEF Init, Versions
<1>4. TypeOK
  BY <1>1, <1>2, <1>3, StepAssumption DEF Init, TypeOK, Phases
<1>5. RowsFit /\ DecisionsAreBacked
  BY DEF Init, RowsFit, NoRow, DecisionsAreBacked
<1>6. RunFits /\ ActionIsBacked
  BY DEF Init, RunFits, ActionIsBacked, NoAction
<1>7. Unmirrored = {}
  BY DEF Init, Unmirrored
<1>8. CrashesCovered
  BY <1>7, FS_EmptySet DEF Init, CrashesCovered
<1> QED BY <1>4, <1>5, <1>6, <1>8 DEF IInv

LEMMA TickHolds == ASSUME IInv, Tick PROVE IInv'
<1> USE DEF IInv, Tick, run
<1>1. TypeOK'
  <2>1. NoRow \in [status : Statuses, attempts : 0..MaxAttempts, finished : 0..LastWeek]
    BY StepAssumption DEF NoRow, Statuses
  <2>2. week' \in 0..LastWeek
    BY StepAssumption DEF TypeOK
  <2> QED BY <2>1, <2>2 DEF TypeOK
<1>2. CASE NewQuarter
  <2>1. RowsFit' /\ DecisionsAreBacked' /\ Unmirrored' = {}
    BY <1>2 DEF RowsFit, NoRow, DecisionsAreBacked, Unmirrored
  <2>2. RunFits' /\ ActionIsBacked'
    BY DEF RunFits, ActionIsBacked, NoAction
  <2>3. CrashesCovered'
    BY <2>1, FS_EmptySet DEF CrashesCovered, TypeOK
  <2> QED BY <1>1, <2>1, <2>2, <2>3
<1>3. CASE ~NewQuarter
  <2>1. UNCHANGED <<row, mirrored, decisions, phase, action, crashes>>
    BY <1>3
  <2>2. RowsFit' /\ DecisionsAreBacked'
    BY <2>1 DEF RowsFit, DecisionsAreBacked
  <2>3. RunFits' /\ ActionIsBacked'
    BY <2>1 DEF RunFits, ActionIsBacked, NoAction
  <2>4. CrashesCovered'
    BY <2>1 DEF CrashesCovered, Unmirrored
  <2> QED BY <1>1, <2>2, <2>3, <2>4
<1> QED BY <1>2, <1>3

(* Data, failures and harnesses change between runs.                       *)
LEMMA WorldHolds ==
  ASSUME IInv, \/ \E q \in Questions : DataChange(q) \/ NewHarness(q)
               \/ \E f \in Families : FamilyFails(f)
  PROVE  IInv'
<1>1. /\ phase = "idle" /\ week' = week
      /\ UNCHANGED <<results, run, crashes>>
  BY DEF DataChange, NewHarness, FamilyFails
<1>2. TypeOK'
  <2>1. CASE \E q \in Questions : DataChange(q)
    BY <2>1 DEF DataChange, results, run, IInv, TypeOK
  <2>2. CASE \E q \in Questions : NewHarness(q)
    <3>1. PICK q \in Questions : NewHarness(q)
      BY <2>2
    <3>2. version' \in [Questions -> Versions]
      BY <3>1, StepAssumption DEF NewHarness, IInv, TypeOK, Versions
    <3> QED BY <1>1, <3>1, <3>2 DEF NewHarness, results, run, IInv, TypeOK
  <2>3. CASE \E f \in Families : FamilyFails(f)
    BY <2>3 DEF FamilyFails, results, run, IInv, TypeOK
  <2> QED BY <2>1, <2>2, <2>3
<1>3. RowsFit' /\ DecisionsAreBacked'
  BY <1>1 DEF results, IInv, RowsFit, DecisionsAreBacked
<1>4. RunFits' /\ ActionIsBacked'
  BY <1>1 DEF results, run, IInv, RunFits, ActionIsBacked, NoAction
<1>5. CrashesCovered'
  BY <1>1 DEF results, run, IInv, CrashesCovered, Unmirrored
<1> QED BY <1>2, <1>3, <1>4, <1>5 DEF IInv

(* Steps that start, end or stop a run and write no screen.                *)
LEMMA ControlHolds ==
  ASSUME IInv, StartRun \/ OutOfDecisions \/ Decide \/ RecordDecision \/ Crash
               \/ \E f \in Families : Shelve(f)
  PROVE  IInv'
<1>1. /\ week' = week /\ UNCHANGED <<version, ready, failing, row, mirrored, announced, invoked>>
      /\ phase \notin {"claimed", "unharnessed"} \/ crashes' = crashes + 1
      /\ phase' \in {"idle", "decide", "execute", "record"}
  BY DEF StartRun, OutOfDecisions, Decide, RecordDecision, Crash, Shelve, world, results
<1>2. RowsFit'
  BY <1>1 DEF IInv, RowsFit
<1>3. Decision \in Actions /\ NoAction \in Actions
      /\ [kind |-> "SHELVE_FAMILY", question |-> NoQuestion] \in Actions
  BY DecisionFits DEF IInv, NoAction, Actions, Kinds
<1>4. TypeOK'
  <2>1. action' \in Actions /\ phase' \in Phases
    BY <1>1, <1>3 DEF StartRun, OutOfDecisions, Decide, RecordDecision, Crash, Shelve,
       IInv, TypeOK, Phases
  <2>2. made' \in 0..MaxDecisions /\ crashes' \in 0..MaxCrashes
    BY StepAssumption DEF StartRun, OutOfDecisions, Decide, RecordDecision, Crash, Shelve,
       IInv, TypeOK
  <2>3. decisions' \subseteq Actions /\ shelved' \subseteq Families
    BY DEF StartRun, OutOfDecisions, Decide, RecordDecision, Crash, Shelve, results,
       IInv, TypeOK
  <2> QED BY <1>1, <2>1, <2>2, <2>3 DEF IInv, TypeOK
<1>5. RunFits' /\ ActionIsBacked'
  <2>1. CASE StartRun
    BY <2>1 DEF StartRun, results, IInv, RunFits, ActionIsBacked, NoAction
  <2>2. CASE OutOfDecisions
    BY <2>2 DEF OutOfDecisions, results, world, IInv, RunFits, ActionIsBacked, Working, Current
  <2>3. CASE RecordDecision \/ Crash
    BY <2>3 DEF RecordDecision, Crash, IInv, RunFits, ActionIsBacked, NoAction
  <2>4. CASE \E f \in Families : Shelve(f)
    BY <2>4 DEF Shelve, IInv, RunFits, ActionIsBacked
  <2>5. CASE Decide
    <3>1. /\ action' = Decision /\ UNCHANGED <<row, mirrored, shelved, version, week>>
          /\ phase' = IF Decision.kind = "START_EXPLORATORY" THEN "execute" ELSE "record"
      BY <2>5 DEF Decide, results, world
    <3>2. NoSupport' <=> NoSupport
      BY <3>1 DEF NoSupport, Admissible
    <3>3. Pending' = Pending
      BY <3>1 DEF Pending, Screened, Admissible, Current, Retryable
    <3>4. Pending \subseteq Questions
      BY DEF Pending, Admissible
    <3>5. RunFits'
      BY <3>1, <3>2, <3>3, <3>4, DecisionFits DEF IInv, RunFits
    <3>6. ActionIsBacked'
      BY <3>1, DecisionFits DEF IInv, ActionIsBacked
    <3> QED BY <3>5, <3>6
  <2> QED BY <2>1, <2>2, <2>3, <2>4, <2>5
<1>6. DecisionsAreBacked'
  <2>1. CASE RecordDecision
    <3>1. phase = "record" /\ decisions' \subseteq decisions \cup {action}
      BY <2>1 DEF RecordDecision
    <3>2. action.kind = "START_EXPLORATORY" =>
            action.question \in Questions /\ Working \in mirrored
      BY <3>1 DEF IInv, RunFits, ActionIsBacked
    <3>3. action.kind = "START_EXPLORATORY" =>
            \E v \in Versions : <<action.question, v>> \in mirrored
      BY <3>2 DEF Working, Current, IInv, TypeOK
    <3> QED BY <1>1, <3>1, <3>3 DEF IInv, DecisionsAreBacked, ActionIsBacked
  <2>2. CASE ~RecordDecision
    BY <1>1, <2>2 DEF StartRun, OutOfDecisions, Decide, Crash, Shelve, results,
       IInv, DecisionsAreBacked
  <2> QED BY <2>1, <2>2
<1>7. CrashesCovered'
  <2>1. Unmirrored' = Unmirrored /\ IsFiniteSet(Unmirrored) /\ crashes \in Nat
        /\ crashes' \in {crashes, crashes + 1}
    BY <1>1 DEF Unmirrored, IInv, CrashesCovered, TypeOK, StartRun, OutOfDecisions, Decide,
       RecordDecision, Crash, Shelve
  <2>2. CASE phase \notin {"claimed", "unharnessed"}
    <3>1. Cardinality(Unmirrored) \in Nat /\ Cardinality(Unmirrored) =< crashes
      BY <2>1, <2>2, FS_CardinalityType DEF IInv, CrashesCovered
    <3>2. Cardinality(Unmirrored) =< crashes'
      BY <2>1, <3>1
    <3> QED BY <1>1, <2>1, <3>2 DEF CrashesCovered
  <2>3. CASE phase \in {"claimed", "unharnessed"}
    <3>1. crashes' = crashes + 1 /\ Cardinality(Unmirrored \ {Working}) =< crashes
      BY <1>1, <2>3 DEF IInv, CrashesCovered
    <3>2. Cardinality(Unmirrored) =< crashes + 1
      BY <2>1, <3>1, CardinalityWithout
    <3> QED BY <1>1, <2>1, <3>1, <3>2 DEF CrashesCovered
  <2> QED BY <2>2, <2>3
<1> QED BY <1>2, <1>4, <1>5, <1>6, <1>7 DEF IInv

(* A row is written for the screen the run is at work on.                  *)
LEMMA PutFits ==
  ASSUME IInv, NEW q \in Questions, action.question = q, world' = world,
         shelved' = shelved, action' = action,
         NEW st \in Executed \cup {"no_harness"}, NEW n \in 0..MaxAttempts,
         NEW fin \in 0..LastWeek, Put(Current(q), st, n, fin),
         st = "no_harness" => version[q] = 0
  PROVE  /\ row' \in [Screens -> [status : Statuses, attempts : 0..MaxAttempts,
                                  finished : 0..LastWeek]]
         /\ RowsFit' /\ Working' = Working /\ Working = Current(q) /\ Working \in Screens
         /\ row'[Working].status = st /\ row'[Working] # NoRow
         /\ \A s \in Screens : s # Working => row'[s] = row[s]
         /\ st # "supported" => (NoSupport => NoSupport')
         /\ \A d \in decisions : row[Working].status # "supported"
              /\ d.kind = "AWAIT_CONFIRMATION_APPROVAL" =>
                   \E v \in Versions : row'[<<d.question, v>>].status = "supported"
<1>1. Working' = Working /\ Working = Current(q) /\ Working \in Screens
      /\ Current(q) = <<q, version[q]>>
  BY DEF Working, Current, world, Screens, IInv, TypeOK
<1>2. row' = [row EXCEPT ![Working] = [status |-> st, attempts |-> n, finished |-> fin]]
  BY <1>1 DEF Put
<1>3. row'[Working] = [status |-> st, attempts |-> n, finished |-> fin]
      /\ \A s \in Screens : s # Working => row'[s] = row[s]
  BY <1>1, <1>2 DEF IInv, TypeOK
<1>4. row' \in [Screens -> [status : Statuses, attempts : 0..MaxAttempts,
                            finished : 0..LastWeek]]
  <2>1. [status |-> st, attempts |-> n, finished |-> fin]
          \in [status : Statuses, attempts : 0..MaxAttempts, finished : 0..LastWeek]
    BY DEF Statuses
  <2> QED BY <1>2, <2>1 DEF IInv, TypeOK
<1>5. st # "none" /\ row'[Working] # NoRow
  BY <1>3 DEF Executed, NoRow
<1>6. RowsFit'
  BY <1>1, <1>3, <1>5 DEF IInv, RowsFit
<1>7. st # "supported" => (NoSupport => NoSupport')
  <2> SUFFICES ASSUME st # "supported", NoSupport, NEW p \in Admissible', NEW v \in Versions
               PROVE  row'[<<p, v>>].status # "supported"
    BY DEF NoSupport
  <2>1. p \in Admissible /\ <<p, v>> \in Screens
    BY DEF Admissible, Screens
  <2> QED BY <1>3, <2>1 DEF NoSupport
<1>8. ASSUME NEW d \in decisions, row[Working].status # "supported",
             d.kind = "AWAIT_CONFIRMATION_APPROVAL"
      PROVE  \E v \in Versions : row'[<<d.question, v>>].status = "supported"
  <2>1. PICK v \in Versions : row[<<d.question, v>>].status = "supported"
    BY <1>8 DEF IInv, DecisionsAreBacked
  <2>2. <<d.question, v>> # Working
    BY <1>8, <2>1
  <2>3. row'[<<d.question, v>>] = row[<<d.question, v>>]
    BY <1>2, <2>2 DEF IInv, TypeOK
  <2> QED BY <2>1, <2>3
<1> QED BY <1>1, <1>3, <1>4, <1>5, <1>6, <1>7, <1>8

(* The screen that is written is the only one that may join those without  *)
(* a trial row.                                                            *)
LEMMA OthersStay ==
  ASSUME IInv, Working' = Working, mirrored' = mirrored,
         \A s \in Screens : s # Working => row'[s] = row[s]
  PROVE  IsFiniteSet(Unmirrored') /\ Unmirrored' \ {Working'} = Unmirrored \ {Working}
<1>1. Unmirrored' \ {Working'} = Unmirrored \ {Working}
  BY DEF Unmirrored
<1>2. IsFiniteSet(Unmirrored \ {Working})
  BY FS_RemoveElement DEF IInv, CrashesCovered
<1>3. IsFiniteSet((Unmirrored \ {Working}) \cup {Working})
  BY <1>2, FS_AddElement
<1>4. Unmirrored' \subseteq (Unmirrored \ {Working}) \cup {Working}
  BY <1>1
<1>5. IsFiniteSet(Unmirrored')
  BY <1>3, <1>4, FS_Subset
<1> QED BY <1>1, <1>5

(* Either way of writing the row that a trial row is to follow.            *)
LEMMA FirstRowHolds ==
  ASSUME IInv, NEW q \in Questions, NoApprovedHarness(q) \/ Claim(q)
  PROVE  IInv'
<1> DEFINE st == IF NoApprovedHarness(q) THEN "no_harness" ELSE "running"
           n  == IF NoApprovedHarness(q) THEN 0 ELSE row[Current(q)].attempts + 1
<1>1. /\ phase = "execute" /\ action.question = q /\ world' = world
      /\ UNCHANGED <<mirrored, decisions, announced, shelved, invoked, action, made, crashes>>
      /\ phase' = IF NoApprovedHarness(q) THEN "unharnessed" ELSE "claimed"
      /\ Put(Current(q), st, n, 0)
  BY DEF NoApprovedHarness, Claim
<1>2. Current(q) \in Screens /\ Open(Current(q))
  BY <1>1, PendingIsOpen DEF IInv, RunFits
<1>3. st \in Executed \cup {"no_harness"} /\ st # "supported"
      /\ (st = "no_harness" => version[q] = 0)
  BY DEF Executed, NoApprovedHarness
<1>4. n \in 0..MaxAttempts /\ row[Current(q)].status # "supported"
  <2>1. CASE row[Current(q)] = NoRow
    BY <2>1, StepAssumption DEF NoRow
  <2>2. CASE Retryable(Current(q))
    BY <1>2, <2>2, StepAssumption DEF Retryable, IInv, TypeOK
  <2> QED BY <1>2, <2>1, <2>2 DEF Open
<1>5. 0 \in 0..LastWeek
  BY StepAssumption
<1> HIDE DEF st, n
<1>6. /\ row' \in [Screens -> [status : Statuses, attempts : 0..MaxAttempts,
                               finished : 0..LastWeek]]
      /\ RowsFit' /\ Working' = Working /\ Working = Current(q) /\ Working \in Screens
      /\ row'[Working].status = st
      /\ \A s \in Screens : s # Working => row'[s] = row[s]
      /\ NoSupport => NoSupport'
      /\ \A d \in decisions : d.kind = "AWAIT_CONFIRMATION_APPROVAL" =>
           \E v \in Versions : row'[<<d.question, v>>].status = "supported"
  BY <1>1, <1>3, <1>4, <1>5, PutFits
<1>7. TypeOK'
  BY <1>1, <1>6 DEF world, IInv, TypeOK, Phases
<1>8. RunFits'
  <2>1. phase' = "claimed" => st = "running"
    BY <1>1 DEF st
  <2> QED BY <1>1, <1>6, <2>1 DEF IInv, RunFits
<1>9. ActionIsBacked' /\ DecisionsAreBacked'
  BY <1>1, <1>6 DEF IInv, RunFits, ActionIsBacked, DecisionsAreBacked
<1>10. CrashesCovered'
  <2>1. IsFiniteSet(Unmirrored') /\ Unmirrored' \ {Working'} = Unmirrored \ {Working}
    BY <1>1, <1>6, OthersStay
  <2>2. /\ IsFiniteSet(Unmirrored) /\ Cardinality(Unmirrored) \in Nat /\ crashes \in Nat
        /\ Cardinality(Unmirrored) =< crashes
    BY <1>1, FS_CardinalityType DEF IInv, CrashesCovered, TypeOK
  <2>3. Cardinality(Unmirrored \ {Working}) =< Cardinality(Unmirrored)
        /\ Cardinality(Unmirrored \ {Working}) \in Nat
    <3>1. IsFiniteSet(Unmirrored \ {Working})
      BY <2>2, FS_RemoveElement
    <3> QED BY <2>2, <3>1, FS_Subset, FS_CardinalityType
  <2>4. Cardinality(Unmirrored \ {Working}) =< crashes
    BY <2>2, <2>3
  <2> QED BY <1>1, <2>1, <2>4 DEF CrashesCovered
<1> QED BY <1>6, <1>7, <1>8, <1>9, <1>10 DEF IInv

(* The trial row.                                                          *)
LEMMA MirrorHolds ==
  ASSUME IInv, NEW q \in Questions, MirrorUnharnessed(q) \/ MirrorAndInvoke(q)
  PROVE  IInv'
<1>1. /\ phase \in {"unharnessed", "claimed"} /\ action.question = q /\ world' = world
      /\ UNCHANGED <<row, decisions, announced, shelved, action, made, crashes>>
      /\ mirrored' = mirrored \cup {Current(q)}
      /\ phase' \in {"decide", "running"}
      /\ phase' = "running" => phase = "claimed"
      /\ invoked' \in {invoked, invoked + 1}
  BY DEF MirrorUnharnessed, MirrorAndInvoke
<1>2. Working' = Working /\ Working = Current(q) /\ Working \in Screens
  BY <1>1 DEF Working, Current, world, Screens, IInv, TypeOK
<1>3. TypeOK' /\ RowsFit'
  BY <1>1, <1>2 DEF world, IInv, TypeOK, Phases, RowsFit
<1>4. RunFits'
  BY <1>1, <1>2 DEF IInv, RunFits
<1>5. ActionIsBacked' /\ DecisionsAreBacked'
  BY <1>1, <1>2 DEF IInv, RunFits, ActionIsBacked, DecisionsAreBacked
<1>6. CrashesCovered'
  <2>1. Unmirrored' = Unmirrored \ {Working}
    BY <1>1, <1>2 DEF Unmirrored
  <2>2. IsFiniteSet(Unmirrored') /\ Cardinality(Unmirrored') =< crashes
    BY <1>1, <2>1, FS_RemoveElement DEF IInv, CrashesCovered
  <2> QED BY <1>1, <2>2 DEF CrashesCovered
<1> QED BY <1>3, <1>4, <1>5, <1>6 DEF IInv

(* The harness settles its screen.                                         *)
LEMMA SettleHolds ==
  ASSUME IInv, NEW q \in Questions,
         HarnessFails(q) \/ \E yes \in BOOLEAN : HarnessReturns(q, yes)
  PROVE  IInv'
<1>1. PICK st \in {"failed", "completed", "supported"} :
        /\ phase = "running" /\ action.question = q /\ world' = world
        /\ UNCHANGED <<mirrored, decisions, announced, shelved, invoked, action, made, crashes>>
        /\ phase' \in {"record", "notify"}
        /\ Put(Current(q), st, row[Current(q)].attempts, week)
  BY DEF HarnessFails, HarnessReturns
<1>2. Working = Current(q) /\ Current(q) \in Screens
      /\ row[Working].status = "running" /\ action.kind = "START_EXPLORATORY"
  BY <1>1 DEF Working, Current, Screens, IInv, RunFits, TypeOK
<1>3. row[Current(q)].attempts \in 0..MaxAttempts /\ week \in 0..LastWeek
      /\ st \in Executed \cup {"no_harness"} /\ st # "no_harness"
  BY <1>1, <1>2 DEF Executed, IInv, TypeOK
<1>4. /\ row' \in [Screens -> [status : Statuses, attempts : 0..MaxAttempts,
                               finished : 0..LastWeek]]
      /\ RowsFit' /\ Working' = Working
      /\ row'[Working] # NoRow
      /\ \A s \in Screens : s # Working => row'[s] = row[s]
      /\ \A d \in decisions : d.kind = "AWAIT_CONFIRMATION_APPROVAL" =>
           \E v \in Versions : row'[<<d.question, v>>].status = "supported"
  BY <1>1, <1>2, <1>3, PutFits
<1>5. TypeOK'
  BY <1>1, <1>4 DEF world, IInv, TypeOK, Phases
<1>6. RunFits' /\ ActionIsBacked' /\ DecisionsAreBacked'
  BY <1>1, <1>2, <1>4 DEF IInv, RunFits, ActionIsBacked, DecisionsAreBacked
<1>7. CrashesCovered'
  <2>1. Working \in mirrored
    BY <1>1, <1>2 DEF IInv, ActionIsBacked
  <2>2. Unmirrored' = Unmirrored
    BY <1>1, <1>4, <2>1 DEF Unmirrored
  <2> QED BY <1>1, <2>2 DEF IInv, CrashesCovered
<1> QED BY <1>4, <1>5, <1>6, <1>7 DEF IInv

LEMMA NotifyHolds ==
  ASSUME IInv, NEW q \in Questions, NEW yes \in BOOLEAN, Notify(q, yes)
  PROVE  IInv'
<1>1. /\ phase = "notify" /\ phase' = "record" /\ world' = world /\ action.question = q
      /\ UNCHANGED <<row, mirrored, decisions, shelved, invoked, action, made, crashes>>
      /\ announced' \subseteq announced \cup {Current(q)}
  BY DEF Notify
<1>2. Working' = Working /\ Current(q) \in Screens
  BY <1>1 DEF Working, Current, world, Screens, IInv, TypeOK
<1>3. TypeOK' /\ RowsFit'
  BY <1>1, <1>2 DEF world, IInv, TypeOK, Phases, RowsFit
<1>4. RunFits' /\ ActionIsBacked' /\ DecisionsAreBacked'
  BY <1>1, <1>2 DEF IInv, RunFits, ActionIsBacked, DecisionsAreBacked
<1>5. CrashesCovered'
  BY <1>1, <1>2 DEF IInv, CrashesCovered, Unmirrored
<1> QED BY <1>3, <1>4, <1>5 DEF IInv

LEMMA StepHolds == IInv /\ [Next]_vars => IInv'
<1> SUFFICES ASSUME IInv, [Next]_vars PROVE IInv'
  OBVIOUS
<1>1. CASE UNCHANGED vars
  <2>1. UNCHANGED <<week, version, ready, failing, row, mirrored, decisions, announced,
                    shelved, invoked, phase, action, made, crashes>>
    BY <1>1 DEF vars, world, results, run
  <2>2. TypeOK' /\ RowsFit' /\ DecisionsAreBacked'
    BY <2>1 DEF IInv, TypeOK, RowsFit, DecisionsAreBacked
  <2>3. RunFits' /\ ActionIsBacked'
    BY <2>1 DEF IInv, RunFits, ActionIsBacked, NoSupport, Admissible, Pending, Screened,
       Retryable, Working, Current
  <2>4. CrashesCovered'
    BY <2>1 DEF IInv, CrashesCovered, Unmirrored, Working, Current
  <2> QED BY <2>2, <2>3, <2>4 DEF IInv
<1>2. CASE Tick
  BY <1>2, TickHolds
<1>3. CASE \/ \E q \in Questions : DataChange(q) \/ NewHarness(q)
           \/ \E f \in Families : FamilyFails(f)
  BY <1>3, WorldHolds
<1>4. CASE StartRun \/ OutOfDecisions \/ Decide \/ RecordDecision \/ Crash
           \/ \E f \in Families : Shelve(f)
  BY <1>4, ControlHolds
<1>5. ASSUME NEW q \in Questions,
             \/ NoApprovedHarness(q) \/ Claim(q)
             \/ MirrorUnharnessed(q) \/ MirrorAndInvoke(q)
             \/ HarnessFails(q)
             \/ \E yes \in BOOLEAN : HarnessReturns(q, yes) \/ Notify(q, yes)
      PROVE  IInv'
  BY <1>5, FirstRowHolds, MirrorHolds, SettleHolds, NotifyHolds
<1> QED BY <1>1, <1>2, <1>3, <1>4, <1>5 DEF Next, RunStep

-----------------------------------------------------------------------------
(* The quarter's budget.  What was invoked is among what was claimed, and  *)
(* every claim but the last was made by a screen of those before the cap.  *)

ExecutedScreens == {s \in Screens : row[s].status \in Executed}

(* The attempts made, each as its screen and its number.                   *)
Attempts == {a \in Screens \X (1..MaxAttempts) : a[2] =< row[a[1]].attempts}

BudgetInv ==
  /\ IsFiniteSet(ExecutedScreens)
  /\ \A s \in Screens : row[s].attempts > 0 => row[s].status \in Executed
  /\ phase = "execute" => ~QuarterIsSpent
  /\ IF phase = "claimed" THEN invoked < Cardinality(Attempts)
                          ELSE invoked =< Cardinality(Attempts)
  /\ Cardinality(Attempts) =< (Cap - 1) * MaxAttempts + 1

LEMMA AttemptsAreFinite ==
  ASSUME TypeOK, BudgetInv
  PROVE  /\ IsFiniteSet(Attempts) /\ Cardinality(Attempts) \in Nat
         /\ Cardinality(Attempts) =< Cardinality(ExecutedScreens) * MaxAttempts
<1>1. Attempts \subseteq ExecutedScreens \X (1..MaxAttempts)
  BY DEF Attempts, ExecutedScreens, BudgetInv, TypeOK
<1>2. IsFiniteSet(1..MaxAttempts) /\ Cardinality(1..MaxAttempts) = MaxAttempts
  <2>1. MaxAttempts \in Nat \ {0}
    BY StepAssumption
  <2>2. /\ IsFiniteSet(1..MaxAttempts)
        /\ Cardinality(1..MaxAttempts)
             = IF 1 > MaxAttempts THEN 0 ELSE MaxAttempts - 1 + 1
    BY <2>1, FS_Interval
  <2>3. QED BY <2>1, <2>2
<1>3. IsFiniteSet(ExecutedScreens)
  BY DEF BudgetInv
<1>4. /\ IsFiniteSet(ExecutedScreens \X (1..MaxAttempts))
      /\ Cardinality(ExecutedScreens \X (1..MaxAttempts))
           = Cardinality(ExecutedScreens) * MaxAttempts
  BY <1>2, <1>3, FS_Product
<1> QED BY <1>1, <1>4, FS_Subset, FS_CardinalityType

(* A budget is kept by a step that claims nothing and invokes nothing.     *)
LEMMA BudgetUntouched ==
  ASSUME BudgetInv, row' = row, invoked' = invoked,
         phase' = "claimed" => phase = "claimed",
         phase' = "execute" => ~QuarterIsSpent,
         TypeOK
  PROVE  BudgetInv'
<1>1. ExecutedScreens' = ExecutedScreens /\ Attempts' = Attempts
      /\ (QuarterIsSpent' <=> QuarterIsSpent)
  BY DEF ExecutedScreens, Attempts, QuarterIsSpent
<1>2. Cardinality(Attempts) \in Nat /\ invoked \in Nat
  BY AttemptsAreFinite DEF TypeOK
<1>3. IF phase' = "claimed" THEN invoked < Cardinality(Attempts)
                            ELSE invoked =< Cardinality(Attempts)
  BY <1>2 DEF BudgetInv
<1> QED BY <1>1, <1>3 DEF BudgetInv

(* The claim is the step that uses it.                                     *)
LEMMA ClaimBudget ==
  ASSUME IInv, BudgetInv, NEW q \in Questions, Claim(q)
  PROVE  BudgetInv'
<1> DEFINE s == Current(q)
           n == row[s].attempts + 1
<1>1. s \in Screens /\ Open(s)
  BY PendingIsOpen DEF Claim, IInv, RunFits
<1>2. n \in 1..MaxAttempts
  BY <1>1, StepAssumption DEF Open, Retryable, NoRow, IInv, TypeOK
<1>3. row' = [row EXCEPT ![s] = [status |-> "running", attempts |-> n, finished |-> 0]]
      /\ invoked' = invoked /\ phase' = "claimed" /\ phase = "execute"
  BY DEF Claim, Put
<1> HIDE DEF s
<1>4. /\ row'[s].status = "running" /\ row'[s].attempts = n
      /\ \A t \in Screens : t # s => row'[t] = row[t]
  BY <1>1, <1>3 DEF IInv, TypeOK
<1>5. IsFiniteSet(ExecutedScreens')
  <2>1. ExecutedScreens' \subseteq ExecutedScreens \cup {s}
    BY <1>4 DEF ExecutedScreens
  <2>2. IsFiniteSet(ExecutedScreens \cup {s})
    BY FS_AddElement DEF BudgetInv
  <2> QED BY <2>1, <2>2, FS_Subset
<1>6. \A t \in Screens : row'[t].attempts > 0 => row'[t].status \in Executed
  BY <1>4 DEF BudgetInv, Executed
<1>7. Attempts' = Attempts \cup {<<s, n>>} /\ <<s, n>> \notin Attempts
  <2>1. row[s].attempts \in Nat /\ n = row[s].attempts + 1
    BY <1>1 DEF IInv, TypeOK
  <2>2. <<s, n>> \notin Attempts
    BY <2>1 DEF Attempts
  <2>3. \A k \in 1..MaxAttempts : k =< n <=> k =< row[s].attempts \/ k = n
    BY <2>1
  <2>4. ASSUME NEW t \in Screens, NEW k \in 1..MaxAttempts
        PROVE  k =< row'[t].attempts <=> k =< row[t].attempts \/ <<t, k>> = <<s, n>>
    BY <1>4, <2>3
  <2> HIDE DEF n
  <2>5. Attempts' = Attempts \cup {<<s, n>>}
    BY <1>1, <1>2, <2>4 DEF Attempts
  <2> QED BY <2>2, <2>5
<1>8. /\ IsFiniteSet(Attempts) /\ Cardinality(Attempts) \in Nat
      /\ Cardinality(Attempts) =< Cardinality(ExecutedScreens) * MaxAttempts
  BY AttemptsAreFinite DEF IInv
<1>9. Cardinality(Attempts') = Cardinality(Attempts) + 1
  BY <1>7, <1>8, FS_AddElement
<1>10. Cardinality(ExecutedScreens) * MaxAttempts =< (Cap - 1) * MaxAttempts
  <2>1. Cardinality(ExecutedScreens) \in Nat /\ Cap \in Nat /\ MaxAttempts \in Nat
    BY FS_CardinalityType, StepAssumption DEF BudgetInv
  <2>2. Cardinality(ExecutedScreens) =< Cap - 1
    BY <1>3, <2>1 DEF BudgetInv, QuarterIsSpent, ExecutedScreens
  <2>3. \A a, b, c \in Nat : a =< b => a * c =< b * c
    OBVIOUS
  <2>4. Cap - 1 \in Nat
    BY <2>1, <2>2
  <2> QED BY <2>1, <2>2, <2>3, <2>4
<1>11. Cardinality(Attempts') =< (Cap - 1) * MaxAttempts + 1
  <2>1. Cardinality(ExecutedScreens) * MaxAttempts \in Nat /\ (Cap - 1) * MaxAttempts \in Int
    BY FS_CardinalityType, StepAssumption DEF BudgetInv
  <2> QED BY <1>8, <1>9, <1>10, <2>1
<1>12. invoked' < Cardinality(Attempts')
  BY <1>3, <1>8, <1>9 DEF BudgetInv, IInv, TypeOK
<1> QED BY <1>3, <1>5, <1>6, <1>11, <1>12 DEF BudgetInv

(* Any other row that is written keeps its screen's attempts.              *)
LEMMA WrittenBudget ==
  ASSUME IInv, BudgetInv, NEW q \in Questions,
         \/ NoApprovedHarness(q) \/ HarnessFails(q)
         \/ \E yes \in BOOLEAN : HarnessReturns(q, yes)
  PROVE  BudgetInv'
<1> DEFINE s == Current(q)
<1>1. s \in Screens
  BY DEF Current, Screens, IInv, TypeOK
<1>2. PICK st \in Statuses, fin \in 0..LastWeek :
        /\ row' = [row EXCEPT ![s] = [status |-> st, attempts |-> row[s].attempts,
                                      finished |-> fin]]
        /\ st \in Executed \/ row[s] = NoRow
        /\ row[s].status \in Executed => st \in Executed
        /\ st \in Executed => row[s].status \in Executed
  <2>1. CASE NoApprovedHarness(q)
    <3>1. row[s] = NoRow /\ row[s].attempts = 0 /\ row[s].status = "none"
      BY <2>1 DEF NoApprovedHarness, NoRow
    <3>2. row' = [row EXCEPT ![s] = [status |-> "no_harness", attempts |-> 0, finished |-> 0]]
      BY <2>1 DEF NoApprovedHarness, Put
    <3>3. "no_harness" \in Statuses \ Executed /\ "none" \notin Executed /\ 0 \in 0..LastWeek
      BY StepAssumption DEF Statuses, Executed
    <3> QED BY <3>1, <3>2, <3>3
  <2>2. CASE HarnessFails(q)
    BY <2>2 DEF HarnessFails, Put, Statuses, Executed, IInv, TypeOK, RunFits, Working
  <2>3. CASE \E yes \in BOOLEAN : HarnessReturns(q, yes)
    <3>1. PICK st \in {"completed", "supported"} :
            Put(Current(q), st, row[Current(q)].attempts, week)
      BY <2>3 DEF HarnessReturns
    <3>2. row[s].status = "running"
      BY <2>3 DEF HarnessReturns, IInv, RunFits, Working
    <3> QED BY <3>1, <3>2 DEF Put, Statuses, Executed, IInv, TypeOK
  <2> QED BY <2>1, <2>2, <2>3
<1>3. /\ invoked' = invoked /\ phase # "claimed"
      /\ phase' \in {"unharnessed", "record", "notify"}
  BY DEF NoApprovedHarness, HarnessFails, HarnessReturns
<1> HIDE DEF s
<1>4. /\ \A t \in Screens : row'[t].attempts = row[t].attempts
      /\ \A t \in Screens : row'[t].status \in Executed <=> row[t].status \in Executed
  BY <1>1, <1>2 DEF IInv, TypeOK
<1>5. ExecutedScreens' = ExecutedScreens /\ Attempts' = Attempts
  BY <1>4 DEF ExecutedScreens, Attempts
<1> QED BY <1>3, <1>4, <1>5 DEF BudgetInv

LEMMA BudgetStep == IInv /\ BudgetInv /\ [Next]_vars => BudgetInv'
<1> SUFFICES ASSUME IInv, BudgetInv, [Next]_vars PROVE BudgetInv'
  OBVIOUS
<1>1. TypeOK
  BY DEF IInv
<1>2. CASE UNCHANGED vars
  BY <1>1, <1>2, BudgetUntouched DEF vars, results, run, BudgetInv
<1>3. CASE Tick
  <2>1. CASE NewQuarter
    <3>1. row' = [s \in Screens |-> NoRow] /\ invoked' = 0 /\ phase' = "idle"
      BY <1>3, <2>1 DEF Tick, run
    <3>2. ExecutedScreens' = {} /\ Attempts' = {}
          /\ \A s \in Screens : row'[s].attempts = 0
      BY <3>1 DEF ExecutedScreens, Attempts, NoRow, Executed
    <3>3. IsFiniteSet({}) /\ Cardinality({}) = 0
      BY FS_EmptySet
    <3>4. 0 =< (Cap - 1) * MaxAttempts + 1
      <4>1. Cap - 1 \in Nat /\ MaxAttempts \in Nat
        BY StepAssumption
      <4>2. \A a, b \in Nat : a * b \in Nat
        OBVIOUS
      <4> QED BY <4>1, <4>2
    <3> QED BY <3>1, <3>2, <3>3, <3>4 DEF BudgetInv
  <2>2. CASE ~NewQuarter
    BY <1>1, <1>3, <2>2, BudgetUntouched DEF Tick, run
  <2> QED BY <2>1, <2>2
<1>4. CASE \/ \E q \in Questions : DataChange(q) \/ NewHarness(q)
           \/ \E f \in Families : FamilyFails(f)
  BY <1>1, <1>4, BudgetUntouched DEF DataChange, NewHarness, FamilyFails, results, run
<1>5. CASE StartRun \/ OutOfDecisions \/ RecordDecision \/ Crash
           \/ \E f \in Families : Shelve(f)
  BY <1>1, <1>5, BudgetUntouched DEF StartRun, OutOfDecisions, RecordDecision, Crash, Shelve,
     results, BudgetInv
<1>6. CASE Decide
  <2>1. Decision.kind = "START_EXPLORATORY" => ~QuarterIsSpent
    BY DEF Decision, NoAction
  <2> QED BY <1>1, <1>6, <2>1, BudgetUntouched DEF Decide, results
<1>7. ASSUME NEW q \in Questions, MirrorAndInvoke(q) PROVE BudgetInv'
  <2>1. /\ row' = row /\ invoked' = invoked + 1
        /\ phase = "claimed" /\ phase' = "running"
    BY <1>7 DEF MirrorAndInvoke
  <2>2. ExecutedScreens' = ExecutedScreens /\ Attempts' = Attempts
    BY <2>1 DEF ExecutedScreens, Attempts
  <2>3. invoked + 1 =< Cardinality(Attempts)
    BY <1>1, <2>1, AttemptsAreFinite DEF BudgetInv, TypeOK
  <2> QED BY <2>1, <2>2, <2>3 DEF BudgetInv
<1>8. ASSUME NEW q \in Questions, MirrorUnharnessed(q) \/ \E yes \in BOOLEAN : Notify(q, yes)
      PROVE  BudgetInv'
  BY <1>1, <1>8, BudgetUntouched DEF MirrorUnharnessed, Notify
<1>9. ASSUME NEW q \in Questions,
             \/ NoApprovedHarness(q) \/ HarnessFails(q) \/ Claim(q)
             \/ \E yes \in BOOLEAN : HarnessReturns(q, yes)
      PROVE  BudgetInv'
  BY <1>9, ClaimBudget, WrittenBudget
<1> QED BY <1>2, <1>3, <1>4, <1>5, <1>6, <1>7, <1>8, <1>9 DEF Next, RunStep

-----------------------------------------------------------------------------
(* Theorems.                                                               *)

(* The invariant on which the properties rest holds in every state.        *)
THEOREM Inductive == Spec => []IInv
BY InitHolds, StepHolds, PTL DEF Spec

(* Rows, decisions and the run keep their types; no screen has more        *)
(* attempts than it may.                                                   *)
THEOREM TypeCorrect == Spec => []TypeOK
<1>1. IInv => TypeOK
  BY DEF IInv
<1> QED BY <1>1, Inductive, PTL

(* Every question the controller decides to screen is one _execute_screen  *)
(* will run.                                                               *)
THEOREM DecisionsAreOpen == Spec => []DecidedIsOpen
<1>1. IInv => DecidedIsOpen
  BY PendingIsOpen DEF IInv, RunFits, DecidedIsOpen
<1> QED BY <1>1, Inductive, PTL

(* Every recorded decision names what happened in its quarter.             *)
THEOREM RecordsAreBacked == Spec => []DecisionsAreBacked
<1>1. IInv => DecisionsAreBacked
  BY DEF IInv
<1> QED BY <1>1, Inductive, PTL

(* Screens without a trial row are never more than the crashes.            *)
THEOREM OnlyCrashesHide == Spec => []UnmirroredIsACrash
<1>1. IInv => UnmirroredIsACrash
  BY DEF IInv, CrashesCovered, UnmirroredIsACrash, Unmirrored
<1> QED BY <1>1, Inductive, PTL

(* A quarter's harness is invoked at most as often as the screens below    *)
(* the cap may be attempted, and once more.                                *)
THEOREM BudgetIsKept == Spec => []InvocationsAreBounded
<1>1. Init => BudgetInv
  <2> SUFFICES ASSUME Init PROVE BudgetInv
    OBVIOUS
  <2>1. ExecutedScreens = {} /\ Attempts = {} /\ \A s \in Screens : row[s].attempts = 0
    BY DEF Init, ExecutedScreens, Attempts, NoRow, Executed
  <2>2. IsFiniteSet({}) /\ Cardinality({}) = 0
    BY FS_EmptySet
  <2>3. 0 =< (Cap - 1) * MaxAttempts + 1
    <3>1. Cap - 1 \in Nat /\ MaxAttempts \in Nat
      BY StepAssumption
    <3>2. \A a, b \in Nat : a * b \in Nat
      OBVIOUS
    <3> QED BY <3>1, <3>2
  <2> QED BY <2>1, <2>2, <2>3 DEF Init, BudgetInv
<1>2. IInv /\ BudgetInv => InvocationsAreBounded
  <2> SUFFICES ASSUME IInv, BudgetInv PROVE InvocationsAreBounded
    OBVIOUS
  <2>1. Cardinality(Attempts) \in Nat /\ invoked \in Nat
    BY AttemptsAreFinite DEF IInv, TypeOK
  <2>2. invoked =< Cardinality(Attempts)
    BY <2>1 DEF BudgetInv
  <2>3. (Cap - 1) * MaxAttempts \in Int
    BY StepAssumption
  <2> QED BY <2>1, <2>2, <2>3 DEF BudgetInv, InvocationsAreBounded
<1> QED BY <1>1, <1>2, BudgetStep, Inductive, PTL DEF Spec

(* No answer of the quarter is replaced by another attempt.                *)
THEOREM NoSecondAnswer == Spec => AnswersAreFinal
<1>1. ASSUME IInv, [Next]_vars, NEW s \in Screens, ~NewQuarter,
             row[s].status \in {"completed", "supported"}
      PROVE  row'[s] = row[s]
  <2>1. CASE row' = row
    BY <2>1
  <2>2. CASE Tick
    BY <1>1, <2>2 DEF Tick
  <2>3. ASSUME NEW q \in Questions,
               NoApprovedHarness(q) \/ Claim(q) \/ HarnessFails(q)
                 \/ \E yes \in BOOLEAN : HarnessReturns(q, yes)
        PROVE  row'[s] = row[s]
    <3>1. row[Current(q)].status \notin {"completed", "supported"}
      BY <1>1, <2>3 DEF NoApprovedHarness, Claim, HarnessFails, HarnessReturns, Open,
         Retryable, NoRow, Working, IInv, RunFits
    <3>2. s # Current(q)
      BY <1>1, <3>1
    <3> QED BY <1>1, <2>3, <3>2 DEF NoApprovedHarness, Claim, HarnessFails, HarnessReturns,
               Put, IInv, TypeOK
  <2>4. \/ row' = row \/ Tick
        \/ \E q \in Questions : NoApprovedHarness(q) \/ Claim(q) \/ HarnessFails(q)
                                  \/ \E yes \in BOOLEAN : HarnessReturns(q, yes)
    BY <1>1 DEF Next, RunStep, vars, results, DataChange, NewHarness, FamilyFails, StartRun,
       Shelve, Decide, OutOfDecisions, MirrorUnharnessed, MirrorAndInvoke, Notify,
       RecordDecision, Crash
  <2> QED BY <2>1, <2>2, <2>3, <2>4
<1>2. IInv /\ [Next]_vars =>
        [\A s \in Screens : row[s].status \in {"completed", "supported"} /\ ~NewQuarter
            => row'[s] = row[s]]_vars
  BY <1>1
<1> QED BY <1>2, Inductive, PTL DEF Spec, AnswersAreFinal

(* No harness is invoked while support waits for a human.                  *)
THEOREM SupportIsRespected == Spec => SupportStopsTheLoop
<1>1. ASSUME IInv, [Next]_vars, invoked' > invoked
      PROVE  NoSupport
  <2>1. invoked \in Nat /\ ~(0 > invoked) /\ ~(invoked > invoked)
    BY <1>1 DEF IInv, TypeOK
  <2>2. \/ invoked' = invoked \/ invoked' = 0
        \/ \E q \in Questions : MirrorAndInvoke(q)
    BY <1>1 DEF Next, RunStep, vars, results, Tick, DataChange, NewHarness, FamilyFails,
       StartRun, Shelve, Decide, OutOfDecisions, NoApprovedHarness, MirrorUnharnessed, Claim,
       HarnessFails, HarnessReturns, Notify, RecordDecision, Crash
  <2>3. PICK q \in Questions : MirrorAndInvoke(q)
    BY <1>1, <2>1, <2>2
  <2> QED BY <1>1, <2>3 DEF MirrorAndInvoke, IInv, RunFits
<1>2. IInv /\ [Next]_vars =>
        [invoked' > invoked =>
           \A q \in Admissible, v \in Versions : row[<<q, v>>].status # "supported"]_vars
  BY <1>1 DEF NoSupport
<1> QED BY <1>2, Inductive, PTL DEF Spec, SupportStopsTheLoop

=============================================================================
