------------------------ MODULE AlphaRegistry_proofs ------------------------
(***************************************************************************)
(* The registry implements the lifecycle, and whatever instants its        *)
(* callers pass it, its history is the path of every row.  The second      *)
(* rests on one invariant: every row is where its last move took it, a     *)
(* rejection is a last move, and the change being written is the last.     *)
(***************************************************************************)
EXTENDS AlphaRegistry, TLAPS

(* The part of the type invariant the implementation rests on.             *)
RowsTyped ==
  /\ row \in [Versions -> Rows]
  /\ passed \in [Versions -> SUBSET Lifecycle!ResearchStates]
  /\ rung \in [Versions -> 0..4]
  /\ \A v \in Versions : row[v].status = "none" => row[v] = NoRow

-----------------------------------------------------------------------------
(* What the actions do to a version's row.                                 *)

LEMMA RegisterEffect ==
  ASSUME NEW v \in Versions, NEW f \in BOOLEAN, NEW t, RowsTyped, Register(v, f, t)
  PROVE  /\ row[v].status = "none"
         /\ row' = [row EXCEPT ![v] = [NoRow EXCEPT !.status = "IDEA", !.frozen = f]]
         /\ passed' = [passed EXCEPT ![v] = Lifecycle!PassedIn(@, "IDEA")]
         /\ rung' = [rung EXCEPT ![v] = Lifecycle!RungIn(@, "IDEA")]
BY DEF Register, UpsertAlphaSource, Unregistered, Status, NoRow

LEMMA TransitionEffect ==
  ASSUME NEW v \in Versions, NEW s \in Statuses, NEW t, RowsTyped, Transition(v, s, t)
  PROVE  /\ row[v].status \notin {"none", "REJECTED", s}
         /\ Lifecycle!TransitionAllowed(row[v].status, s)
         /\ s \in Lifecycle!NeedsFreeze => row[v].frozen
         /\ row' = [row EXCEPT ![v] = [row[v] EXCEPT !.status = s]]
         /\ passed' = [passed EXCEPT ![v] = Lifecycle!PassedIn(@, s)]
         /\ rung' = [rung EXCEPT ![v] = Lifecycle!RungIn(@, s)]
<1>1. [row[v] EXCEPT !.status = s].status = s
  BY DEF RowsTyped, Rows
<1>2. QED
  BY <1>1 DEF Transition, UpsertAlphaSource, Status, Terminal,
              Lifecycle!TerminalStates, FrozenBeforeConfirmatory

LEMMA InitRows == Init => RowsTyped
BY DEF Init, RowsTyped, Rows, NoRow

(* A version given another well-typed row.                                 *)
LEMMA UpdateKeepsTypes ==
  ASSUME RowsTyped, NEW v \in Versions, NEW new \in Rows, new.status # "none",
         row' = [row EXCEPT ![v] = new],
         passed' \in [Versions -> SUBSET Lifecycle!ResearchStates],
         rung' \in [Versions -> 0..4]
  PROVE  RowsTyped'
<1>1. row' \in [Versions -> Rows]
  BY DEF RowsTyped
<1>2. \A w \in Versions : row'[w].status = "none" => row'[w] = NoRow
  BY DEF RowsTyped
<1>3. QED BY <1>1, <1>2 DEF RowsTyped

LEMMA UpdateKeepsMemory ==
  ASSUME NEW v \in Versions, NEW new, RowsTyped, row' = [row EXCEPT ![v] = new],
         row[v].trials \subseteq new.trials, row[v].status # "REJECTED"
  PROVE  \A w \in Versions :
           /\ row[w].trials \subseteq row'[w].trials
           /\ row[w].status = "REJECTED" => row'[w] = row[w]
BY DEF RowsTyped

LEMMA RowsStep == RowsTyped /\ [Next]_vars => RowsTyped'
<1> SUFFICES ASSUME RowsTyped, [Next]_vars PROVE RowsTyped'
  OBVIOUS
<1>1. CASE UNCHANGED vars \/ AppendAlphaStatusChange \/ Crash
  BY <1>1 DEF vars, RowsTyped, AppendAlphaStatusChange, Crash
<1>2. ASSUME NEW v \in Versions, NEW f \in BOOLEAN, NEW t, Register(v, f, t)
      PROVE  RowsTyped'
  <2> DEFINE new == [NoRow EXCEPT !.status = "IDEA", !.frozen = f]
  <2>1. new \in Rows /\ new.status # "none"
    BY DEF NoRow, Rows, Statuses, Lifecycle!AlphaStatus, Lifecycle!ResearchStates
  <2>2. /\ passed' \in [Versions -> SUBSET Lifecycle!ResearchStates]
        /\ rung' \in [Versions -> 0..4]
    <3>1. /\ Lifecycle!PassedIn(passed[v], "IDEA") \in SUBSET Lifecycle!ResearchStates
          /\ Lifecycle!RungIn(rung[v], "IDEA") \in 0..4
      BY DEF RowsTyped, Lifecycle!PassedIn, Lifecycle!RungIn, Lifecycle!Rungs,
             Lifecycle!ResearchStates
    <3>2. QED BY <1>2, <3>1, RegisterEffect DEF RowsTyped
  <2>3. row' = [row EXCEPT ![v] = new]
    BY <1>2, RegisterEffect
  <2> HIDE DEF new
  <2>4. QED BY <2>1, <2>2, <2>3, UpdateKeepsTypes
<1>3. ASSUME NEW v \in Versions, NEW s \in Statuses, NEW t, Transition(v, s, t)
      PROVE  RowsTyped'
  <2> DEFINE new == [row[v] EXCEPT !.status = s]
  <2>1. new \in Rows /\ new.status # "none"
    BY DEF RowsTyped, Rows, Statuses, Lifecycle!AlphaStatus,
           Lifecycle!ResearchStates, Lifecycle!ProductionStates,
           Lifecycle!HealthStates
  <2>2. /\ passed' \in [Versions -> SUBSET Lifecycle!ResearchStates]
        /\ rung' \in [Versions -> 0..4]
    BY <1>3, TransitionEffect
       DEF RowsTyped, Lifecycle!PassedIn, Lifecycle!RungIn, Lifecycle!Rungs,
           Lifecycle!ResearchStates
  <2>3. row' = [row EXCEPT ![v] = new]
    BY <1>3, TransitionEffect
  <2> HIDE DEF new
  <2>4. QED BY <2>1, <2>2, <2>3, UpdateKeepsTypes
<1>4. ASSUME NEW v \in Versions, NEW x \in Readings, NEW ts \in SUBSET Trials,
             RecordEvidence(v, x, ts)
      PROVE  RowsTyped'
  <2>1. row[v].status # "none"
    BY <1>4 DEF RecordEvidence, EvidenceWanted, Status
  <2> DEFINE new == [row[v] EXCEPT !.reading = x, !.trials = @ \cup ts]
  <2>2. new \in Rows /\ new.status # "none"
    BY <2>1 DEF RowsTyped, Rows
  <2>3. row' = [row EXCEPT ![v] = new] /\ passed' = passed /\ rung' = rung
    BY <1>4 DEF RecordEvidence, RowsTyped, Rows
  <2> HIDE DEF new
  <2>4. QED BY <2>2, <2>3, UpdateKeepsTypes DEF RowsTyped
<1>5. QED BY <1>1, <1>2, <1>3, <1>4 DEF Next, Call

-----------------------------------------------------------------------------
(* The refinement.                                                         *)

LEMMA InitRefines == Init => Lifecycle!Init
BY DEF Init, Lifecycle!Init, NoRow

LEMMA StepRefines ==
  RowsTyped /\ [Next]_vars => [Lifecycle!Next]_(Lifecycle!vars)
<1> SUFFICES ASSUME RowsTyped, [Next]_vars
             PROVE  Lifecycle!Next \/ UNCHANGED Lifecycle!vars
  OBVIOUS
<1>1. CASE UNCHANGED vars \/ AppendAlphaStatusChange \/ Crash
  BY <1>1 DEF vars, AppendAlphaStatusChange, Crash, Lifecycle!vars
<1>2. ASSUME NEW v \in Versions, NEW f \in BOOLEAN, NEW t, Register(v, f, t)
      PROVE  Lifecycle!Register(v, f)
  <2> DEFINE new == [NoRow EXCEPT !.status = "IDEA", !.frozen = f]
  <2>1. new.status = "IDEA" /\ new.frozen = f
    BY DEF NoRow
  <2>2. row' = [row EXCEPT ![v] = new]
    BY <1>2, RegisterEffect
  <2> HIDE DEF new
  <2>3. [w \in Versions |-> row'[w].status]
          = [[w \in Versions |-> row[w].status] EXCEPT ![v] = "IDEA"]
    BY <2>1, <2>2 DEF RowsTyped
  <2>4. [w \in Versions |-> row'[w].frozen]
          = [[w \in Versions |-> row[w].frozen] EXCEPT ![v] = f]
    BY <2>1, <2>2 DEF RowsTyped
  <2>5. QED
    BY <1>2, <2>3, <2>4, RegisterEffect DEF Lifecycle!Register, Lifecycle!Enter
<1>3. ASSUME NEW v \in Versions, NEW s \in Statuses, NEW t, Transition(v, s, t)
      PROVE  Lifecycle!Move(v, s)
  <2> DEFINE new == [row[v] EXCEPT !.status = s]
  <2>1. new.status = s /\ new.frozen = row[v].frozen
    BY DEF RowsTyped, Rows
  <2>2. row' = [row EXCEPT ![v] = new]
    BY <1>3, TransitionEffect
  <2> HIDE DEF new
  <2>3. [w \in Versions |-> row'[w].status]
          = [[w \in Versions |-> row[w].status] EXCEPT ![v] = s]
    BY <2>1, <2>2 DEF RowsTyped
  <2>4. [w \in Versions |-> row'[w].frozen] = [w \in Versions |-> row[w].frozen]
    BY <2>1, <2>2 DEF RowsTyped
  <2>5. QED
    BY <1>3, <2>3, <2>4, TransitionEffect DEF Lifecycle!Move, Lifecycle!Enter
<1>4. ASSUME NEW v \in Versions, NEW x \in Readings, NEW ts \in SUBSET Trials,
             RecordEvidence(v, x, ts)
      PROVE  UNCHANGED Lifecycle!vars
  BY <1>4 DEF RecordEvidence, RowsTyped, Rows, Lifecycle!vars
<1>5. QED
  BY <1>1, <1>2, <1>3, <1>4 DEF Next, Call, Lifecycle!Next, Statuses

(* Every behaviour of the registry is a behaviour of the lifecycle, so     *)
(* what is proved of AlphaLifecycle holds of the stored rows.              *)
THEOREM RegistryImplementsLifecycle == Spec => ImplementsLifecycle
<1>1. QED
  BY InitRows, RowsStep, InitRefines, StepRefines, PTL
     DEF Spec, ImplementsLifecycle, Lifecycle!Spec

-----------------------------------------------------------------------------
(* The lifecycle's promises, carried over by the refinement.               *)

Career == INSTANCE AlphaLifecycle_proofs
  WITH status <- [v \in Versions |-> row[v].status],
       frozen <- [v \in Versions |-> row[v].frozen]

LEMMA SpecIsCareer == ImplementsLifecycle => Career!Spec
<1>1. Lifecycle!Init => Career!Init
  BY DEF Lifecycle!Init, Career!Init
<1>2. Lifecycle!Next => Career!Next
  BY DEF Lifecycle!TransitionAllowed, Career!TransitionAllowed,
         Lifecycle!AllowedTransitions, Career!AllowedTransitions,
         Lifecycle!TerminalStates, Career!TerminalStates,
         Lifecycle!PassedIn, Career!PassedIn,
         Lifecycle!RungIn, Career!RungIn,
         Lifecycle!Rungs, Career!Rungs,
         Lifecycle!NeedsFreeze, Career!NeedsFreeze,
         Lifecycle!ProductionStates, Career!ProductionStates,
         Lifecycle!HealthStates, Career!HealthStates,
         Lifecycle!ResearchStates, Career!ResearchStates,
         Lifecycle!AlphaStatus, Career!AlphaStatus,
         Lifecycle!Next, Career!Next,
         Lifecycle!Register, Career!Register,
         Lifecycle!Move, Career!Move,
         Lifecycle!Enter, Career!Enter
<1>3. UNCHANGED Lifecycle!vars => UNCHANGED Career!vars
  BY DEF Lifecycle!vars, Career!vars
<1>4. QED
  BY <1>1, <1>2, <1>3, PTL
     DEF ImplementsLifecycle, Lifecycle!Spec, Career!Spec

(* Whatever crashed in between, a stored version that earns is frozen and  *)
(* was validated, confirmed and shadowed since it last began.              *)
THEOREM StoredProductionIsConfirmed == Spec => []ProductionWasConfirmed
<1>1. Career!ProductionWasConfirmed => ProductionWasConfirmed
  BY DEF Career!ProductionWasConfirmed, ProductionWasConfirmed,
         Lifecycle!ProductionWasConfirmed,
         Lifecycle!ProductionStates, Career!ProductionStates,
         Lifecycle!HealthStates, Career!HealthStates
<1>2. QED
  BY <1>1, RegistryImplementsLifecycle, SpecIsCareer,
     Career!ProductionIsConfirmed, PTL

(* No sequence of calls and crashes raises a stored version's allocation   *)
(* by more than one rung.                                                  *)
THEOREM StoredPromotionIsEarned == Spec => PromotionIsEarned
<1>1. [\A v \in Versions : rung'[v] =< rung[v] + 1]_(Career!vars)
        => [\A v \in Versions : rung'[v] =< rung[v] + 1]_(Lifecycle!vars)
  BY DEF Career!vars, Lifecycle!vars
<1>2. QED
  BY <1>1, RegistryImplementsLifecycle, SpecIsCareer, Career!PromotionEarned, PTL
     DEF PromotionIsEarned, Lifecycle!PromotionIsEarned, Career!PromotionIsEarned

-----------------------------------------------------------------------------
(* The history and the path.                                               *)

RestTyped ==
  /\ history \subseteq Changes
  /\ writing \in Changes \cup {NoChange}
  /\ clock \in Nat
  /\ skews \in 0..MaxSkews
  /\ moves \in [Versions -> Seq([to : Statuses, at : Nat])]
  /\ lost \subseteq Versions \X Nat
  /\ calls \in 0..MaxCalls
  /\ crashes \in 0..MaxCrashes

Last(v) == Len(moves[v])

(* A version is where its last move took it, a rejection is a last move,   *)
(* crashes lose only moves that were made, and only the last move of a     *)
(* version can be waiting for its second statement.                        *)
MovesFit ==
  /\ \A v \in Versions :
       /\ row[v].status = IF Last(v) = 0 THEN "none" ELSE moves[v][Last(v)].to
       /\ \A i \in 1..Last(v) : i < Last(v) => moves[v][i].to # "REJECTED"
       /\ \A p \in lost : p[1] = v => p[2] \in 1..Last(v)
  /\ writing # NoChange =>
       \E v \in Versions : /\ Last(v) > 0 /\ writing = Change(v, Last(v))
                           /\ <<v, Last(v)>> \notin lost

(* While every now was later than all before, no move is younger than the  *)
(* clock and the moves of a version are listed in their order.             *)
InOrder ==
  skews = 0 =>
    \A v \in Versions : /\ \A i \in 1..Last(v) : moves[v][i].at =< clock
                        /\ ListedInOrder(v)

HistoryFits ==
  \A v \in Versions : {h \in history : h.version = v} = {Change(v, i) : i \in Kept(v)}

PathInv == RowsTyped /\ RestTyped /\ MovesFit /\ InOrder /\ HistoryFits

LEMMA InitRest == Init => RestTyped
BY RegistryAssumption DEF Init, RestTyped

(* What both calls that change a status do to the rest of the state.       *)
ChangesStatus(v, s, t) ==
  /\ writing = NoChange /\ calls < MaxCalls /\ calls' = calls + 1
  /\ Instant(t)
  /\ row[v].status # "REJECTED"
  /\ row' \in [Versions -> Rows]
  /\ \A w \in Versions : row'[w].status = IF w = v THEN s ELSE row[w].status
  /\ writing' = [version |-> v, at |-> t, from |-> row[v].status, to |-> s]
  /\ moves' = [moves EXCEPT ![v] = Append(@, [to |-> s, at |-> t])]
  /\ UNCHANGED <<history, lost, crashes>>

LEMMA StatusChange ==
  ASSUME RowsTyped, NEW v \in Versions, NEW t \in 0..(clock + 1),
         (\E f \in BOOLEAN : Register(v, f, t)) \/ (\E s \in Statuses : Transition(v, s, t))
  PROVE  \E s \in Statuses : ChangesStatus(v, s, t)
<1>1. ASSUME NEW f \in BOOLEAN, Register(v, f, t)
      PROVE  \E s \in Statuses : ChangesStatus(v, s, t)
  <2> DEFINE new == [NoRow EXCEPT !.status = "IDEA", !.frozen = f]
  <2>1. "IDEA" \in Statuses
    BY DEF Statuses, Lifecycle!AlphaStatus, Lifecycle!ResearchStates
  <2>2. new.status = "IDEA"
    BY DEF NoRow
  <2>3. /\ writing = NoChange /\ calls < MaxCalls /\ calls' = calls + 1
        /\ Instant(t)
        /\ UpsertAlphaSource(v, new, t)
        /\ UNCHANGED <<history, lost, crashes>>
    BY <1>1 DEF Register, StartCall
  <2>4. row' \in [Versions -> Rows]
    <3>1. Next
      BY <1>1 DEF Next, Call
    <3>2. QED BY <3>1, RowsStep DEF RowsTyped
  <2> HIDE DEF new
  <2>5. /\ row' = [row EXCEPT ![v] = new]
        /\ writing' = [version |-> v, at |-> t, from |-> row[v].status, to |-> "IDEA"]
        /\ moves' = [moves EXCEPT ![v] = Append(@, [to |-> "IDEA", at |-> t])]
    BY <2>2, <2>3 DEF UpsertAlphaSource, Status
  <2>6. \A w \in Versions : row'[w].status = IF w = v THEN "IDEA" ELSE row[w].status
    BY <2>2, <2>5 DEF RowsTyped
  <2>7. row[v].status # "REJECTED"
    BY <1>1, RegisterEffect
  <2>8. QED BY <2>1, <2>3, <2>4, <2>5, <2>6, <2>7 DEF ChangesStatus
<1>2. ASSUME NEW s \in Statuses, Transition(v, s, t)
      PROVE  ChangesStatus(v, s, t)
  <2> DEFINE new == [row[v] EXCEPT !.status = s]
  <2>2. new.status = s
    BY DEF RowsTyped, Rows
  <2>3. /\ writing = NoChange /\ calls < MaxCalls /\ calls' = calls + 1
        /\ Instant(t)
        /\ UpsertAlphaSource(v, new, t)
        /\ UNCHANGED <<history, lost, crashes>>
    BY <1>2 DEF Transition, StartCall
  <2>4. row' \in [Versions -> Rows]
    <3>1. Next
      BY <1>2 DEF Next, Call
    <3>2. QED BY <3>1, RowsStep DEF RowsTyped
  <2> HIDE DEF new
  <2>5. /\ row' = [row EXCEPT ![v] = new]
        /\ writing' = [version |-> v, at |-> t, from |-> row[v].status, to |-> s]
        /\ moves' = [moves EXCEPT ![v] = Append(@, [to |-> s, at |-> t])]
    BY <2>2, <2>3 DEF UpsertAlphaSource, Status
  <2>6. \A w \in Versions : row'[w].status = IF w = v THEN s ELSE row[w].status
    BY <2>2, <2>5 DEF RowsTyped
  <2>7. row[v].status # "REJECTED"
    BY <1>2, TransitionEffect
  <2>8. QED BY <2>3, <2>4, <2>5, <2>6, <2>7 DEF ChangesStatus
<1>3. QED BY <1>1, <1>2

LEMMA RestStep == RowsTyped /\ RestTyped /\ [Next]_vars => RestTyped'
<1> SUFFICES ASSUME RowsTyped, RestTyped, [Next]_vars PROVE RestTyped'
  OBVIOUS
<1> USE RegistryAssumption DEF RestTyped
<1>1. CASE UNCHANGED vars
  BY <1>1 DEF vars
<1>2. CASE AppendAlphaStatusChange
  BY <1>2 DEF AppendAlphaStatusChange
<1>3. CASE Crash
  <2>1. writing \in Changes
    BY <1>3 DEF Crash
  <2>2. writing.version \in Versions
    BY <2>1 DEF Changes
  <2>3. Len(moves[writing.version]) \in Nat
    BY <2>2
  <2>4. lost' \subseteq Versions \X Nat
    BY <1>3, <2>2, <2>3 DEF Crash
  <2>5. crashes' \in 0..MaxCrashes
    BY <1>3 DEF Crash
  <2>6. QED BY <1>3, <2>4, <2>5 DEF Crash
<1>4. ASSUME NEW v \in Versions, NEW t \in 0..(clock + 1),
             (\E f \in BOOLEAN : Register(v, f, t)) \/ (\E s \in Statuses : Transition(v, s, t))
      PROVE  RestTyped'
  <2>1. PICK s \in Statuses : ChangesStatus(v, s, t)
    BY <1>4, StatusChange
  <2>2. t \in Nat
    OBVIOUS
  <2>3. row[v].status \in Statuses \cup {"none"}
    BY DEF RowsTyped, Rows
  <2>4. writing' \in Changes
    BY <2>1, <2>2, <2>3 DEF Changes, ChangesStatus
  <2>5. [to |-> s, at |-> t] \in [to : Statuses, at : Nat]
    BY <2>2
  <2> DEFINE M == [to : Statuses, at : Nat]
             x == [to |-> s, at |-> t]
  <2> HIDE DEF M, x
  <2>6. x \in M /\ moves \in [Versions -> Seq(M)]
    BY <2>5 DEF M, x
  <2>7. moves' = [moves EXCEPT ![v] = Append(@, x)]
    BY <2>1 DEF ChangesStatus, x
  <2>8. moves' \in [Versions -> Seq(M)]
    BY <2>6, <2>7
  <2>9. calls' \in 0..MaxCalls /\ clock' \in Nat /\ skews' \in 0..MaxSkews
    BY <2>1, <2>2 DEF ChangesStatus, Instant
  <2>10. QED BY <2>1, <2>4, <2>8, <2>9 DEF ChangesStatus, M
<1>5. ASSUME NEW v \in Versions, NEW x \in Readings, NEW ts \in SUBSET Trials,
             RecordEvidence(v, x, ts)
      PROVE  RestTyped'
  <2>1. calls' \in 0..MaxCalls
    BY <1>5 DEF RecordEvidence, StartCall
  <2>2. QED BY <1>5, <2>1 DEF RecordEvidence
<1>6. QED BY <1>1, <1>2, <1>3, <1>4, <1>5 DEF Next, Call

(* The registry's tables and the call in progress keep their types: in     *)
(* particular a history row is only ever written for a change of status.   *)
THEOREM TypeCorrect == Spec => []TypeOK
<1>1. RowsTyped /\ RestTyped => TypeOK
  BY DEF RowsTyped, RestTyped, TypeOK
<1>2. QED BY <1>1, InitRows, InitRest, RowsStep, RestStep, PTL DEF Spec

LEMMA InitPath == Init => MovesFit /\ InOrder /\ HistoryFits
BY DEF Init, MovesFit, InOrder, HistoryFits, NoRow, Last, ListedInOrder, Kept, Told

(* A sequence with one more element.                                       *)
LEMMA OneMore ==
  ASSUME NEW M, NEW s \in Seq(M), NEW x \in M
  PROVE  /\ Len(Append(s, x)) = Len(s) + 1
         /\ \A i \in 1..Len(s) : Append(s, x)[i] = s[i]
         /\ Append(s, x)[Len(s) + 1] = x
         /\ DOMAIN s = 1..Len(s) /\ DOMAIN Append(s, x) = 1..(Len(s) + 1)
         /\ Len(s) \in Nat
OBVIOUS

LEMMA MovesTyped ==
  ASSUME RestTyped, NEW v \in Versions
  PROVE  /\ Last(v) \in Nat /\ DOMAIN moves[v] = 1..Last(v)
         /\ \A i \in 1..Last(v) : moves[v][i].at \in Nat /\ moves[v][i].to \in Statuses
<1> DEFINE M == [to : Statuses, at : Nat]
<1>1. moves[v] \in Seq(M)
  BY DEF RestTyped
<1>2. \A x \in M : x.at \in Nat /\ x.to \in Statuses
  OBVIOUS
<1> HIDE DEF M
<1>3. Len(moves[v]) \in Nat /\ DOMAIN moves[v] = 1..Len(moves[v])
      /\ \A i \in 1..Len(moves[v]) : moves[v][i] \in M
  BY <1>1
<1>4. QED BY <1>2, <1>3 DEF Last

(* A change of status appends one move to one version.                     *)
LEMMA MovesAfter ==
  ASSUME RestTyped, NEW v \in Versions, NEW s \in Statuses, NEW t \in Nat,
         moves' = [moves EXCEPT ![v] = Append(@, [to |-> s, at |-> t])]
  PROVE  /\ \A w \in Versions : w # v => moves'[w] = moves[w]
         /\ Last(v)' = Last(v) + 1 /\ DOMAIN moves'[v] = 1..(Last(v) + 1)
         /\ \A i \in 1..Last(v) : moves'[v][i] = moves[v][i]
         /\ moves'[v][Last(v) + 1] = [to |-> s, at |-> t]
<1> DEFINE M == [to : Statuses, at : Nat]
           x == [to |-> s, at |-> t]
<1>1. x \in M /\ moves[v] \in Seq(M)
  BY DEF RestTyped
<1>2. moves'[v] = Append(moves[v], x) /\ \A w \in Versions : w # v => moves'[w] = moves[w]
  BY DEF RestTyped
<1> HIDE DEF M, x
<1>3. QED BY <1>1, <1>2, OneMore DEF x, Last

(* What a change of status does to the moves, in one place.                *)
MoveMade(v, s, t) ==
  /\ writing = NoChange /\ t \in Nat /\ Instant(t)
  /\ row[v].status # "REJECTED"
  /\ \A w \in Versions : row'[w].status = IF w = v THEN s ELSE row[w].status
  /\ writing' = [version |-> v, at |-> t, from |-> row[v].status, to |-> s]
  /\ history' = history /\ lost' = lost
  /\ \A w \in Versions : w # v => moves'[w] = moves[w] /\ Last(w)' = Last(w)
  /\ Last(v) \in Nat /\ Last(v)' = Last(v) + 1
  /\ DOMAIN moves[v] = 1..Last(v) /\ DOMAIN moves'[v] = 1..(Last(v) + 1)
  /\ \A i \in 1..Last(v) : moves'[v][i] = moves[v][i]
  /\ moves'[v][Last(v) + 1] = [to |-> s, at |-> t]

LEMMA ChangeMakesMove ==
  ASSUME RestTyped, NEW v \in Versions, NEW s \in Statuses,
         NEW t \in 0..(clock + 1), ChangesStatus(v, s, t)
  PROVE  MoveMade(v, s, t)
<1>1. t \in Nat /\ moves' = [moves EXCEPT ![v] = Append(@, [to |-> s, at |-> t])]
  BY DEF ChangesStatus, RestTyped
<1>2. /\ \A w \in Versions : w # v => moves'[w] = moves[w]
      /\ Last(v)' = Last(v) + 1 /\ DOMAIN moves'[v] = 1..(Last(v) + 1)
      /\ \A i \in 1..Last(v) : moves'[v][i] = moves[v][i]
      /\ moves'[v][Last(v) + 1] = [to |-> s, at |-> t]
  BY <1>1, MovesAfter
<1>3. Last(v) \in Nat /\ DOMAIN moves[v] = 1..Last(v)
  BY MovesTyped
<1>4. \A w \in Versions : w # v => Last(w)' = Last(w)
  BY <1>2 DEF Last
<1>5. QED BY <1>1, <1>2, <1>3, <1>4 DEF ChangesStatus, MoveMade

LEMMA MovesStep ==
  ASSUME RestTyped, MovesFit, NEW v \in Versions, NEW s \in Statuses,
         NEW t \in 0..(clock + 1), ChangesStatus(v, s, t)
  PROVE  MovesFit'
<1>0. MoveMade(v, s, t)
  BY ChangeMakesMove
<1>1. ASSUME NEW w \in Versions
      PROVE  /\ row'[w].status = IF Last(w)' = 0 THEN "none" ELSE moves'[w][Last(w)'].to
             /\ \A i \in 1..Last(w)' : i < Last(w)' => moves'[w][i].to # "REJECTED"
             /\ \A p \in lost' : p[1] = w => p[2] \in 1..Last(w)'
  <2>1. /\ row[w].status = IF Last(w) = 0 THEN "none" ELSE moves[w][Last(w)].to
        /\ \A i \in 1..Last(w) : i < Last(w) => moves[w][i].to # "REJECTED"
        /\ \A p \in lost : p[1] = w => p[2] \in 1..Last(w)
    BY DEF MovesFit
  <2>2. CASE w # v
    BY <1>0, <2>1, <2>2 DEF MoveMade
  <2>3. CASE w = v
    <3>1. row'[w].status = moves'[w][Last(w)'].to /\ Last(w)' # 0
      BY <1>0, <2>3 DEF MoveMade
    <3>2. \A i \in 1..Last(w)' : i < Last(w)' => moves'[w][i].to # "REJECTED"
      <4> SUFFICES ASSUME NEW i \in 1..Last(w)', i < Last(w)'
                   PROVE  moves'[w][i].to # "REJECTED"
        OBVIOUS
      <4>1. i \in 1..Last(w) /\ moves'[w][i] = moves[w][i]
        BY <1>0, <2>3 DEF MoveMade
      <4>2. CASE i < Last(w)
        BY <2>1, <4>1, <4>2
      <4>3. CASE i = Last(w)
        BY <1>0, <2>1, <2>3, <4>1, <4>3 DEF MoveMade
      <4>4. QED BY <1>0, <2>3, <4>1, <4>2, <4>3 DEF MoveMade
    <3>3. \A p \in lost' : p[1] = w => p[2] \in 1..Last(w)'
      BY <1>0, <2>1, <2>3 DEF MoveMade
    <3>4. QED BY <3>1, <3>2, <3>3
  <2>4. QED BY <2>2, <2>3
<1>2. writing' = Change(v, Last(v))' /\ Last(v)' > 0
  <2>1. row[v].status = IF Last(v)' = 1 THEN "none" ELSE moves'[v][Last(v)' - 1].to
    <3>1. row[v].status = IF Last(v) = 0 THEN "none" ELSE moves[v][Last(v)].to
      BY DEF MovesFit
    <3>2. Last(v) \in Nat /\ Last(v)' = Last(v) + 1
      BY <1>0 DEF MoveMade
    <3>3. Last(v) # 0 => moves'[v][Last(v)' - 1] = moves[v][Last(v)]
      <4>1. Last(v)' - 1 = Last(v)
        BY <3>2
      <4>2. Last(v) # 0 => moves'[v][Last(v)] = moves[v][Last(v)]
        BY <1>0, <3>2 DEF MoveMade
      <4>3. QED BY <4>1, <4>2
    <3>4. Last(v)' = 1 <=> Last(v) = 0
      BY <3>2
    <3>5. QED BY <3>1, <3>3, <3>4
  <2>2. moves'[v][Last(v)'].at = t /\ moves'[v][Last(v)'].to = s
    BY <1>0 DEF MoveMade
  <2>3. QED BY <1>0, <2>1, <2>2 DEF MoveMade, Change
<1>3. <<v, Last(v)'>> \notin lost'
  <2>1. \A p \in lost : p[1] = v => p[2] \in 1..Last(v)
    BY DEF MovesFit
  <2>2. QED BY <1>0, <2>1 DEF MoveMade
<1>4. QED BY <1>1, <1>2, <1>3 DEF MovesFit

(* A now later than all before puts its move behind them all.              *)
LEMMA OrderStep ==
  ASSUME RestTyped, InOrder, NEW v \in Versions, NEW s \in Statuses,
         NEW t \in 0..(clock + 1), ChangesStatus(v, s, t)
  PROVE  InOrder'
<1>0. MoveMade(v, s, t)
  BY ChangeMakesMove
<1> SUFFICES ASSUME skews' = 0, NEW w \in Versions
             PROVE  /\ \A i \in 1..Last(w)' : moves'[w][i].at =< clock'
                    /\ ListedInOrder(w)'
  BY DEF InOrder
<1>1. skews = 0 /\ t > clock /\ clock' = t /\ clock \in Nat
  BY <1>0 DEF MoveMade, Instant, RestTyped
<1>2. /\ \A i \in 1..Last(w) : moves[w][i].at =< clock
      /\ \A i, j \in DOMAIN moves[w] : i < j => moves[w][i].at < moves[w][j].at
  BY <1>1 DEF InOrder, ListedInOrder
<1>3. /\ Last(w) \in Nat /\ DOMAIN moves[w] = 1..Last(w)
      /\ \A i \in 1..Last(w) : moves[w][i].at \in Nat
  BY MovesTyped
<1>4. CASE w # v
  <2>1. Last(w)' = Last(w) /\ moves'[w] = moves[w]
    BY <1>0, <1>4 DEF MoveMade
  <2>2. \A i \in 1..Last(w)' : moves'[w][i].at =< clock'
    BY <1>1, <1>2, <1>3, <2>1
  <2>3. QED BY <1>2, <2>1, <2>2 DEF ListedInOrder
<1>5. CASE w = v
  <2>1. /\ \A i \in 1..Last(w) : moves'[w][i].at < t /\ moves'[w][i] = moves[w][i]
        /\ moves'[w][Last(w) + 1].at = t /\ Last(w)' = Last(w) + 1
        /\ DOMAIN moves'[w] = 1..(Last(w) + 1)
    BY <1>0, <1>1, <1>2, <1>3, <1>5 DEF MoveMade
  <2>2. \A i \in 1..Last(w)' : moves'[w][i].at =< clock'
    <3> SUFFICES ASSUME NEW i \in 1..Last(w)' PROVE moves'[w][i].at =< clock'
      OBVIOUS
    <3>1. i \in 1..Last(w) \/ i = Last(w) + 1
      BY <1>3, <2>1
    <3>2. CASE i \in 1..Last(w)
      <4>1. moves'[w][i].at < t /\ moves'[w][i].at \in Nat
        BY <1>3, <2>1, <3>2
      <4>2. QED BY <1>1, <4>1
    <3>3. CASE i = Last(w) + 1
      <4>1. moves'[w][i].at = t
        BY <2>1, <3>3
      <4>2. QED BY <1>1, <4>1
    <3>4. QED BY <3>1, <3>2, <3>3
  <2>3. ASSUME NEW i \in 1..(Last(w) + 1), NEW j \in 1..(Last(w) + 1), i < j
        PROVE  moves'[w][i].at < moves'[w][j].at
    <3>1. i \in 1..Last(w)
      BY <1>3, <2>3
    <3>2. CASE j \in 1..Last(w)
      BY <1>2, <1>3, <2>1, <2>3, <3>1, <3>2
    <3>3. CASE j = Last(w) + 1
      BY <2>1, <3>1, <3>3
    <3>4. QED BY <1>3, <3>2, <3>3
  <2>4. QED BY <2>1, <2>2, <2>3 DEF ListedInOrder
<1>6. QED BY <1>4, <1>5

(* The first statement tells nothing yet.                                  *)
LEMMA MoveTellsNothing ==
  ASSUME RestTyped, HistoryFits, NEW v \in Versions, NEW s \in Statuses,
         NEW t \in 0..(clock + 1), ChangesStatus(v, s, t)
  PROVE  HistoryFits'
<1>0. MoveMade(v, s, t)
  BY ChangeMakesMove
<1>1. ASSUME NEW w \in Versions
      PROVE  /\ Kept(w)' = Kept(w)
             /\ \A i \in Kept(w) : Change(w, i)' = Change(w, i)
  <2>1. CASE w # v
    <3>1. moves'[w] = moves[w] /\ lost' = lost
      BY <1>0, <2>1 DEF MoveMade
    <3>2. \A i : ~ InFlight(w, i) /\ ~ InFlight(w, i)'
      BY <1>0, <2>1 DEF MoveMade, InFlight
    <3>3. Told(w)' = Told(w)
      BY <3>1, <3>2 DEF Told
    <3>4. Kept(w)' = Kept(w) /\ \A i : Change(w, i)' = Change(w, i)
      BY <3>1, <3>3 DEF Kept, Change
    <3>5. QED BY <3>4
  <2>2. CASE w = v
    <3>1. \A i : ~ InFlight(w, i)
      BY <1>0 DEF MoveMade, InFlight
    <3>2. writing' # NoChange /\ writing'.version = v
      <4>1. writing'.to \in Statuses
        BY <1>0 DEF MoveMade
      <4>2. "none" \notin Statuses
        BY DEF Statuses, Lifecycle!AlphaStatus, Lifecycle!ResearchStates,
               Lifecycle!ProductionStates, Lifecycle!HealthStates
      <4>3. QED BY <1>0, <4>1, <4>2 DEF MoveMade, NoChange
    <3>3. \A i : InFlight(w, i)' <=> i = Last(w) + 1
      BY <1>0, <2>2, <3>2 DEF MoveMade, InFlight, Last
    <3>4. Told(w)' = {i \in 1..(Last(w) + 1) : <<w, i>> \notin lost /\ i # Last(w) + 1}
      BY <1>0, <2>2, <3>3 DEF MoveMade, Told
    <3>5. Told(w) = {i \in 1..Last(w) : <<w, i>> \notin lost}
      BY <1>0, <2>2, <3>1 DEF MoveMade, Told
    <3>6. Told(w)' = Told(w) /\ Last(w) \in Nat
      BY <1>0, <2>2, <3>4, <3>5 DEF MoveMade
    <3>7. \A i \in Told(w) : moves'[w][i] = moves[w][i]
      BY <1>0, <2>2, <3>5 DEF MoveMade
    <3>8. Kept(w)' = Kept(w)
      BY <3>6, <3>7 DEF Kept
    <3>9. \A i \in Told(w) : Change(w, i)' = Change(w, i)
      <4> SUFFICES ASSUME NEW i \in Told(w) PROVE Change(w, i)' = Change(w, i)
        OBVIOUS
      <4>1. moves'[w][i] = moves[w][i]
        BY <3>7
      <4>2. i # 1 => moves'[w][i - 1] = moves[w][i - 1]
        <5>1. i \in 1..Last(w) /\ (i # 1 => i - 1 \in 1..Last(w))
          BY <3>5, <3>6
        <5>2. \A k \in 1..Last(w) : moves'[w][k] = moves[w][k]
          BY <1>0, <2>2 DEF MoveMade
        <5>3. QED BY <5>1, <5>2
      <4>3. QED BY <4>1, <4>2 DEF Change
    <3>10. QED BY <3>8, <3>9 DEF Kept
  <2>3. QED BY <2>1, <2>2
<1>2. QED BY <1>0, <1>1 DEF MoveMade, HistoryFits

(* The second statement tells the move that was in flight, and takes the   *)
(* place of one the same status was given at the same instant.             *)
LEMMA AppendTells ==
  ASSUME PathInv, AppendAlphaStatusChange
  PROVE  (MovesFit /\ HistoryFits)'
<1>1. /\ writing # NoChange /\ writing' = NoChange
      /\ history' = {h \in history : ~SameKey(h, writing)} \cup {writing}
      /\ UNCHANGED <<row, clock, moves, lost>>
  BY DEF AppendAlphaStatusChange
<1>2. PICK v \in Versions : /\ Last(v) > 0 /\ writing = Change(v, Last(v))
                            /\ <<v, Last(v)>> \notin lost
  BY <1>1 DEF PathInv, MovesFit
<1>3. writing.version = v
  BY <1>2 DEF Change
<1>4. MovesFit'
  BY <1>1 DEF PathInv, MovesFit, Last
<1>5. ASSUME NEW w \in Versions
      PROVE  {h \in history' : h.version = w} = {Change(w, i)' : i \in Kept(w)'}
  <2>1. {h \in history : h.version = w} = {Change(w, i) : i \in Kept(w)}
    BY DEF PathInv, HistoryFits
  <2>2. \A i : Change(w, i)' = Change(w, i)
    BY <1>1 DEF Change
  <2>3. \A i : ~ InFlight(w, i)'
    BY <1>1 DEF InFlight
  <2>4. CASE w # v
    <3>1. \A i : ~ InFlight(w, i)
      BY <1>3, <2>4 DEF InFlight
    <3>2. Told(w)' = Told(w)
      BY <1>1, <2>3, <3>1 DEF Told
    <3>3. Kept(w)' = Kept(w)
      BY <1>1, <3>2 DEF Kept
    <3>4. {h \in history' : h.version = w} = {h \in history : h.version = w}
      BY <1>1, <1>3, <2>4 DEF SameKey
    <3>5. QED BY <2>1, <2>2, <3>3, <3>4
  <2>5. CASE w = v
    <3> DEFINE n == Last(w)
               Other == {i \in Kept(w) : moves[w][i] # moves[w][n]}
    <3>1. \A i : InFlight(w, i) <=> i = n
      BY <1>1, <1>3, <2>5 DEF InFlight, Last
    <3>2. n \in Nat /\ n \in DOMAIN moves[w] /\ DOMAIN moves[w] = 1..n
      BY <1>2, <2>5, MovesTyped DEF PathInv
    <3>3. Told(w)' = Told(w) \cup {n}
      BY <1>1, <1>2, <2>3, <2>5, <3>1, <3>2 DEF Told
    <3>4. \A i \in Told(w) : i \in 1..n /\ i < n
      BY <3>1, <3>2 DEF Told
    <3>5. Kept(w)' = Other \cup {n}
      <4> HIDE DEF n
      <4>1. \A i \in Told(w) : ~(n < i) /\ i < n /\ i # n
        BY <3>2, <3>4
      <4>2. ~(n < n)
        BY <3>2
      <4>3. Kept(w)' = {i \in Told(w) \cup {n} :
                          \A j \in Told(w) \cup {n} : i < j => moves[w][j] # moves[w][i]}
        BY <1>1, <3>3 DEF Kept
      <4>4. QED BY <4>1, <4>2, <4>3 DEF Kept
    <3>6. \A i \in Kept(w) : SameKey(Change(w, i), writing) <=> moves[w][i] = moves[w][n]
      <4> SUFFICES ASSUME NEW i \in Kept(w)
                   PROVE  SameKey(Change(w, i), writing) <=> moves[w][i] = moves[w][n]
        OBVIOUS
      <4>1. moves[w][i] \in [to : Statuses, at : Nat] /\ moves[w][n] \in [to : Statuses, at : Nat]
        <5> DEFINE M == [to : Statuses, at : Nat]
        <5>1. moves[w] \in Seq(M)
          BY DEF PathInv, RestTyped
        <5>2. i \in DOMAIN moves[w] /\ n \in DOMAIN moves[w]
          BY <3>2, <3>4 DEF Kept
        <5> HIDE DEF M
        <5>3. \A k \in DOMAIN moves[w] : moves[w][k] \in M
          BY <5>1
        <5>4. QED BY <5>2, <5>3 DEF M
      <4>2. moves[w][i] = moves[w][n]
              <=> moves[w][i].at = moves[w][n].at /\ moves[w][i].to = moves[w][n].to
        BY <4>1
      <4>3. QED BY <1>2, <2>5, <4>2 DEF SameKey, Change
    <3>7. {h \in history' : h.version = w} = {Change(w, i) : i \in Other} \cup {writing}
      <4>1. {h \in history' : h.version = w}
              = {h \in {g \in history : g.version = w} : ~SameKey(h, writing)} \cup {writing}
        BY <1>1, <1>3, <2>5
      <4>2. {h \in {Change(w, i) : i \in Kept(w)} : ~SameKey(h, writing)}
              = {Change(w, i) : i \in Other}
        BY <3>6
      <4>3. QED BY <2>1, <4>1, <4>2
    <3>8. writing = Change(w, n)
      BY <1>2, <2>5
    <3> HIDE DEF n, Other
    <3>9. QED BY <2>2, <3>5, <3>7, <3>8
  <2>6. QED BY <2>4, <2>5
<1>6. HistoryFits'
  BY <1>5 DEF HistoryFits
<1>7. QED BY <1>4, <1>6

(* A crash cuts off the move in flight, which nothing tells thereafter.    *)
LEMMA CrashTellsNothing ==
  ASSUME PathInv, Crash
  PROVE  (MovesFit /\ HistoryFits)'
<1>1. /\ writing # NoChange /\ writing' = NoChange
      /\ lost' = lost \cup {<<writing.version, Len(moves[writing.version])>>}
      /\ UNCHANGED <<row, history, clock, moves>>
  BY DEF Crash
<1>2. PICK v \in Versions : Last(v) > 0 /\ writing = Change(v, Last(v))
  BY <1>1 DEF PathInv, MovesFit
<1>3. writing.version = v /\ lost' = lost \cup {<<v, Last(v)>>}
  BY <1>1, <1>2 DEF Change, Last
<1>4. Last(v) \in 1..Last(v)
  BY <1>2, MovesTyped DEF PathInv
<1>5. MovesFit'
  <2>1. \A w \in Versions : \A p \in lost' : p[1] = w => p[2] \in 1..Last(w)
    BY <1>3, <1>4 DEF PathInv, MovesFit
  <2>2. QED BY <1>1, <2>1 DEF PathInv, MovesFit, Last
<1>6. ASSUME NEW w \in Versions
      PROVE  Kept(w)' = Kept(w) /\ \A i : Change(w, i)' = Change(w, i)
  <2>1. \A i : InFlight(w, i) <=> w = v /\ i = Last(w)
    BY <1>1, <1>3 DEF InFlight, Last
  <2>2. \A i : ~ InFlight(w, i)'
    BY <1>1 DEF InFlight
  <2>3. \A i : <<w, i>> \in lost' <=> <<w, i>> \in lost \/ (w = v /\ i = Last(w))
    BY <1>3
  <2>4. Told(w)' = Told(w)
    BY <1>1, <2>1, <2>2, <2>3 DEF Told
  <2>5. QED BY <1>1, <2>4 DEF Kept, Change
<1>7. HistoryFits'
  BY <1>1, <1>6 DEF PathInv, HistoryFits
<1>8. QED BY <1>5, <1>7

LEMMA PathStep == PathInv /\ [Next]_vars => PathInv'
<1> SUFFICES ASSUME PathInv, [Next]_vars PROVE PathInv'
  OBVIOUS
<1>1. RowsTyped' /\ RestTyped'
  BY RowsStep, RestStep DEF PathInv
<1>2. ASSUME UNCHANGED <<clock, skews, moves>> PROVE InOrder'
  BY <1>2 DEF PathInv, InOrder, Last, ListedInOrder
<1>3. CASE AppendAlphaStatusChange
  BY <1>1, <1>2, <1>3, AppendTells DEF PathInv, AppendAlphaStatusChange
<1>4. CASE Crash
  BY <1>1, <1>2, <1>4, CrashTellsNothing DEF PathInv, Crash
<1>5. ASSUME NEW v \in Versions, NEW t \in 0..(clock + 1),
             (\E f \in BOOLEAN : Register(v, f, t)) \/ (\E s \in Statuses : Transition(v, s, t))
      PROVE  PathInv'
  <2>1. PICK s \in Statuses : ChangesStatus(v, s, t)
    BY <1>5, StatusChange DEF PathInv
  <2>2. QED BY <1>1, <2>1, MovesStep, OrderStep, MoveTellsNothing DEF PathInv
<1>6. ASSUME UNCHANGED <<history, writing, clock, skews, moves, lost>>,
             \A w \in Versions : row'[w].status = row[w].status
      PROVE  PathInv'
  <2>1. MovesFit'
    BY <1>6 DEF PathInv, MovesFit, Last, Change
  <2>2. \A w : Kept(w)' = Kept(w) /\ \A i : Change(w, i)' = Change(w, i)
    BY <1>6 DEF Kept, Told, InFlight, Change
  <2>3. HistoryFits'
    BY <1>6, <2>2 DEF PathInv, HistoryFits
  <2>4. QED BY <1>1, <1>2, <1>6, <2>1, <2>3 DEF PathInv
<1>7. CASE UNCHANGED vars
  BY <1>6, <1>7 DEF vars
<1>8. ASSUME NEW v \in Versions, NEW x \in Readings, NEW ts \in SUBSET Trials,
             RecordEvidence(v, x, ts)
      PROVE  PathInv'
  <2>1. \A w \in Versions : row'[w].status = row[w].status
    BY <1>8 DEF RecordEvidence, PathInv, RowsTyped, Rows
  <2>2. QED BY <1>6, <1>8, <2>1 DEF RecordEvidence
<1>9. QED BY <1>3, <1>4, <1>5, <1>7, <1>8 DEF Next, Call

(* The invariant holds throughout, whatever the constants.                 *)
THEOREM Inductive == Spec => []PathInv
<1>1. Init => PathInv
  BY InitRows, InitRest, InitPath DEF PathInv
<1>2. QED BY <1>1, PathStep, PTL DEF Spec

(* Whatever instants the callers pass, the history of a version is the     *)
(* path of its row, change by change, but for the changes that a crash     *)
(* between the two statements cut off and those whose key was used again;  *)
(* and where every now was later than all before, it is listed in order.   *)
THEOREM HistoryComplete == Spec => []HistoryTellsThePath
<1>1. PathInv => HistoryTellsThePath
  BY DEF PathInv, InOrder, HistoryFits, HistoryTellsThePath
<1>2. QED BY <1>1, Inductive, PTL

-----------------------------------------------------------------------------
(* Failure memory.                                                         *)

(* Only a change of the same version to the same status at the same        *)
(* instant replaces a history row, and a rejection is never made twice.    *)
LEMMA AppendReplaces ==
  ASSUME PathInv, AppendAlphaStatusChange
  PROVE  \A h \in history \ history' :
           /\ h.to # "REJECTED"
           /\ \E g \in history' : g.version = h.version /\ g.at = h.at /\ g.to = h.to
<1> SUFFICES ASSUME NEW h \in history, h \notin history'
             PROVE  /\ h.to # "REJECTED"
                    /\ \E g \in history' : g.version = h.version /\ g.at = h.at /\ g.to = h.to
  OBVIOUS
<1>1. writing # NoChange /\ writing \in history' /\ SameKey(h, writing)
  BY DEF AppendAlphaStatusChange
<1>2. PICK v \in Versions : Last(v) > 0 /\ writing = Change(v, Last(v))
  BY <1>1 DEF PathInv, MovesFit
<1>3. writing.version = v /\ writing.to = moves[v][Last(v)].to /\ h.version = v
  BY <1>1, <1>2 DEF Change, SameKey
<1>4. PICK i \in Kept(v) : h = Change(v, i)
  BY <1>3 DEF PathInv, HistoryFits
<1>5. Last(v) \in Nat /\ DOMAIN moves[v] = 1..Last(v)
  BY MovesTyped DEF PathInv
<1>6. i \in 1..Last(v) /\ i # Last(v)
  BY <1>1, <1>3, <1>5 DEF Kept, Told, InFlight, Last
<1>7. moves[v][i].to # "REJECTED" /\ h.to = moves[v][i].to
  BY <1>4, <1>5, <1>6 DEF PathInv, MovesFit, Change
<1>8. QED BY <1>1, <1>7 DEF SameKey

LEMMA StepForgetsNothing ==
  ASSUME PathInv, Next
  PROVE  /\ \A h \in history \ history' :
              /\ h.to \notin Terminal
              /\ \E g \in history' : g.version = h.version /\ g.at = h.at /\ g.to = h.to
         /\ \A v \in Versions :
              /\ row[v].trials \subseteq row'[v].trials
              /\ Status(v) \in Terminal => row'[v] = row[v]
<1> DEFINE Kind == /\ \A h \in history \ history' :
                        /\ h.to # "REJECTED"
                        /\ \E g \in history' :
                             g.version = h.version /\ g.at = h.at /\ g.to = h.to
                   /\ \A v \in Versions :
                        /\ row[v].trials \subseteq row'[v].trials
                        /\ row[v].status = "REJECTED" => row'[v] = row[v]
<1> SUFFICES Kind
  BY DEF Status, Terminal, Lifecycle!TerminalStates
<1>1. CASE AppendAlphaStatusChange
  BY <1>1, AppendReplaces DEF AppendAlphaStatusChange
<1>2. CASE Crash
  BY <1>2 DEF Crash
<1>3. ASSUME NEW v \in Versions, NEW f \in BOOLEAN, NEW t, Register(v, f, t)
      PROVE  Kind
  <2>1. row[v] = NoRow
    BY <1>3, RegisterEffect DEF PathInv, RowsTyped
  <2> DEFINE new == [NoRow EXCEPT !.status = "IDEA", !.frozen = f]
  <2>2. row[v].trials \subseteq new.trials /\ row[v].status # "REJECTED"
    BY <2>1 DEF NoRow
  <2>3. row' = [row EXCEPT ![v] = new] /\ history' = history
    BY <1>3, RegisterEffect DEF Register, PathInv
  <2> HIDE DEF new
  <2>4. QED BY <2>2, <2>3, UpdateKeepsMemory DEF PathInv
<1>4. ASSUME NEW v \in Versions, NEW s \in Statuses, NEW t, Transition(v, s, t)
      PROVE  Kind
  <2> DEFINE new == [row[v] EXCEPT !.status = s]
  <2>1. row[v].trials \subseteq new.trials /\ row[v].status # "REJECTED"
    BY <1>4, TransitionEffect DEF PathInv, RowsTyped, Rows
  <2>2. row' = [row EXCEPT ![v] = new] /\ history' = history
    BY <1>4, TransitionEffect DEF Transition, PathInv
  <2> HIDE DEF new
  <2>3. QED BY <2>1, <2>2, UpdateKeepsMemory DEF PathInv
<1>5. ASSUME NEW v \in Versions, NEW x \in Readings, NEW ts \in SUBSET Trials,
             RecordEvidence(v, x, ts)
      PROVE  Kind
  BY <1>5 DEF RecordEvidence, EvidenceWanted, Status, Terminal,
              Lifecycle!TerminalStates, PathInv, RowsTyped, Rows
<1>6. QED BY <1>1, <1>2, <1>3, <1>4, <1>5 DEF Next, Call

(* Neither a call nor a crash takes back a trial or a rejection or touches *)
(* a rejected version, and a history row yields only to one of its key.    *)
THEOREM ForgetsNothing == Spec => FailureMemory
<1>1. QED BY Inductive, StepForgetsNothing, PTL DEF Spec, FailureMemory

=============================================================================
