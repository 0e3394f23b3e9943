----------------------------- MODULE DataFactory -----------------------------
(***************************************************************************)
(* The external data factory (external/ingest.py, readiness.py,            *)
(* triggers.py) and its hand-off to the research queue (cli_external.py,   *)
(* meta/research_queue.py).                                                *)
(*                                                                         *)
(* One ingest run evaluates every series; a series that reaches a          *)
(* milestone for the first time under the current policy earns a trigger,  *)
(* a stored row.  After the last series, the run's new triggers are handed *)
(* to the queue: a question is proposed, then the trigger is marked.  Each *)
(* statement commits on its own, and the run may end after any of them: by *)
(* the job's time limit or a signal, or by an error outside the one `try`, *)
(* which the workflow tolerates and saves the database after.              *)
(*                                                                         *)
(* Between runs people work on the queue, and the outcomes of past         *)
(* research are applied to it, one move at a time.                         *)
(***************************************************************************)
EXTENDS ResearchQueue, Integers, Sequences

CONSTANTS
  Series,       \* the configured series
  QuestionOf,   \* the question a series raises (_readiness_hypothesis_id)
  Catalog,      \* the questions of the catalogue
  Outcomes,     \* W12_MEASURED_OUTCOMES: question -> [status, trial, by]
  TopMilestone, \* bound: the milestones of TRIGGER_FOR_STATE, 4 in the code
  MaxPolicy,    \* bound: policy versions
  MaxMoves,     \* bound: human decisions about questions
  MaxCrashes    \* bound: interrupted commands

ASSUME FactoryAssumption ==
  /\ Catalog \subseteq Questions
  /\ QuestionOf \in [Series -> Questions \ Catalog]
  /\ DOMAIN Outcomes \subseteq Catalog
  /\ \A q \in DOMAIN Outcomes :
       Outcomes[q] \in [status : ResearchStatus \ {"PROPOSED"}, trial : BOOLEAN,
                        by : People]
  /\ TopMilestone \in 1..4
  /\ {MaxPolicy, MaxMoves, MaxCrashes} \subseteq Nat
  /\ MaxPolicy > 0

VARIABLES
  policy,      \* the policy version in the configuration
  triggers,    \* rows of research_triggers
  handedOff,   \* those with handed_off_at and hypothesis_id
  phase,       \* where the running command is
  waiting,     \* series the ingest run has yet to evaluate
  earned,      \* triggers of the current series, still to be stored
  fresh,       \* new_triggers of the run that have yet to be proposed
  inserted,    \* proposed in this run, still to be marked
  subject, path,   \* the question an outcome is applied to, the moves left
  moves, crashes

factoryVars == <<triggers, handedOff>>
runVars     == <<waiting, earned, fresh, inserted>>
applyVars   == <<subject, path>>
vars == <<queueVars, factoryVars, policy, phase, runVars, applyVars, moves,
          crashes>>

-----------------------------------------------------------------------------
(* Readiness: the state of a series from its evidence.                     *)

(* What a run measures of a series.  A failed fetch is an unresolved       *)
(* warning.  The sample is the effective one, of the forward archive only  *)
(* where the publisher revises silently: 0 below the exploratory           *)
(* observations or span, 1, 2 and 3 for each further requirement met.      *)
Evidence ==
  [enabled : BOOLEAN, clean : BOOLEAN, pointInTime : BOOLEAN, stale : BOOLEAN,
   complete : BOOLEAN, sample : 0..3, strict : BOOLEAN, forward : BOOLEAN]

Readiness(e) ==
  CASE ~e.enabled     -> "DISABLED"
    [] ~e.clean       -> "BLOCKED"
    [] ~e.pointInTime -> "SCHEMA_VALIDATED"
    [] e.stale        -> "DEGRADED"
    [] ~e.complete \/ e.sample = 0   -> "PIT_VALIDATED"
    [] e.sample = 1                  -> "EXPLORATORY_READY"
    [] e.sample = 2 \/ ~e.strict     -> "VALIDATION_READY"
    [] ~e.forward                    -> "CONFIRMATION_READY"
    [] OTHER                         -> "FORWARD_MATURE"

Level ==
  [DISABLED |-> -1, BLOCKED |-> -1, DEGRADED |-> 0, SCHEMA_VALIDATED |-> 0,
   PIT_VALIDATED |-> 0, EXPLORATORY_READY |-> 1, VALIDATION_READY |-> 2,
   CONFIRMATION_READY |-> 3, FORWARD_MATURE |-> 4]

Verdicts == {Readiness(e) : e \in Evidence}

(* A trigger, by its dedup_key: series, milestone, policy version.         *)
Milestones  == 1..TopMilestone
Exploratory == 1
Triggers    == [series : Series, milestone : Milestones,
                policy : 1..MaxPolicy]

Asks(k) == QuestionOf[k.series]

-----------------------------------------------------------------------------
Phases == {"idle", "ingest", "apply"}

TypeOK ==
  /\ QueueTypeOK
  /\ policy \in 1..MaxPolicy
  /\ triggers \subseteq Triggers
  /\ handedOff \subseteq triggers
  /\ phase \in Phases
  /\ waiting \subseteq Series
  /\ earned \subseteq Triggers
  /\ fresh \subseteq triggers
  /\ inserted \subseteq triggers
  /\ subject \in Catalog \cup {Nobody}
  /\ path \in Seq(ResearchStatus)
  /\ moves \in 0..MaxMoves
  /\ crashes \in 0..MaxCrashes

Init ==
  /\ QueueInit
  /\ policy = 1
  /\ triggers = {} /\ handedOff = {}
  /\ phase = "idle"
  /\ waiting = {} /\ earned = {} /\ fresh = {} /\ inserted = {}
  /\ subject = Nobody /\ path = <<>>
  /\ moves = 0 /\ crashes = 0

-----------------------------------------------------------------------------
(* The ingest run.                                                         *)

StartIngest ==
  /\ phase = "idle"
  /\ phase' = "ingest"
  /\ waiting' = Series
  /\ UNCHANGED <<queueVars, factoryVars, policy, earned, fresh, inserted,
                 applyVars, moves, crashes>>

(* triggers_for_transition: every milestone at or below the series' level  *)
(* that has no row.  One process writes the table, so the keys the run     *)
(* read when it began and added to since are the table's.                  *)
Earns(s, state) ==
  {k \in Triggers \ triggers :
     k.series = s /\ k.policy = policy /\ k.milestone =< Level[state]}

(* Fetch, archive, parse, store and evaluate one series.                   *)
IngestOne(s, state) ==
  /\ phase = "ingest" /\ earned = {}
  /\ s \in waiting
  /\ waiting' = waiting \ {s}
  /\ earned' = Earns(s, state)
  /\ UNCHANGED <<queueVars, factoryVars, policy, phase, fresh, inserted,
                 applyVars, moves, crashes>>

(* Mutant: the milestones of a series are stored in any order.             *)
AnyOf(k) == TRUE

(* The milestones of a series are stored oldest first.                     *)
IsNext(k) == \A other \in earned : k.milestone =< other.milestone

(* Mutant: a trigger is kept in memory until it is handed off.             *)
KeepTrigger(k) ==
  /\ phase = "ingest"
  /\ k \in earned /\ IsNext(k)
  /\ earned' = earned \ {k}
  /\ fresh' = fresh \cup {k}
  /\ UNCHANGED <<queueVars, factoryVars, policy, phase, waiting, inserted,
                 applyVars, moves, crashes>>

(* upsert_research_trigger: the row is new, not handed off.                *)
StoreTrigger(k) ==
  /\ phase = "ingest"
  /\ k \in earned /\ IsNext(k)
  /\ earned' = earned \ {k}
  /\ triggers' = triggers \cup {k}
  /\ handedOff' = handedOff \ {k}
  /\ fresh' = fresh \cup {k}
  /\ UNCHANGED <<queueVars, policy, phase, waiting, inserted, applyVars,
                 moves, crashes>>

(* The last series has been evaluated: the new triggers are handed off.    *)
AllEvaluated == phase = "ingest" /\ waiting = {} /\ earned = {}

(* Mutant: a data set that becomes ready asks its question anew.           *)
SeedAnyway(k) ==
  /\ AllEvaluated
  /\ k \in fresh
  /\ fresh' = fresh \ {k}
  /\ IF k.milestone = Exploratory
       THEN /\ status' = [status EXCEPT ![Asks(k)] = "PROPOSED"]
            /\ inserted' = inserted \cup {k}
            /\ UNCHANGED <<approver, trial>>
       ELSE UNCHANGED <<queueVars, inserted>>
  /\ UNCHANGED <<factoryVars, policy, phase, waiting, earned, applyVars, moves,
                 crashes>>

(* Only the first milestone asks a question, and only if nobody asked it.  *)
SeedFromDataReadiness(k) ==
  /\ AllEvaluated
  /\ k \in fresh
  /\ fresh' = fresh \ {k}
  /\ IF k.milestone = Exploratory /\ status[Asks(k)] = "none"
       THEN Propose(Asks(k)) /\ inserted' = inserted \cup {k}
       ELSE UNCHANGED <<queueVars, inserted>>
  /\ UNCHANGED <<factoryVars, policy, phase, waiting, earned, applyVars, moves,
                 crashes>>

(* Marked only after every question exists.                                *)
MarkHandedOff(k) ==
  /\ AllEvaluated /\ fresh = {}
  /\ k \in inserted
  /\ inserted' = inserted \ {k}
  /\ handedOff' = handedOff \cup {k}
  /\ UNCHANGED <<queueVars, triggers, policy, phase, waiting, earned, fresh,
                 applyVars, moves, crashes>>

EndRun ==
  /\ AllEvaluated /\ fresh = {} /\ inserted = {}
  /\ phase' = "idle"
  /\ UNCHANGED <<queueVars, factoryVars, policy, runVars, applyVars, moves,
                 crashes>>

ChangePolicy ==
  /\ phase = "idle"
  /\ policy < MaxPolicy
  /\ policy' = policy + 1
  /\ UNCHANGED <<queueVars, factoryVars, phase, runVars, applyVars, moves,
                 crashes>>

-----------------------------------------------------------------------------
(* The queue's own commands.                                               *)

(* Every queue command begins by proposing what the catalogue has new.     *)
SeedFromCatalog(q) ==
  /\ phase = "idle"
  /\ q \in Catalog
  /\ Propose(q)
  /\ UNCHANGED <<factoryVars, policy, phase, runVars, applyVars, moves, crashes>>

HumanMove(q) ==
  /\ phase = "idle"
  /\ moves < MaxMoves
  /\ moves' = moves + 1
  /\ \/ \E who \in People, withTrial \in BOOLEAN : Approve(q, who, withTrial)
     \/ \E to \in ResearchStatus : MoveOn(q, to)
  /\ UNCHANGED <<factoryVars, policy, phase, runVars, applyVars, crashes>>

(* The shortest ways through the table from one status to another.         *)
Ways(from, to) ==
  LET Walks(n) == {w \in [1..n -> ResearchStatus] :
                     /\ n > 0 => w[1] \in AllowedTransitions[from] /\ w[n] = to
                     /\ \A i \in 2..n : w[i] \in AllowedTransitions[w[i - 1]]}
      Lengths  == {n \in 1..4 : Walks(n) # {}}
  IN UNION {Walks(n) : n \in {m \in Lengths : \A l \in Lengths : m =< l}}

WaysTable == [from \in ResearchStatus |-> [to \in ResearchStatus |-> Ways(from, to)]]

(* A measured outcome takes a proposed question through a run.             *)
MeasuredOutcomePaths(from, outcome) ==
  IF outcome.trial /\ from = "PROPOSED"
    THEN {<<"APPROVED", "RUNNING", "MEASURED">> \o
            (IF outcome.status = "MEASURED" THEN <<>> ELSE <<outcome.status>>)}
    ELSE WaysTable[from][outcome.status]

(* apply_measured_outcomes takes up one question ...                       *)
ApplyOutcome(q) ==
  /\ phase = "idle"
  /\ q \in DOMAIN Outcomes
  /\ status[q] \notin {"none", Outcomes[q].status}
  /\ path' \in MeasuredOutcomePaths(status[q], Outcomes[q])
  /\ phase' = "apply" /\ subject' = q
  /\ UNCHANGED <<queueVars, factoryVars, policy, runVars, moves, crashes>>

(* ... and makes the moves one by one, as a human would ...                *)
ApplyMove ==
  /\ phase = "apply" /\ path # <<>>
  /\ IF status[subject] = "PROPOSED"
       THEN Approve(subject, Outcomes[subject].by, Outcomes[subject].trial)
       ELSE MoveOn(subject, Head(path))
  /\ path' = Tail(path)
  /\ UNCHANGED <<factoryVars, policy, phase, runVars, subject, moves, crashes>>

(* ... until it has arrived, or a move is refused for want of a trial.     *)
EndApply ==
  /\ phase = "apply"
  /\ \/ path = <<>>
     \/ path # <<>> /\ Head(path) = "RUNNING" /\ ~trial[subject]
  /\ phase' = "idle" /\ subject' = Nobody /\ path' = <<>>
  /\ UNCHANGED <<queueVars, factoryVars, policy, runVars, moves, crashes>>

(* The command ends where it is; what it committed stays.                  *)
Crash ==
  /\ phase # "idle"
  /\ crashes < MaxCrashes
  /\ crashes' = crashes + 1
  /\ phase' = "idle"
  /\ waiting' = {} /\ earned' = {} /\ fresh' = {} /\ inserted' = {}
  /\ subject' = Nobody /\ path' = <<>>
  /\ UNCHANGED <<queueVars, factoryVars, policy, moves>>

IngestStep ==
  \/ \E s \in Series, state \in Verdicts : IngestOne(s, state)
  \/ \E k \in Triggers :
       StoreTrigger(k) \/ SeedFromDataReadiness(k) \/ MarkHandedOff(k)
  \/ EndRun

Next ==
  \/ StartIngest
  \/ IngestStep
  \/ ChangePolicy
  \/ \E q \in Questions : SeedFromCatalog(q) \/ HumanMove(q) \/ ApplyOutcome(q)
  \/ ApplyMove
  \/ EndApply
  \/ Crash

Spec == Init /\ [][Next]_vars

(* Ingest is scheduled daily, and a command that runs goes on.             *)
FairSpec ==
  /\ Spec
  /\ WF_vars(StartIngest) /\ WF_vars(IngestStep)
  /\ WF_vars(ApplyMove) /\ WF_vars(EndApply)

-----------------------------------------------------------------------------
(* Properties.                                                             *)

(* A series that reaches a late milestone at once has the earlier ones on  *)
(* record as well, wherever a run was interrupted (triggers.py: "nothing   *)
(* is lost just because the data arrived all at once").                    *)
MilestonesInOrder ==
  \A k \in triggers, m \in Milestones :
    m < k.milestone => [k EXCEPT !.milestone = m] \in triggers

(* A question about data is backed by a stored trigger, and a trigger      *)
(* marked as handed off by its question.                                   *)
QuestionsAreBacked ==
  /\ \A q \in Questions \ Catalog :
       status[q] # "none" => \E k \in triggers : Asks(k) = q
  /\ \A k \in handedOff : status[Asks(k)] # "none"

(* A series that became ready has its question, unless the run that        *)
(* noticed is still at work or was interrupted.                            *)
UnproposedIsACrash ==
  \A k \in triggers :
    k.milestone = Exploratory /\ status[Asks(k)] = "none" =>
      k \in fresh \/ crashes > 0

(* The hand-off as a whole.                                                *)
HandoffIsSound == MilestonesInOrder /\ QuestionsAreBacked /\ UnproposedIsACrash

(* Demotions, recoveries, new policies and repeated runs take back no      *)
(* trigger and no hand-off (triggers.py: "exactly one event").             *)
HandoffIsFinal ==
  [][triggers \subseteq triggers' /\ handedOff \subseteq handedOff']_vars

(* The factory and the people together do to the queue only what it        *)
(* promises: in particular no run, no repetition and no crash moves a      *)
(* question somebody has worked on.                                        *)
ImplementsQueue == QueueSpec

(* cli_external.py: "an interrupted run re-proposes rather than silently   *)
(* losing the dataset".                                                    *)
InterruptedRunReproposes ==
  \A k \in Triggers :
    (k \in triggers /\ k.milestone = Exploratory) ~> (status[Asks(k)] # "none")

=============================================================================
