----------------------------- MODULE ResearchStep -----------------------------
(***************************************************************************)
(* The autonomous research loop (research/step.py, research/controller.py):*)
(* a weekly run decides what to do next, executes at most one exploratory  *)
(* screen, and writes down what it did.  A screen is claimed before its    *)
(* harness runs and is settled afterwards; a failed one is tried again     *)
(* after two weeks; the quarter has a cap; support for a question stops    *)
(* the loop until a human has decided.  The process may die between any    *)
(* two statements, each of which commits on its own.                       *)
(*                                                                         *)
(* Rows of the current quarter only are state: no earlier one is read.     *)
(* Priorities are fixed, a question's number is its rank; estimates fed    *)
(* back into the queue by a screen are left out.                           *)
(***************************************************************************)
EXTENDS Integers, FiniteSets, FiniteSetsExt

CONSTANTS
  Questions,      \* the queue's questions, numbered by rank
  Harnessed,      \* those an approved harness answers from the beginning
  Families,
  FamilyOf,       \* a question's information family
  Permitted,      \* PERMITTED_EXPLORATORY_FAMILIES
  Cap,            \* EXPLORATORY_SCREENS_PER_QUARTER
  MaxAttempts,    \* MAX_SCREEN_ATTEMPTS
  RetryAfter,     \* FAILED_SCREEN_RETRY_AFTER_DAYS, in weeks
  MaxDecisions,   \* MAX_DECISIONS_PER_RUN
  QuarterLength,  \* bound: weeks in a quarter
  LastWeek,       \* bound: weeks modelled
  MaxVersion,     \* bound: harness versions
  MaxCrashes      \* bound: crashes of the run

ASSUME StepAssumption ==
  /\ Questions \subseteq Nat \ {0}
  /\ Harnessed \subseteq Questions
  /\ FamilyOf \in [Questions -> Families]
  /\ Permitted \subseteq Families
  /\ {Cap, MaxAttempts, MaxDecisions, QuarterLength, MaxVersion} \subseteq Nat \ {0}
  /\ {RetryAfter, LastWeek, MaxCrashes} \subseteq Nat

VARIABLES
  week,
  version,    \* version of each question's registered harness, 0 for none
  ready,      \* questions whose data are ready and whose sample suffices
  failing,    \* families with enough recorded failures to be shelved
  shelved,    \* shelved families
  row,        \* research_screens: the quarter's screen per question and version
  mirrored,   \* screens that have their row in research_trials
  decisions,  \* decision rows in research_trials that name an experiment
  announced,  \* screens whose alert was delivered
  phase,      \* where the run is
  action,     \* the run's last decision
  made,       \* decisions made in this run
  crashes,
  invoked     \* history: harness invocations of the quarter

results == <<row, mirrored, decisions, announced, shelved, invoked>>
world   == <<week, version, ready, failing>>
run     == <<phase, action, made>>
vars    == <<world, results, run, crashes>>

Versions == 0..MaxVersion
Screens  == Questions \X Versions
Executed == {"running", "failed", "completed", "supported"}
Statuses == Executed \cup {"none", "no_harness"}
Kinds    == {"START_EXPLORATORY", "AWAIT_DATA", "AWAIT_CONFIRMATION_APPROVAL",
             "SHELVE_FAMILY", "NO_ACTION"}
Phases   == {"idle", "decide", "execute", "unharnessed", "claimed", "running",
             "notify", "record"}

NoQuestion == 0
NoAction   == [kind |-> "NO_ACTION", question |-> NoQuestion]
NoRow      == [status |-> "none", attempts |-> 0, finished |-> 0]
Actions    == [kind : Kinds, question : Questions \cup {NoQuestion}]

TypeOK ==
  /\ week \in 0..LastWeek
  /\ version \in [Questions -> Versions]
  /\ ready \subseteq Questions
  /\ failing \subseteq Families /\ shelved \subseteq Families
  /\ row \in [Screens -> [status : Statuses, attempts : 0..MaxAttempts,
                          finished : 0..LastWeek]]
  /\ mirrored \subseteq Screens /\ announced \subseteq Screens
  /\ decisions \subseteq Actions
  /\ phase \in Phases
  /\ action \in Actions
  /\ made \in 0..MaxDecisions
  /\ crashes \in 0..MaxCrashes
  /\ invoked \in Nat

Init ==
  /\ week = 0
  /\ version = [q \in Questions |-> IF q \in Harnessed THEN 1 ELSE 0]
  /\ ready = {} /\ failing = {} /\ shelved = {}
  /\ row = [s \in Screens |-> NoRow]
  /\ mirrored = {} /\ decisions = {} /\ announced = {}
  /\ phase = "idle" /\ action = NoAction /\ made = 0
  /\ crashes = 0 /\ invoked = 0

-----------------------------------------------------------------------------
(* The world between runs: time, data, recorded failures, new harnesses.   *)

NewQuarter == week' # week /\ week' % QuarterLength = 0

Tick ==
  /\ phase = "idle"
  /\ week < LastWeek
  /\ week' = week + 1
  /\ IF NewQuarter
       THEN /\ row' = [s \in Screens |-> NoRow]
            /\ mirrored' = {} /\ decisions' = {} /\ announced' = {}
            /\ invoked' = 0
       ELSE UNCHANGED <<row, mirrored, decisions, announced, invoked>>
  /\ UNCHANGED <<version, ready, failing, shelved, run, crashes>>

DataChange(q) ==
  /\ phase = "idle"
  /\ ready' = IF q \in ready THEN ready \ {q} ELSE ready \cup {q}
  /\ UNCHANGED <<week, version, failing, results, run, crashes>>

FamilyFails(f) ==
  /\ phase = "idle"
  /\ f \notin failing
  /\ failing' = failing \cup {f}
  /\ UNCHANGED <<week, version, ready, results, run, crashes>>

(* A human registers a harness, or a new version of one.                   *)
NewHarness(q) ==
  /\ phase = "idle"
  /\ version[q] < MaxVersion
  /\ version' = [version EXCEPT ![q] = @ + 1]
  /\ UNCHANGED <<week, ready, failing, results, run, crashes>>

-----------------------------------------------------------------------------
(* decide_next_action, from the rows as they are.                          *)

Current(q) == <<q, version[q]>>

(* Mutant: a failed screen may be attempted without limit.                 *)
RetryableForever(s) ==
  row[s].status = "failed" /\ week - row[s].finished >= RetryAfter

(* Mutant: any settled screen may be attempted again.                      *)
RetryableWhenSettled(s) ==
  /\ row[s].status \in {"failed", "completed"}
  /\ row[s].attempts < MaxAttempts
  /\ week - row[s].finished >= RetryAfter

Retryable(s) ==
  /\ row[s].status = "failed"
  /\ row[s].attempts < MaxAttempts
  /\ week - row[s].finished >= RetryAfter

Admissible == {q \in Questions : FamilyOf[q] \in Permitted \ shelved}

(* Mutant: support expires when the harness changes.                       *)
SupportedByCurrent ==
  {q \in Admissible : row[Current(q)].status = "supported"}

Supported ==
  {q \in Admissible : \E v \in Versions : row[<<q, v>>].status = "supported"}

(* Mutant: a screen whose process died is not counted as screened.         *)
ScreenedIfSettled ==
  {q \in Questions : /\ row[Current(q)].status \in Executed \ {"running"}
                     /\ ~Retryable(Current(q))}

Screened ==
  {q \in Questions : row[Current(q)].status \in Executed /\ ~Retryable(Current(q))}

Pending ==
  {q \in Admissible \ Screened : row[<<q, 0>>].status # "no_harness"}

(* Mutant: only screens that gave an answer are counted.                   *)
SpentOnAnswers ==
  Cardinality({s \in Screens : row[s].status \in {"completed", "supported"}}) >= Cap

QuarterIsSpent == Cardinality({s \in Screens : row[s].status \in Executed}) >= Cap

(* Mutant: a question that waits for data holds up those behind it.        *)
TopRankedOnly ==
  IF Supported # {}
    THEN [kind |-> "AWAIT_CONFIRMATION_APPROVAL", question |-> Min(Supported)]
  ELSE IF QuarterIsSpent \/ Pending = {}
    THEN NoAction
  ELSE [kind |-> IF Min(Pending) \in ready THEN "START_EXPLORATORY" ELSE "AWAIT_DATA",
        question |-> Min(Pending)]

(* The decision when no family is to be shelved.                           *)
Decision ==
  IF Supported # {}
    THEN [kind |-> "AWAIT_CONFIRMATION_APPROVAL", question |-> Min(Supported)]
  ELSE IF QuarterIsSpent \/ Pending = {}
    THEN NoAction
  ELSE IF Pending \cap ready # {}
    THEN [kind |-> "START_EXPLORATORY", question |-> Min(Pending \cap ready)]
  ELSE [kind |-> "AWAIT_DATA", question |-> Min(Pending)]

-----------------------------------------------------------------------------
(* run_research_step.                                                      *)

StartRun ==
  /\ phase = "idle"
  /\ phase' = "decide"
  /\ made' = 0
  /\ UNCHANGED <<world, results, action, crashes>>

(* A failing family is shelved and the loop decides again ...              *)
Shelve(f) ==
  /\ phase = "decide" /\ made < MaxDecisions
  /\ f \in failing \ shelved
  /\ shelved' = shelved \cup {f}
  /\ action' = [kind |-> "SHELVE_FAMILY", question |-> NoQuestion]
  /\ made' = made + 1
  /\ UNCHANGED <<world, row, mirrored, decisions, announced, invoked, phase, crashes>>

(* ... otherwise it starts a screen, or is done.                           *)
Decide ==
  /\ phase = "decide" /\ made < MaxDecisions
  /\ failing \subseteq shelved
  /\ action' = Decision
  /\ made' = made + 1
  /\ phase' = IF Decision.kind = "START_EXPLORATORY" THEN "execute" ELSE "record"
  /\ UNCHANGED <<world, results, crashes>>

OutOfDecisions ==
  /\ phase = "decide" /\ made = MaxDecisions
  /\ phase' = "record"
  /\ UNCHANGED <<world, results, action, made, crashes>>

Put(s, status, attempts, finished) ==
  row' = [row EXCEPT ![s] = [status |-> status, attempts |-> attempts,
                             finished |-> finished]]

(* A question without a harness gets a row that says so ...                *)
NoApprovedHarness(q) ==
  /\ phase = "execute" /\ action.question = q
  /\ version[q] = 0
  /\ row[Current(q)] = NoRow
  /\ Put(Current(q), "no_harness", 0, 0)
  /\ phase' = "unharnessed"
  /\ UNCHANGED <<world, mirrored, decisions, announced, shelved, invoked,
                 action, made, crashes>>

(* ... and a trial row, and the loop decides again.                        *)
MirrorUnharnessed(q) ==
  /\ phase = "unharnessed" /\ action.question = q
  /\ mirrored' = mirrored \cup {Current(q)}
  /\ phase' = "decide"
  /\ UNCHANGED <<world, row, decisions, announced, shelved, invoked,
                 action, made, crashes>>

(* What _execute_screen will run: a screen that has no row, or may be      *)
(* tried again.                                                            *)
Open(s) == row[s] = NoRow \/ Retryable(s)

(* The screen is claimed before the harness is invoked ...                 *)
Claim(q) ==
  /\ phase = "execute" /\ action.question = q
  /\ version[q] # 0
  /\ Open(Current(q))
  /\ Put(Current(q), "running", row[Current(q)].attempts + 1, 0)
  /\ phase' = "claimed"
  /\ UNCHANGED <<world, mirrored, decisions, announced, shelved, invoked,
                 action, made, crashes>>

(* Mutant: the trial row is left to the end of the run, and forgotten.     *)
InvokeUnmirrored(q) ==
  /\ phase = "claimed" /\ action.question = q
  /\ invoked' = invoked + 1
  /\ phase' = "running"
  /\ UNCHANGED <<world, row, mirrored, decisions, announced, shelved,
                 action, made, crashes>>

(* ... its trial row is written, where a retry has one already, and the    *)
(* harness runs.                                                           *)
MirrorAndInvoke(q) ==
  /\ phase = "claimed" /\ action.question = q
  /\ mirrored' = mirrored \cup {Current(q)}
  /\ invoked' = invoked + 1
  /\ phase' = "running"
  /\ UNCHANGED <<world, row, decisions, announced, shelved,
                 action, made, crashes>>

HarnessFails(q) ==
  /\ phase = "running" /\ action.question = q
  /\ Put(Current(q), "failed", row[Current(q)].attempts, week)
  /\ phase' = "record"
  /\ UNCHANGED <<world, mirrored, decisions, announced, shelved, invoked,
                 action, made, crashes>>

(* The harness returns a verdict; only support is worth a mail.            *)
HarnessReturns(q, supported) ==
  /\ phase = "running" /\ action.question = q
  /\ Put(Current(q), IF supported THEN "supported" ELSE "completed",
         row[Current(q)].attempts, week)
  /\ phase' = IF supported THEN "notify" ELSE "record"
  /\ UNCHANGED <<world, mirrored, decisions, announced, shelved, invoked,
                 action, made, crashes>>

(* The alert is delivered at one of three attempts, or it is not.          *)
Notify(q, delivered) ==
  /\ phase = "notify" /\ action.question = q
  /\ announced' = IF delivered THEN announced \cup {Current(q)} ELSE announced
  /\ phase' = "record"
  /\ UNCHANGED <<world, row, mirrored, decisions, shelved, invoked,
                 action, made, crashes>>

(* The last decision gets a row, once in a quarter.                        *)
RecordDecision ==
  /\ phase = "record"
  /\ decisions' = decisions \cup
       ({action} \cap [kind : {"START_EXPLORATORY", "AWAIT_CONFIRMATION_APPROVAL"},
                       question : Questions])
  /\ phase' = "idle" /\ action' = NoAction /\ made' = 0
  /\ UNCHANGED <<world, row, mirrored, announced, shelved, invoked, crashes>>

Crash ==
  /\ phase # "idle"
  /\ crashes < MaxCrashes
  /\ crashes' = crashes + 1
  /\ phase' = "idle" /\ action' = NoAction /\ made' = 0
  /\ UNCHANGED <<world, results>>

RunStep ==
  \/ \E f \in Families : Shelve(f)
  \/ Decide
  \/ OutOfDecisions
  \/ \E q \in Questions :
       \/ NoApprovedHarness(q) \/ MirrorUnharnessed(q)
       \/ Claim(q) \/ MirrorAndInvoke(q)
       \/ HarnessFails(q)
       \/ \E yes \in BOOLEAN : HarnessReturns(q, yes) \/ Notify(q, yes)
  \/ RecordDecision

Next ==
  \/ Tick
  \/ \E q \in Questions : DataChange(q) \/ NewHarness(q)
  \/ \E f \in Families : FamilyFails(f)
  \/ StartRun
  \/ RunStep
  \/ Crash

Spec == Init /\ [][Next]_vars

(* The schedule starts runs, and a run that is started goes on.            *)
FairSpec == Spec /\ WF_vars(Tick) /\ WF_vars(StartRun) /\ WF_vars(RunStep)

-----------------------------------------------------------------------------
(* Properties.                                                             *)

(* What the controller takes for an open question and what _execute_screen *)
(* is willing to run agree, through retries, new versions and claims left  *)
(* by a dead process: no decision to screen comes to nothing.              *)
DecidedIsOpen ==
  phase = "execute" => /\ action.question \in Questions
                       /\ Open(Current(action.question))

(* A quarter's harness invocations are bounded, retries and all: every     *)
(* screen but the one that reached the cap may have used its attempts.     *)
InvocationsAreBounded == invoked =< (Cap - 1) * MaxAttempts + 1

(* A screen that gave an answer keeps it for the quarter, whatever runs,   *)
(* retries and harness versions come: no question is asked of the same     *)
(* method until the answer pleases.                                        *)
AnswersAreFinal ==
  [][\A s \in Screens :
       row[s].status \in {"completed", "supported"} /\ ~NewQuarter
       => row'[s] = row[s]]_vars

(* Support stops the loop: while an admissible question has a supporting   *)
(* screen of the quarter, under any version, no harness is invoked.        *)
SupportStopsTheLoop ==
  [][invoked' > invoked =>
       \A q \in Admissible, v \in Versions : row[<<q, v>>].status # "supported"]_vars

(* A screen without its trial row, which the multiple-testing count would  *)
(* miss, is one the run is just about to mirror or is owed to a crash.     *)
UnmirroredIsACrash ==
  phase \notin {"claimed", "unharnessed"} =>
    Cardinality({s \in Screens : row[s] # NoRow /\ s \notin mirrored}) =< crashes

(* A recorded decision names something that happened in the quarter: the   *)
(* screen that was run, or the support that now awaits its approval.       *)
DecisionsAreBacked ==
  \A d \in decisions :
    /\ d.kind = "START_EXPLORATORY" =>
         \E v \in Versions : <<d.question, v>> \in mirrored
    /\ d.kind = "AWAIT_CONFIRMATION_APPROVAL" =>
         \E v \in Versions : row[<<d.question, v>>].status = "supported"

(* A question with a harness whose data stay ready is screened, whatever   *)
(* waits for data or a harness in front of it, unless the loop has stopped *)
(* for the quarter: for support, for its cap, or for a shelved family.     *)
ReadyIsScreened ==
  \A q \in Harnessed :
    <>[](q \in ready) => <>(\/ \E v \in Versions : row[<<q, v>>].status \in Executed
                            \/ Supported # {} \/ QuarterIsSpent
                            \/ q \notin Admissible)

=============================================================================
