---------------------------- MODULE ResearchQueue ----------------------------
(***************************************************************************)
(* What the research queue promises (meta/research_queue.py): the system   *)
(* may propose a question and nothing more; a named human approves it,     *)
(* with or without a trial; every later move follows the table, and        *)
(* nothing runs without a trial.                                           *)
(*                                                                         *)
(* A question keeps its row for ever.  Scores are left out: rescore pins   *)
(* the lifecycle fields it read before it writes a row back, and no        *)
(* lifecycle rule reads a score.  A call that is refused changes nothing   *)
(* and is not an action.                                                   *)
(***************************************************************************)

CONSTANTS
  Questions,   \* hypothesis ids
  People,      \* who may approve
  Nobody

ASSUME QueueAssumption == Nobody \notin People

VARIABLES
  status,      \* of each question; "none" before it is proposed
  approver,    \* approved_by
  trial        \* a trial_id is recorded

queueVars == <<status, approver, trial>>

ResearchStatus == {"PROPOSED", "APPROVED", "RUNNING", "MEASURED", "PROMOTED",
                   "DORMANT", "REJECTED"}

AllowedTransitions ==
  [PROPOSED |-> {"APPROVED"},
   APPROVED |-> {"RUNNING", "DORMANT", "REJECTED"},
   RUNNING  |-> {"MEASURED", "REJECTED"},
   MEASURED |-> {"PROMOTED", "DORMANT", "REJECTED"},
   DORMANT  |-> {"APPROVED"},
   PROMOTED |-> {},
   REJECTED |-> {}]

QueueTypeOK ==
  /\ status \in [Questions -> ResearchStatus \cup {"none"}]
  /\ approver \in [Questions -> People \cup {Nobody}]
  /\ trial \in [Questions -> BOOLEAN]

QueueInit ==
  /\ status = [q \in Questions |-> "none"]
  /\ approver = [q \in Questions |-> Nobody]
  /\ trial = [q \in Questions |-> FALSE]

-----------------------------------------------------------------------------
(* Both ways a row can appear, from the catalogue and from a data set that *)
(* became ready, leave an existing row alone.                              *)
Propose(q) ==
  /\ status[q] = "none"
  /\ status' = [status EXCEPT ![q] = "PROPOSED"]
  /\ UNCHANGED <<approver, trial>>

Approve(q, who, withTrial) ==
  /\ status[q] = "PROPOSED"
  /\ status' = [status EXCEPT ![q] = "APPROVED"]
  /\ approver' = [approver EXCEPT ![q] = who]
  /\ trial' = [trial EXCEPT ![q] = @ \/ withTrial]

(* Mutant: the trial is asked for when the result is in.                   *)
MoveOnUntried(q, to) ==
  /\ status[q] \notin {"none", "PROPOSED"}
  /\ to \in AllowedTransitions[status[q]]
  /\ to = "PROMOTED" => trial[q]
  /\ status' = [status EXCEPT ![q] = to]
  /\ UNCHANGED <<approver, trial>>

(* transition: neither the approver nor the trial is touched again.        *)
MoveOn(q, to) ==
  /\ status[q] \notin {"none", "PROPOSED"}
  /\ to \in AllowedTransitions[status[q]]
  /\ to = "RUNNING" => trial[q]
  /\ status' = [status EXCEPT ![q] = to]
  /\ UNCHANGED <<approver, trial>>

QueueNext ==
  \E q \in Questions :
    \/ Propose(q)
    \/ \E who \in People, withTrial \in BOOLEAN : Approve(q, who, withTrial)
    \/ \E to \in ResearchStatus : MoveOn(q, to)

QueueSpec == QueueInit /\ [][QueueNext]_queueVars

-----------------------------------------------------------------------------
(* Properties.                                                             *)

(* Past PROPOSED stands a human, and a question that runs, was measured or *)
(* was promoted has a trial in the quarter's budget, through every way     *)
(* back from DORMANT: the rule of research_queue.py that a result without  *)
(* a trial breaks "trial discipline".                                      *)
TrialDiscipline ==
  \A q \in Questions :
    /\ status[q] \notin {"none", "PROPOSED"} => approver[q] \in People
    /\ status[q] \in {"RUNNING", "MEASURED", "PROMOTED"} => trial[q]

(* One approval serves a question for good: whoever let it leave PROPOSED, *)
(* with or without a trial, is never replaced, not even by the retest of a *)
(* dormant question, which therefore runs, if it can run at all, on the    *)
(* trial of its first approval.                                            *)
ApprovalIsForGood ==
  [][\A q \in Questions :
       approver[q] # Nobody => /\ approver'[q] = approver[q]
                               /\ trial'[q] = trial[q]]_queueVars

=============================================================================
