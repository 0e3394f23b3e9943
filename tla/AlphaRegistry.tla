---------------------------- MODULE AlphaRegistry ----------------------------
(***************************************************************************)
(* The alpha registry (alpha/registry.py) over its two tables              *)
(* (storage/duckdb.py): alpha_sources, one row per version, and            *)
(* alpha_status_history, which a status change appends to.                 *)
(*                                                                         *)
(* The two writes of a call are two statements, committed one by one, so   *)
(* the process can die between them.  The primary key of the history is    *)
(* (version, recorded_at, to_status), and recorded_at is the caller's now. *)
(* A call the registry refuses changes nothing and is not an action.       *)
(***************************************************************************)
EXTENDS Integers, Sequences, FiniteSets

CONSTANTS
  Versions,        \* the (alpha_id, version) pairs
  Readings,        \* what the eight evidence fields may be measured to be
  Trials,          \* research trial ids
  MaxCalls,        \* bound: status changes and evidence updates in all
  MaxCrashes,      \* bound: crashes of the process
  MaxSkews         \* bound: calls whose `now` is not later than all before

ASSUME RegistryAssumption ==
  /\ MaxCalls \in Nat
  /\ MaxCrashes \in Nat
  /\ MaxSkews \in Nat

VARIABLES
  row,       \* the alpha_sources row of each version
  history,   \* the rows of alpha_status_history
  writing,   \* the history row the running call has yet to append
  clock,     \* the latest `now` a call was given
  skews,     \* calls whose `now` was not later than all before
  moves,     \* ghost: the statuses each row has had, and since when
  lost,      \* ghost: changes <<v, i>> whose history row a crash took
  calls, crashes,
  passed, rung   \* the history variables of AlphaLifecycle

NoRow    == [status |-> "none", frozen |-> FALSE, reading |-> "unmeasured",
             trials |-> {}]
NoChange == [version |-> "none", at |-> 0, from |-> "none", to |-> "none"]

Status(v) == row[v].status

(* The row is the state of the lifecycle; a version without one is "none". *)
Lifecycle == INSTANCE AlphaLifecycle
  WITH status <- [v \in Versions |-> row[v].status],
       frozen <- [v \in Versions |-> row[v].frozen]

vars == <<row, history, writing, clock, skews, moves, lost, calls, crashes,
          passed, rung>>

Statuses == Lifecycle!AlphaStatus
Terminal == Lifecycle!TerminalStates

Rows    == [status : Statuses \cup {"none"}, frozen : BOOLEAN,
            reading : Readings \cup {"unmeasured"}, trials : SUBSET Trials]
Changes == [version : Versions, at : Nat, from : Statuses \cup {"none"},
            to : Statuses]

TypeOK ==
  /\ row \in [Versions -> Rows]
  /\ history \subseteq Changes
  /\ writing \in Changes \cup {NoChange}
  /\ clock \in Nat
  /\ skews \in 0..MaxSkews
  /\ moves \in [Versions -> Seq([to : Statuses, at : Nat])]
  /\ lost \subseteq Versions \X Nat
  /\ calls \in 0..MaxCalls
  /\ crashes \in 0..MaxCrashes
  /\ passed \in [Versions -> SUBSET Lifecycle!ResearchStates]
  /\ rung \in [Versions -> 0..4]

Init ==
  /\ row = [v \in Versions |-> NoRow]
  /\ history = {}
  /\ writing = NoChange
  /\ clock = 0
  /\ skews = 0
  /\ moves = [v \in Versions |-> <<>>]
  /\ lost = {}
  /\ calls = 0
  /\ crashes = 0
  /\ passed = [v \in Versions |-> {}]
  /\ rung = [v \in Versions |-> 0]

-----------------------------------------------------------------------------
(* One process works on the registry, one call after the other.            *)

StartCall == /\ writing = NoChange
             /\ calls < MaxCalls
             /\ calls' = calls + 1

(* The instant of a call that changes a status: the clock's, or any that   *)
(* the caller passes, one that other calls had or an earlier one included. *)
Instant(t) ==
  \/ t > clock /\ clock' = t /\ UNCHANGED skews
  \/ t =< clock /\ skews < MaxSkews /\ skews' = skews + 1 /\ UNCHANGED clock

(* upsert_alpha_source, the first of a status change's two statements.     *)
UpsertAlphaSource(v, r, t) ==
  /\ row' = [row EXCEPT ![v] = r]
  /\ writing' = [version |-> v, at |-> t, from |-> Status(v), to |-> r.status]
  /\ moves' = [moves EXCEPT ![v] = Append(@, [to |-> r.status, at |-> t])]
  /\ passed' = [passed EXCEPT ![v] = Lifecycle!PassedIn(@, r.status)]
  /\ rung' = [rung EXCEPT ![v] = Lifecycle!RungIn(@, r.status)]

(* Mutant: registering an existing version replaces its row.               *)
Unchecked(v) == TRUE

Unregistered(v) == Status(v) = "none"

Register(v, f, t) ==
  /\ StartCall
  /\ Unregistered(v)
  /\ Instant(t)
  /\ UpsertAlphaSource(v, [NoRow EXCEPT !.status = "IDEA", !.frozen = f], t)
  /\ UNCHANGED <<history, lost, crashes>>

(* Mutant: the row is copied without running the model's validators.       *)
Unvalidated(v, s) == TRUE

(* AlphaSource's own validator, which the constructor runs.                *)
FrozenBeforeConfirmatory(v, s) ==
  s \in Lifecycle!NeedsFreeze => row[v].frozen

(* transition, and disable, which is a transition to DISABLED.             *)
Transition(v, s, t) ==
  /\ StartCall
  /\ Status(v) \notin Terminal \cup {"none", s}
  /\ Lifecycle!TransitionAllowed(Status(v), s)
  /\ FrozenBeforeConfirmatory(v, s)
  /\ Instant(t)
  /\ UpsertAlphaSource(v, [row[v] EXCEPT !.status = s], t)
  /\ UNCHANGED <<history, lost, crashes>>

(* Mutant: the history is keyed by (version, to_status) alone.             *)
SameKeyWithoutInstant(a, b) == a.version = b.version /\ a.to = b.to

(* The primary key of alpha_status_history.                                *)
SameKey(a, b) == a.version = b.version /\ a.at = b.at /\ a.to = b.to

(* Mutant: a history row is appended for a call that changed nothing.      *)
AppendForRefused ==
  /\ history' = {h \in history : ~SameKey(h, writing)} \cup {writing}
  /\ writing' = NoChange
  /\ UNCHANGED <<row, clock, skews, moves, lost, calls, crashes, passed, rung>>

(* append_alpha_status_change: INSERT OR REPLACE, the second statement.    *)
AppendAlphaStatusChange ==
  /\ writing # NoChange
  /\ history' = {h \in history : ~SameKey(h, writing)} \cup {writing}
  /\ writing' = NoChange
  /\ UNCHANGED <<row, clock, skews, moves, lost, calls, crashes, passed, rung>>

(* Mutant: evidence for a rejected alpha is accepted.                      *)
EvidenceOpen(v) == Status(v) # "none"

EvidenceWanted(v) == Status(v) \notin Terminal \cup {"none"}

RecordEvidence(v, reading, trials) ==
  /\ StartCall
  /\ EvidenceWanted(v)
  /\ row' = [row EXCEPT ![v].reading = reading, ![v].trials = @ \cup trials]
  /\ UNCHANGED <<history, writing, clock, skews, moves, lost, crashes, passed,
                 rung>>

(* The process dies between the two statements of a status change; the     *)
(* next one opens the database with the row changed and no history row.    *)
Crash ==
  /\ crashes < MaxCrashes
  /\ writing # NoChange
  /\ crashes' = crashes + 1
  /\ lost' = lost \cup {<<writing.version, Len(moves[writing.version])>>}
  /\ writing' = NoChange
  /\ UNCHANGED <<row, history, clock, skews, moves, calls, passed, rung>>

Call(v) ==
  \/ \E t \in 0..(clock + 1) :
       \/ \E f \in BOOLEAN : Register(v, f, t)
       \/ \E s \in Statuses : Transition(v, s, t)
  \/ \E reading \in Readings, trials \in SUBSET Trials :
       RecordEvidence(v, reading, trials)

Next ==
  \/ \E v \in Versions : Call(v)
  \/ AppendAlphaStatusChange
  \/ Crash

Spec == Init /\ [][Next]_vars

-----------------------------------------------------------------------------
(* Properties.                                                             *)

(* The registry implements the lifecycle, so its rows keep every promise   *)
(* AlphaLifecycle makes, across crashes and evidence updates.              *)
ImplementsLifecycle == Lifecycle!Spec

(* A stored version that earns is frozen, validated, confirmed and         *)
(* shadowed since it last began, whatever crashed in between.              *)
ProductionWasConfirmed == Lifecycle!ProductionWasConfirmed

(* No sequence of calls raises a stored version's allocation by more than  *)
(* one rung.                                                               *)
PromotionIsEarned == Lifecycle!PromotionIsEarned

(* The i-th change of v's status, as it should have been recorded; and     *)
(* whether it was: a crash may have cut it off, or its second statement is *)
(* still to come.                                                          *)
Change(v, i) == [version |-> v, at |-> moves[v][i].at,
                 from |-> IF i = 1 THEN "none" ELSE moves[v][i - 1].to,
                 to |-> moves[v][i].to]

InFlight(v, i) == writing # NoChange /\ writing.version = v /\ i = Len(moves[v])
Told(v)        == {i \in DOMAIN moves[v] : <<v, i>> \notin lost /\ ~InFlight(v, i)}

(* What the table holds on to: a later change of v to the same status at   *)
(* the same instant takes an earlier one's row.                            *)
Kept(v) ==
  {i \in Told(v) : \A j \in Told(v) : i < j => moves[v][j] # moves[v][i]}

(* The instants list_alpha_status_history orders by tell the changes of a  *)
(* version apart, and in their order.                                      *)
ListedInOrder(v) ==
  \A i, j \in DOMAIN moves[v] : i < j => moves[v][i].at < moves[v][j].at

(* The history of a version is exactly the path its row took, each change  *)
(* with the status it left, apart from the changes a crash cut off and     *)
(* those whose instant a caller passed again for the same status.  Where   *)
(* no caller's now ran backwards or repeated, it is listed in its order.   *)
HistoryTellsThePath ==
  \A v \in Versions :
    /\ {h \in history : h.version = v} = {Change(v, i) : i \in Kept(v)}
    /\ skews = 0 => ListedInOrder(v)

(* Failure memory: no call and no crash takes back a trial, a rejection or *)
(* a history row, unless a change to the same status at the same instant   *)
(* takes its place; and a rejected version's evidence never changes again. *)
FailureMemory ==
  [][/\ \A h \in history \ history' :
          /\ h.to \notin Terminal
          /\ \E g \in history' : g.version = h.version /\ g.at = h.at /\ g.to = h.to
     /\ \A v \in Versions :
          /\ row[v].trials \subseteq row'[v].trials
          /\ Status(v) \in Terminal => row'[v] = row[v]]_vars

=============================================================================
